------------------------------ MODULE Offices ------------------------------
(***************************************************************************)
(* One office: its verification, documents and payout accounts             *)
(* (organizations/services.py), and the status the platform gives it       *)
(* (adminops/services.py).  The verification command works on an Office    *)
(* row that its view read before the transaction and saves it whole, so    *)
(* reading and saving are two steps.                                       *)
(***************************************************************************)
EXTENDS Integers, FiniteSets

CONSTANTS Staff,     \* reviewers, owners and officers of the platform
          Sanctions, \* rows of PlatformActionApproval, each used once
          Deposits,  \* payout accounts
          MaxCase    \* bound on VerificationCase.version

(* The name that stands for an empty reference is nobody's; versions start *)
(* at 1.                                                                   *)
ASSUME OfficesAssumption == "nobody" \notin Staff /\ MaxCase \in Nat \ {0}

VARIABLES
    office,    \* Office.status
    case,      \* latest VerificationCase: status, version, reviewer, risk
    reading,   \* per person, the verification command under way and the status it read
    papers,    \* status of the required document
    sanction,  \* PlatformActionApproval: status, target, requester and approver
    deposit    \* OfficePayoutAccount: status, creator, approver and whether it has cooled

oVars == <<office, case, reading, papers, sanction, deposit>>
reviewVars == <<office, case, reading, papers, sanction>>

-----------------------------------------------------------------------------
OfficeStatus == {"draft", "submitted", "under_review", "conditional", "active", "restricted",
                 "no_new_bookings", "wind_down", "suspended", "terminated", "archived"}
Critical == {"suspended", "terminated"}
(* What the platform may set by itself, and who may be sold for.           *)
PlatformStatus == {"active", "restricted", "no_new_bookings"}
Selling == {"active", "conditional"}
CaseStatus == {"draft", "submitted", "under_review", "info_required", "external_verification",
               "conditional", "approved", "rejected", "expired"}
Commands == {"submit", "start_review", "request_info", "resubmit", "external_check",
             "conditional_approve", "approve", "reject", "expire"}
DepositStatus == {"none", "pending", "verified", "active", "replaced"}
Nobody == "nobody"
Names == Staff \cup {Nobody}
NoCommand == [cmd |-> "none", saw |-> "draft"]
NoDeposit == [st |-> "none", by |-> Nobody, ok |-> Nobody, cooled |-> FALSE]
NoSanction == [st |-> "none", to |-> "suspended", by |-> Nobody, ok |-> Nobody]

OfficesTypeOK ==
    /\ office \in OfficeStatus /\ papers \in {"missing", "pending", "verified", "expired"}
    /\ case \in [st : CaseStatus, ver : 1 .. MaxCase, reviewer : Names, enhanced : BOOLEAN]
    /\ reading \in [Staff -> {NoCommand} \cup [cmd : Commands, saw : OfficeStatus]]
    /\ sanction \in [Sanctions -> [st : {"none", "pending", "rejected", "executed"}, to : Critical,
                                   by : Names, ok : Names]]
    /\ deposit \in [Deposits -> [st : DepositStatus, by : Names, ok : Names, cooled : BOOLEAN]]

-----------------------------------------------------------------------------
(* Verification *)

Complete == papers # "missing"
(* The statuses a command is for, and what it makes of case and office.    *)
From == [submit |-> {"draft"}, start_review |-> {"submitted"}, request_info |-> {"under_review"},
         resubmit |-> {"info_required"}, external_check |-> {"under_review"},
         conditional_approve |-> {"under_review", "external_verification"},
         approve |-> {"under_review", "external_verification", "conditional"},
         reject |-> {"under_review", "external_verification"}, expire |-> {"approved", "conditional"}]
To == [submit |-> "submitted", start_review |-> "under_review", request_info |-> "info_required",
       resubmit |-> "submitted", external_check |-> "external_verification",
       conditional_approve |-> "conditional", approve |-> "approved", reject |-> "rejected",
       expire |-> "expired"]
OfficeAfter(cmd, saw) ==
    CASE cmd \in {"submit", "resubmit"} -> "submitted"
      [] cmd = "start_review" -> "under_review"
      [] cmd = "conditional_approve" -> "conditional"
      [] cmd = "approve" -> "active"
      [] cmd = "expire" -> "restricted"
      [] OTHER -> saw

Permits(u, cmd) ==
    /\ cmd \in {"submit", "resubmit"} => Complete
    /\ cmd = "approve" => papers = "verified" /\ (case.enhanced => case.reviewer # u)
    /\ cmd = "expire" => papers = "expired"

BeginVerification(u, cmd) ==
    /\ reading[u] = NoCommand
    /\ reading' = [reading EXCEPT ![u] = [cmd |-> cmd, saw |-> office]]
    /\ UNCHANGED <<office, case, papers, sanction, deposit>>

(* command_verification: the locked case decides, the office is overwritten.*)
EndVerification(u) ==
    LET cmd == reading[u].cmd IN
    /\ reading[u] # NoCommand /\ reading' = [reading EXCEPT ![u] = NoCommand]
    /\ \/ /\ case.st \in From[cmd] /\ Permits(u, cmd)
          /\ cmd = "resubmit" => case.ver < MaxCase
          /\ case' = [case EXCEPT !.st = To[cmd],
                                  !.ver = IF cmd = "resubmit" THEN @ + 1 ELSE @,
                                  !.reviewer = CASE cmd = "start_review" -> u
                                                 [] cmd = "resubmit" -> Nobody
                                                 [] OTHER -> @]
          /\ office' = OfficeAfter(cmd, reading[u].saw)
       \/ /\ ~(case.st \in From[cmd] /\ Permits(u, cmd)) /\ UNCHANGED <<case, office>>
    /\ UNCHANGED <<papers, sanction, deposit>>

(* register_office_document and review_office_document; time passes.       *)
Document(st) ==
    /\ st # papers /\ (papers = "missing" => st = "pending") /\ st # "missing"
    /\ papers' = st
    /\ UNCHANGED <<office, case, reading, sanction, deposit>>

-----------------------------------------------------------------------------
(* The platform *)

(* request_office_status_change: set at once, or asked for.                *)
SetStatus(st) ==
    /\ st \in PlatformStatus /\ office' = st
    /\ UNCHANGED <<case, reading, papers, sanction, deposit>>

AskSanction(u, g, st) ==
    /\ st \in Critical /\ sanction[g].st = "none"
    /\ sanction' = [sanction EXCEPT ![g] = [st |-> "pending", to |-> st, by |-> u, ok |-> Nobody]]
    /\ UNCHANGED <<office, case, reading, papers, deposit>>

DecidedByAnyone(u, g) == sanction[g].st = "pending" \* wrong on purpose
MayDecide(u, g) == sanction[g].st = "pending" /\ sanction[g].by # u

(* command_platform_approval, whatever the status has become meanwhile.    *)
DecideSanction(u, g, yes) ==
    /\ MayDecide(u, g)
    /\ sanction' = [sanction EXCEPT ![g].st = IF yes THEN "executed" ELSE "rejected", ![g].ok = u]
    /\ office' = IF yes THEN sanction[g].to ELSE office
    /\ UNCHANGED <<case, reading, papers, deposit>>

-----------------------------------------------------------------------------
(* Payout accounts *)

(* The check for a change under way locks nothing: two requests may pass.  *)
RequestPayout(u, a) ==
    /\ deposit[a].st = "none"
    /\ deposit' = [deposit EXCEPT ![a] = [st |-> "pending", by |-> u, ok |-> Nobody, cooled |-> FALSE]]
    /\ UNCHANGED reviewVars

ApprovePayout(u, a) ==
    /\ deposit[a].st = "pending" /\ deposit[a].by # u
    /\ deposit' = [deposit EXCEPT ![a].st = "verified", ![a].ok = u]
    /\ UNCHANGED reviewVars

CoolingEnds(a) ==
    /\ deposit[a].st = "verified" /\ ~deposit[a].cooled
    /\ deposit' = [deposit EXCEPT ![a].cooled = TRUE]
    /\ UNCHANGED reviewVars

OnlyActivated(a) == [deposit EXCEPT ![a].st = "active"] \* wrong on purpose
Activated(a) ==
    [b \in Deposits |-> IF b = a THEN [deposit[b] EXCEPT !.st = "active"]
                        ELSE IF deposit[b].st = "active" THEN [deposit[b] EXCEPT !.st = "replaced"]
                        ELSE deposit[b]]

(* activate_due_payout_accounts, for each account that is due.             *)
ActivatePayout(a) ==
    /\ deposit[a].st = "verified" /\ deposit[a].cooled
    /\ deposit' = Activated(a)
    /\ UNCHANGED reviewVars

OfficesInit ==
    /\ office = "draft" /\ papers = "missing" /\ sanction = [g \in Sanctions |-> NoSanction]
    /\ case \in {[st |-> "draft", ver |-> 1, reviewer |-> Nobody, enhanced |-> e] : e \in BOOLEAN}
    /\ reading = [u \in Staff |-> NoCommand]
    /\ deposit = [a \in Deposits |-> NoDeposit]

OfficesNext ==
    \/ \E u \in Staff :
           \/ \E cmd \in Commands : BeginVerification(u, cmd)
           \/ \E g \in Sanctions, st \in Critical : AskSanction(u, g, st)
           \/ \E g \in Sanctions, yes \in BOOLEAN : DecideSanction(u, g, yes)
           \/ \E a \in Deposits : RequestPayout(u, a) \/ ApprovePayout(u, a)
           \/ EndVerification(u)
    \/ \E st \in {"pending", "verified", "expired"} : Document(st)
    \/ \E st \in PlatformStatus : SetStatus(st)
    \/ \E a \in Deposits : CoolingEnds(a) \/ ActivatePayout(a)

OfficesSpec == OfficesInit /\ [][OfficesNext]_oVars

-----------------------------------------------------------------------------
(* Properties *)

(* However requests, approvals and cooling times overlap, at most one      *)
(* payout account is active, and another person than its creator approved  *)
(* it.                                                                     *)
OnePayoutAccount ==
    LET paidTo == {a \in Deposits : deposit[a].st = "active"}
    IN  Cardinality(paidTo) <= 1 /\ \A a \in paidTo : deposit[a].ok \notin {Nobody, deposit[a].by}

(* E16-AC04: an office is suspended or terminated only where two people    *)
(* asked for just that and approved it, also when a verification command   *)
(* that had read the status saves it over what came after.                 *)
ByTwo(st) ==
    \E g \in Sanctions : /\ sanction[g].st = "executed" /\ sanction[g].to = st
                         /\ sanction[g].by # sanction[g].ok /\ Nobody \notin {sanction[g].by, sanction[g].ok}
SanctionedByTwo == office \in Critical => ByTwo(office)

(* E16-AC02, a suspended office makes no new bookings: it sells again only *)
(* when the platform sets its status or a reviewer approves it who had     *)
(* read that it is suspended.  The code does not keep this: a command that *)
(* read the office before saves the status it read, or approves it.        *)
SuspensionIsNotOverlooked ==
    [][office = "suspended" /\ office' \in Selling =>
           \A u \in Staff : reading[u] # reading'[u] =>
               /\ reading[u].cmd \in {"approve", "conditional_approve"}
               /\ reading[u].saw = "suspended"]_oVars
=============================================================================
