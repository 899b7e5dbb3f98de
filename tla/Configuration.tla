---------------------------- MODULE Configuration ----------------------------
(***************************************************************************)
(* The values of one configuration key in one scope (policies/services.py).*)
(* A platform value is proposed by one and approved by another; an office  *)
(* approves its own in the same transaction.  Either way the approval      *)
(* closes the open-ended value before it.  It locks the row it finds, but  *)
(* nothing when there is none, and gets none when the row it waited for    *)
(* was closed meanwhile (READ COMMITTED): finding and committing are two   *)
(* steps.                                                                  *)
(***************************************************************************)
EXTENDS Naturals

CONSTANTS Changes, \* ConfigurationValue rows
          Admins,
          Horizon  \* bound on the instants

(* Rows are not the names of what an approval does besides closing one.    *)
ASSUME ConfigurationAssumption ==
    Horizon \in Nat /\ Changes \cap {"idle", "waits", "nothing"} = {}

VARIABLES
    clock,    \* timezone.now()
    platform, \* the scope is the platform
    value,    \* each row: status, effective_from, effective_to and creator
    found     \* what an approval under way has found to close

cVars == <<clock, platform, value, found>>

-----------------------------------------------------------------------------
ChangeStatus == {"none", "pending", "approved"}
NoEnd == 0  \* effective_to is null
Idle == "idle"
Waits == "waits"
NothingOpen == "nothing"

ConfigurationTypeOK ==
    /\ clock \in Nat /\ platform \in BOOLEAN
    /\ value \in [Changes -> [st : ChangeStatus, from : Nat, to : Nat, by : Admins]]
    /\ found \in [Changes -> Changes \cup {Idle, Waits, NothingOpen}]

-----------------------------------------------------------------------------
ApprovedValues == {c \in Changes : value[c].st = "approved"}
OpenEnded == {c \in ApprovedValues : value[c].to = NoEnd}
(* order_by("-effective_from").first()                                     *)
Newest(cs) == {c \in cs : \A d \in cs : value[d].from <= value[c].from}
Locked(c) == \E d \in Changes : found[d] = c

(* uq_platform_config_time, uq_scoped_config_time                          *)
IsFree(t) == \A c \in Changes : value[c].st # "none" => value[c].from # t

Tick == clock < Horizon /\ clock' = clock + 1 /\ UNCHANGED <<platform, value, found>>

(* propose_configuration_changes; of an office it goes on to Find.         *)
Propose(u, c, t) ==
    /\ value[c].st = "none" /\ t >= clock /\ IsFree(t)
    /\ value' = [value EXCEPT ![c] = [st |-> "pending", from |-> t, to |-> NoEnd, by |-> u]]
    /\ found' = IF platform THEN found ELSE [found EXCEPT ![c] = Waits]
    /\ UNCHANGED <<clock, platform>>

(* approve_configuration_changes *)
ApproveValue(u, c) ==
    /\ platform /\ value[c].st = "pending" /\ value[c].by # u
    /\ found[c] = Idle /\ found' = [found EXCEPT ![c] = Waits]
    /\ UNCHANGED <<clock, platform, value>>

Find(c) ==
    /\ found[c] = Waits
    /\ \/ \E p \in Newest(OpenEnded) : ~Locked(p) /\ found' = [found EXCEPT ![c] = p]
       \/ OpenEnded = {} /\ found' = [found EXCEPT ![c] = NothingOpen]
    /\ UNCHANGED <<clock, platform, value>>

EndsAtOnce(c) == clock \* wrong on purpose
EndsWhen(c) == value[c].from

(* ck_configuration_window *)
MayEnd(p, t) == value[p].to = NoEnd /\ t > value[p].from

(* Whoever waited for the row finds it closed, and closes nothing.         *)
Missed(p) == {d \in Changes : found[d] = Waits /\ value[d].st = "pending" /\ p \in Newest(OpenEnded)}

CommitApproval(c) ==
    /\ \/ /\ found[c] = NothingOpen
          /\ value' = [value EXCEPT ![c].st = "approved"]
          /\ found' = [found EXCEPT ![c] = Idle]
       \/ \E p \in Changes :
              /\ found[c] = p /\ MayEnd(p, EndsWhen(c))
              /\ value' = [value EXCEPT ![c].st = "approved", ![p].to = EndsWhen(c)]
              /\ \E missed \in SUBSET Missed(p) :
                     found' = [d \in Changes |-> CASE d = c -> Idle
                                                   [] d \in missed -> NothingOpen
                                                   [] OTHER -> found[d]]
    /\ UNCHANGED <<clock, platform>>

(* The constraint, or anything else, takes the transaction back; that of   *)
(* an office with the row.                                                 *)
RollBackApproval(c) ==
    /\ found[c] # Idle /\ found' = [found EXCEPT ![c] = Idle]
    /\ value' = IF platform THEN value ELSE [value EXCEPT ![c].st = "none"]
    /\ UNCHANGED <<clock, platform>>

ConfigurationInit ==
    /\ clock = 0 /\ platform \in BOOLEAN
    /\ value \in [Changes -> {[st |-> "none", from |-> 0, to |-> NoEnd, by |-> u] : u \in Admins}]
    /\ found = [c \in Changes |-> Idle]

ConfigurationNext ==
    \/ Tick
    \/ \E c \in Changes : \/ \E u \in Admins : ApproveValue(u, c)
                          \/ \E u \in Admins, t \in 1 .. Horizon : Propose(u, c, t)
                          \/ Find(c) \/ CommitApproval(c) \/ RollBackApproval(c)

ConfigurationSpec == ConfigurationInit /\ [][ConfigurationNext]_cVars

-----------------------------------------------------------------------------
(* Properties *)

HasEnded(c, t) == value[c].to # NoEnd /\ value[c].to <= t

(* effective_configuration: of the values in force at an instant.          *)
InForce(t) == {c \in ApprovedValues : value[c].from <= t /\ ~HasEnded(c, t)}

(* E13-AC05: whatever approvals overlap and in whatever order they come,   *)
(* at every instant the approved value that started last is in force: the  *)
(* end that an approval sets never leaves a gap, nor hides a newer value.  *)
LatestStartCounts ==
    \A t \in 0 .. Horizon : Newest({c \in ApprovedValues : value[c].from <= t}) \subseteq InForce(t)
=============================================================================
