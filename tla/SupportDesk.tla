---------------------------- MODULE SupportDesk ----------------------------
(***************************************************************************)
(* Support cases (support/services.py).  Each handler locks its case; the  *)
(* escalation job reads the overdue cases first and locks them one by one  *)
(* afterwards.                                                             *)
(***************************************************************************)
CONSTANT Cases

VARIABLES
    desk,    \* SupportCase.status
    overdue, \* sla_due_at has passed
    heard,   \* cases with a message of the office
    blamed,  \* cases with an OfficeViolation
    listed,  \* cases the running job has read and not yet handled
    frozen,  \* cases that took the passenger's seat off sale
    issue    \* cases with an open TripOperationalIssue

dVars == <<desk, overdue, heard, blamed, listed, frozen, issue>>

OpenSupport == {"awaiting_office", "awaiting_customer", "assigned", "escalated", "reopened"}
DeskStatus == OpenSupport \cup {"none", "resolved", "closed"}

SupportTypeOK ==
    /\ desk \in [Cases -> DeskStatus]
    /\ overdue \subseteq Cases /\ heard \subseteq Cases /\ blamed \subseteq Cases
    /\ listed \subseteq Cases /\ frozen \subseteq Cases /\ issue \subseteq Cases

-----------------------------------------------------------------------------
Becomes(c, st) == desk' = [desk EXCEPT ![c] = st]

OpenCase(c) ==
    /\ desk[c] = "none" /\ Becomes(c, "awaiting_office")
    /\ UNCHANGED <<overdue, heard, blamed, listed, frozen, issue>>

(* open_denied_boarding_case; the seat is taken off sale if there is one.  *)
OpenDenied(c, seated) ==
    /\ desk[c] = "none" /\ Becomes(c, "escalated")
    /\ frozen' = IF seated THEN frozen \cup {c} ELSE frozen
    /\ issue' = issue \cup {c}
    /\ UNCHANGED <<overdue, heard, blamed, listed>>

(* add_support_message *)
OfficeReplies(c) ==
    /\ desk[c] \in OpenSupport /\ Becomes(c, "awaiting_customer")
    /\ heard' = heard \cup {c}
    /\ UNCHANGED <<overdue, blamed, listed, frozen, issue>>

(* The platform replies, or command_support_case: assign, whatever the     *)
(* status.                                                                 *)
AssignCase(c) ==
    /\ desk[c] # "none" /\ Becomes(c, "assigned")
    /\ UNCHANGED <<overdue, heard, blamed, listed, frozen, issue>>

(* The seat stays off sale.                                                *)
Resolve(c) ==
    /\ desk[c] # "none" /\ Becomes(c, "resolved")
    /\ issue' = issue \ {c}
    /\ UNCHANGED <<overdue, heard, blamed, listed, frozen>>

CloseCase(c) ==
    /\ desk[c] = "resolved" /\ Becomes(c, "closed")
    /\ UNCHANGED <<overdue, heard, blamed, listed, frozen, issue>>

ReopenCase(c) ==
    /\ desk[c] \in {"resolved", "closed"} /\ Becomes(c, "reopened")
    /\ UNCHANGED <<overdue, heard, blamed, listed, frozen, issue>>

SlaEnds(c) ==
    /\ desk[c] # "none" /\ c \notin overdue /\ overdue' = overdue \cup {c}
    /\ UNCHANGED <<desk, heard, blamed, listed, frozen, issue>>

-----------------------------------------------------------------------------
(* escalate_overdue_support_cases *)

ListOverdue ==
    /\ listed = {} /\ listed' = {c \in overdue : desk[c] = "awaiting_office"} /\ listed' # {}
    /\ UNCHANGED <<desk, overdue, heard, blamed, frozen, issue>>

AsListed(c) == TRUE \* wrong on purpose
StillSilent(c) == desk[c] = "awaiting_office" /\ c \notin heard

Escalate(c) ==
    /\ c \in listed /\ listed' = listed \ {c}
    /\ IF StillSilent(c)
       THEN Becomes(c, "escalated") /\ blamed' = blamed \cup {c}
       ELSE UNCHANGED <<desk, blamed>>
    /\ UNCHANGED <<overdue, heard, frozen, issue>>

SupportInit ==
    /\ desk = [c \in Cases |-> "none"]
    /\ overdue = {} /\ heard = {} /\ blamed = {} /\ listed = {} /\ frozen = {} /\ issue = {}

SupportNext ==
    \/ \E c \in Cases : \/ OpenCase(c) \/ OfficeReplies(c) \/ AssignCase(c) \/ Resolve(c)
                        \/ CloseCase(c) \/ ReopenCase(c) \/ SlaEnds(c) \/ Escalate(c)
                        \/ \E seated \in BOOLEAN : OpenDenied(c, seated)
    \/ ListOverdue

SupportSpec == SupportInit /\ [][SupportNext]_dVars

(* An office is blamed for silence only if it has said nothing: its reply  *)
(* may come while the job goes through the cases it read before.           *)
OnlySilenceIsBlamed == [][(blamed' \ blamed) \cap heard = {}]_dVars
=============================================================================
