---------------------------- MODULE RequestPath ----------------------------
(***************************************************************************)
(* What every write request passes: the guard that lets writes in only     *)
(* while the platform is open (continuity/middleware.py) and the           *)
(* idempotency key (common/idempotency.py), with the operating modes of    *)
(* the platform and their reconciliation (continuity/services.py).         *)
(***************************************************************************)
EXTENDS Integers, FiniteSets

CONSTANTS Requests,   \* attempts, retries of the same request among them
          Key, Body,  \* of each request
          Unscoped    \* keys used with scope_id NULL, which no index holds unique

VARIABLES
    mode,      \* PlatformContinuityState.mode
    required,  \* reconciliation_required
    lastRun,   \* status of the latest ReconciliationRun
    conflicts, \* the data contradict themselves: seats, payments or ledger
    phase,     \* where each request is
    record,    \* committed IdempotencyKey rows: key, body and response
    reply,     \* the response each request was given: the request that produced it
    backup,    \* the rows of the dump that a restore brings back
    lost,      \* requests whose committed effect a restore took back
    declared   \* a recovery was declared after the last restore

qVars == <<mode, required, lastRun, conflicts, phase, record, reply, backup, lost, declared>>
modeVars == <<mode, required, lastRun, conflicts, backup, lost, declared>>

-----------------------------------------------------------------------------
Modes == {"normal", "maintenance", "recovery", "reconciliation"}
Runs == {"none", "passed", "failed"}
Phases == {"new", "admitted", "working", "done", "refused", "failed"}
Keys == {Key[r] : r \in Requests}
NoAnswer == "none"
Record == [key : Keys, body : {Body[r] : r \in Requests}, by : Requests]
Dump == [mode : Modes, required : BOOLEAN, lastRun : Runs, record : SUBSET Record]

RequestPathTypeOK ==
    /\ mode \in Modes /\ required \in BOOLEAN /\ conflicts \in BOOLEAN
    /\ lastRun \in Runs
    /\ phase \in [Requests -> Phases]
    /\ record \subseteq Record
    /\ reply \in [Requests -> Requests \cup {NoAnswer}]
    /\ backup \in Dump /\ lost \subseteq Requests /\ declared \in BOOLEAN

-----------------------------------------------------------------------------
Working(k) == {r \in Requests : phase[r] = "working" /\ Key[r] = k}
Recorded(k) == {d \in record : d.key = k}

(* ContinuityWriteGuardMiddleware; the request commits later.              *)
Admit(r) ==
    /\ phase[r] = "new"
    /\ phase' = [phase EXCEPT ![r] = IF mode = "normal" THEN "admitted" ELSE "refused"]
    /\ UNCHANGED <<modeVars, record, reply>>

NoneIsRecorded(r) == Recorded(Key[r]) = {} \* wrong on purpose
(* The insertion of a scoped key waits for the transaction that holds it.  *)
MayInsert(r) == /\ Recorded(Key[r]) = {}
                /\ Key[r] \in Unscoped \/ Working(Key[r]) = {}

(* begin_idempotency: a new key ...                                        *)
Begin(r) ==
    /\ phase[r] = "admitted" /\ MayInsert(r)
    /\ phase' = [phase EXCEPT ![r] = "working"]
    /\ UNCHANGED <<modeVars, record, reply>>

(* ... or one that is recorded: its response, or a conflict.               *)
Replay(r) ==
    /\ phase[r] = "admitted"
    /\ \E d \in Recorded(Key[r]) :
           IF d.body = Body[r]
           THEN /\ phase' = [phase EXCEPT ![r] = "done"]
                /\ reply' = [reply EXCEPT ![r] = d.by]
           ELSE /\ phase' = [phase EXCEPT ![r] = "refused"] /\ UNCHANGED reply
    /\ UNCHANGED <<modeVars, record>>

(* The effect, complete_idempotency and the commit are one.                *)
Commit(r) ==
    /\ phase[r] = "working"
    /\ phase' = [phase EXCEPT ![r] = "done"]
    /\ record' = record \cup {[key |-> Key[r], body |-> Body[r], by |-> r]}
    /\ reply' = [reply EXCEPT ![r] = r]
    /\ UNCHANGED modeVars

(* An error or a crash takes the key back with the effect.                 *)
RollBack(r) ==
    /\ phase[r] = "working"
    /\ phase' = [phase EXCEPT ![r] = "failed"]
    /\ UNCHANGED <<modeVars, record, reply>>

-----------------------------------------------------------------------------
(* change_mode and run_reconciliation lock the one state row.              *)

requestVars == <<phase, record, reply>>
copyVars == <<backup, lost>>

Maintenance ==
    /\ mode' = "maintenance"
    /\ UNCHANGED <<required, lastRun, conflicts, requestVars, copyVars, declared>>

NotAgain == required \* wrong on purpose
StillRequired == TRUE

Recovery ==
    /\ mode' = "recovery" /\ required' = StillRequired /\ declared' = TRUE
    /\ UNCHANGED <<lastRun, conflicts, requestVars, copyVars>>

Reopen ==
    /\ ~required /\ lastRun = "passed"
    /\ mode' = "normal"
    /\ UNCHANGED <<required, lastRun, conflicts, requestVars, copyVars, declared>>

RunReconciliation ==
    /\ mode \in {"recovery", "reconciliation"} /\ mode' = "reconciliation"
    /\ lastRun' = IF conflicts THEN "failed" ELSE "passed"
    /\ required' = (required /\ conflicts)
    /\ UNCHANGED <<conflicts, requestVars, copyVars, declared>>

-----------------------------------------------------------------------------
(* The database outside the program: a dump of what is committed; its      *)
(* restoration in any mode, which brings back the rows of the mode, of the *)
(* runs and of the keys with whatever contradictions, and breaks off the   *)
(* transactions under way; and a repair by hand.                           *)

Backup ==
    /\ backup' = [mode |-> mode, required |-> required, lastRun |-> lastRun, record |-> record]
    /\ UNCHANGED <<mode, required, lastRun, conflicts, requestVars, lost, declared>>

RestoreDump ==
    /\ mode' = backup.mode /\ required' = backup.required /\ lastRun' = backup.lastRun
    /\ conflicts' \in BOOLEAN
    /\ record' = backup.record
    /\ lost' = lost \cup {d.by : d \in record \ backup.record}
    /\ phase' = [r \in Requests |-> IF phase[r] = "working" THEN "failed" ELSE phase[r]]
    /\ declared' = FALSE
    /\ UNCHANGED <<reply, backup>>

Repair ==
    /\ conflicts /\ conflicts' = FALSE
    /\ UNCHANGED <<mode, required, lastRun, requestVars, copyVars, declared>>

RequestPathInit ==
    /\ mode = "normal" /\ required = FALSE /\ lastRun = "none" /\ conflicts = FALSE
    /\ phase = [r \in Requests |-> "new"]
    /\ record = {} /\ reply = [r \in Requests |-> NoAnswer]
    /\ backup = [mode |-> "normal", required |-> FALSE, lastRun |-> "none", record |-> {}]
    /\ lost = {} /\ declared = FALSE

RequestPathNext ==
    \/ \E r \in Requests : Admit(r) \/ Begin(r) \/ Replay(r) \/ Commit(r) \/ RollBack(r)
    \/ Maintenance \/ Recovery \/ Reopen \/ RunReconciliation
    \/ Backup \/ RestoreDump \/ Repair

RequestPathSpec == RequestPathInit /\ [][RequestPathNext]_qVars

-----------------------------------------------------------------------------
(* Properties *)

(* Of the attempts with one scoped key at most one has an effect that      *)
(* stands, and whoever was answered holds the response recorded for the    *)
(* key, for the body sent, unless a restore took that effect back.         *)
OncePerKey ==
    \A k \in Keys \ Unscoped :
        /\ Cardinality(Recorded(k)) <= 1
        /\ \A r \in Requests : Key[r] = k /\ phase[r] = "done" /\ reply[r] \notin lost
                               => \E d \in Recorded(k) : d.body = Body[r] /\ d.by = reply[r]

(* E18-AC03 as far as it goes: a recovery that is declared after the data  *)
(* were restored keeps the bookings closed until these data pass, whatever *)
(* runs and modes the dump brought back. A recovery declared before the    *)
(* restore is forgotten with the rows that say so, and nothing is claimed. *)
DeclaredIsReconciled == mode = "normal" /\ declared => ~conflicts /\ ~required

(* Both, for retries, crashes, dumps, restores and recoveries in any order. *)
RequestsAreSafe == OncePerKey /\ DeclaredIsReconciled
=============================================================================
