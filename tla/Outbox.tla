------------------------------- MODULE Outbox -------------------------------
(***************************************************************************)
(* From an outbox event to a message that arrived, or to an escalation of  *)
(* it (notifications/services.py), which is a support case only where the  *)
(* message belongs to a booking.  The dispatcher and the sender are jobs   *)
(* of one transaction each; a provider is outside of it, so a message may  *)
(* be sent although the transaction that sent it is lost.                  *)
(***************************************************************************)
EXTENDS Integers, Sequences, SequencesExt

CONSTANTS Events,      \* outbox events, each for one external channel
          Meaning,     \* the semantic key of an event
          Unknown,     \* events whose template does not exist
          ByMail,      \* meanings sent by e-mail; the others by SMS
          Reachable,   \* meanings whose booking has a phone number
          MaxAttempts, \* NOTIFICATION_MAX_ATTEMPTS
          MaxSent      \* bound on what the provider is given

(* At least one attempt is made.                                           *)
ASSUME OutboxAssumption == MaxAttempts \in Nat \ {0} /\ MaxSent \in Nat

VARIABLES
    event,     \* "none", "pending" (published_at is null) or "published"
    tries,     \* the deliveries of a message, by attempt_no
    escalated, \* messages with a NotificationEscalation
    given,     \* how often the provider has accepted a message
    muted      \* meanings the user does not want on this channel

nVars == <<event, tries, escalated, given, muted>>

-----------------------------------------------------------------------------
Meanings == {Meaning[e] : e \in Events}
(* A message, and the SMS that stands in for an e-mail.                    *)
Messages == Meanings \X {"first", "fallback"}
Try == [st : {"queued", "failed", "delivered"}, permanent : BOOLEAN, due : BOOLEAN]
FirstTry == << [st |-> "queued", permanent |-> FALSE, due |-> TRUE] >>

OutboxTypeOK ==
    /\ event \in [Events -> {"none", "pending", "published"}]
    /\ tries \in [Messages -> Seq(Try)] /\ \A m \in Messages : Len(tries[m]) <= MaxAttempts
    /\ escalated \subseteq Messages /\ given \in [Messages -> 0 .. MaxSent] /\ muted \subseteq Meanings

-----------------------------------------------------------------------------
Emit(e) ==
    /\ event[e] = "none" /\ event' = [event EXCEPT ![e] = "pending"]
    /\ UNCHANGED <<tries, escalated, given, muted>>

(* update_preferences *)
Mute(k) ==
    /\ muted' = muted \cup {k} /\ muted' # muted
    /\ UNCHANGED <<event, tries, escalated, given>>

Pending == {e \in Events : event[e] = "pending"}

(* dispatch_outbox_events with create_notifications_for_event: an event of *)
(* the same meaning makes no second message; one without a template raises *)
(* and takes the whole transaction back, its own attempt count included.   *)
Dispatch ==
    /\ Pending # {} /\ Pending \cap Unknown = {}
    /\ event' = [e \in Events |-> IF e \in Pending THEN "published" ELSE event[e]]
    /\ tries' = [m \in Messages |->
           IF m[2] = "first" /\ tries[m] = << >> /\ m[1] \notin muted
              /\ \E e \in Pending : Meaning[e] = m[1]
           THEN FirstTry ELSE tries[m]]
    /\ UNCHANGED <<escalated, given, muted>>

-----------------------------------------------------------------------------
(* deliver_due_notifications takes queued and failed attempts that are due *)

Sendable(m, i) == tries[m][i].st \in {"queued", "failed"} /\ tries[m][i].due

Accept(m) == given[m] < MaxSent /\ given' = [given EXCEPT ![m] = @ + 1]

DeliverySucceeds(m, i) ==
    /\ Sendable(m, i) /\ Accept(m)
    /\ tries' = [tries EXCEPT ![m][i].st = "delivered"]
    /\ UNCHANGED <<event, escalated, muted>>

(* The message is sent and the commit is lost.                             *)
DeliveryIsLost(m, i) ==
    /\ Sendable(m, i) /\ Accept(m)
    /\ UNCHANGED <<event, tries, escalated, muted>>

IfPermanent(i, permanent) == permanent \* wrong on purpose
Exhausted(i, permanent) == permanent \/ i = MaxAttempts

FallbackOf(m) == <<m[1], "fallback">>
HasFallback(m) == m[2] = "first" /\ m[1] \in ByMail \cap Reachable
ToldOnlyWithoutFallback(m) == IF HasFallback(m) THEN {} ELSE {m} \* wrong on purpose
(* _escalate, once for a message. *)
Told(m) == {m}

(* process_delivery, with _create_fallback and _escalate.                  *)
DeliveryFails(m, i, permanent) ==
    LET failed == [tries[m] EXCEPT ![i] = [@ EXCEPT !.st = "failed", !.permanent = permanent]]
        again == IF ~Exhausted(i, permanent) /\ Len(failed) = i
                 THEN Append(failed, [FirstTry[1] EXCEPT !.due = FALSE]) ELSE failed
    IN  /\ Sendable(m, i)
        /\ tries' = [n \in Messages |->
               CASE n = m -> again
                 [] HasFallback(m) /\ Exhausted(i, permanent) /\ n = FallbackOf(m) /\ tries[n] = << >> -> FirstTry
                 [] OTHER -> tries[n]]
        /\ escalated' = IF Exhausted(i, permanent) THEN escalated \cup Told(m) ELSE escalated
        /\ UNCHANGED <<event, given, muted>>

BackoffEnds(m) ==
    /\ \E i \in DOMAIN tries[m] : ~tries[m][i].due /\ tries' = [tries EXCEPT ![m][i].due = TRUE]
    /\ UNCHANGED <<event, escalated, given, muted>>

OutboxInit ==
    /\ event = [e \in Events |-> "none"]
    /\ tries = [m \in Messages |-> << >>]
    /\ escalated = {} /\ given = [m \in Messages |-> 0] /\ muted = {}

OutboxNext ==
    \/ \E e \in Events : Emit(e)
    \/ \E k \in Meanings : Mute(k)
    \/ \E m \in Messages : \/ BackoffEnds(m)
                           \/ \E i \in DOMAIN tries[m] :
                                  \/ DeliverySucceeds(m, i) \/ DeliveryIsLost(m, i)
                                  \/ \E permanent \in BOOLEAN : DeliveryFails(m, i, permanent)
    \/ Dispatch

OutboxSpec == OutboxInit /\ [][OutboxNext]_nVars

-----------------------------------------------------------------------------
(* Properties *)

(* E15-AC04: when the last attempt at a message has failed there is an     *)
(* escalation of it, and a booking that has a phone number gets an SMS     *)
(* instead; this holds although failed attempts are sent again before and  *)
(* after.                                                                  *)
LostIsTakenUp ==
    \A m \in Messages : tries[m] # << >> /\ Last(tries[m]).st = "failed" =>
        /\ m \in escalated
        /\ HasFallback(m) => tries[FallbackOf(m)] # << >>

(* Expected to fail: ADR 0015, what a transaction published is notified    *)
(* afterwards.                                                             *)
EventsAreDispatched == \A e \in Events \ Unknown : event[e] = "pending" ~> event[e] = "published"
=============================================================================
