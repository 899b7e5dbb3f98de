----------------------------- MODULE MCPayments -----------------------------
(* Instances of Payments for TLC. *)
EXTENDS Payments, TLC

CONSTANTS x1, t1, c1, e1, e2, w1, w2

(* An event for another method fails whatever it says, and one that raises *)
(* changes nothing: one such is enough, and without transfers beside it.   *)
(* When the money of a mismatch was paid, and its reference, play no role, *)
(* nor does the time of an event that raises.                              *)
Quiet(e) == event[e] # NoPayload /\ (event[e].intent # x1 \/ Raises(e))
Plausible ==
    /\ \A e \in Events :
        IF event[e].intent = x1
        THEN /\ event[e].refTaken => Matches(e)
             /\ Raises(e) \/ ~Matches(e) => event[e].inTime
        ELSE event[e] \in {NoPayload,
                           [intent |-> t1, amount |-> 1, inTime |-> TRUE, refTaken |-> FALSE]}
    /\ \A d, e \in Events : Quiet(d) /\ Quiet(e) => d = e
    /\ transfer[t1] = "none" \/ ~\E e \in Events : Quiet(e)

PaymentsSymmetry == Permutations(Events) \cup Permutations(Workers)
=============================================================================
