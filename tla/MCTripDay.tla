----------------------------- MODULE MCTripDay -----------------------------
(* Instances of TripDay for TLC. *)
EXTENDS TripDay, TLC

CONSTANTS p1, p2, p3, b1, b2, d1

Pair == (p1 :> b1) @@ (p2 :> b1)
BoardOffline == {[dev |-> d1, pax |-> p1, cmd |-> "board"]}
(* States that only repeat others: a change before boarding opens, a plan  *)
(* after it has closed, a package after the departure; and a part payment  *)
(* together with a refund, a plan or a package.                            *)
Few == /\ trip = "booking_open" => version = 1 /\ plan = NoPlan
       /\ plan # NoPlan => trip = "boarding_open"
       /\ trip \notin {"boarding_open", "boarding_closed"} => pack = [d \in Devices |-> 0]
       /\ inTime # {} => refunding = {} /\ plan = NoPlan /\ pack = [d \in Devices |-> 0]
       /\ refunding # {} => plan = NoPlan /\ pack = [d \in Devices |-> 0]
============================================================================
