------------------------------ MODULE SeatSale ------------------------------
(***************************************************************************)
(* What the inventory of a trip promises: every seat has at most one owner *)
(* and no seat passes from one booking to another without being free in    *)
(* between.  The specification is abstract: it names no hold, no payment   *)
(* and no clock.  SeatBooking implements it (see SeatBooking!Sale).        *)
(***************************************************************************)
CONSTANTS Seats,     \* the seats of one trip
          Bookings,  \* the bookings that may own them
          Free       \* the owner of an unsold seat

VARIABLE owner       \* owner[s] is the booking that owns seat s, or Free

Init == owner = [s \in Seats |-> Free]

(* One booking takes seats that are all free: a sale, or the return of its *)
(* own released seats.                                                     *)
Take(b, S) ==
    /\ \A s \in S : owner[s] = Free
    /\ owner' = [s \in Seats |-> IF s \in S THEN b ELSE owner[s]]

(* Seats become free: a cancellation, or the expiry of unpaid bookings.    *)
GiveUp(S) == owner' = [s \in Seats |-> IF s \in S THEN Free ELSE owner[s]]

(* A passenger moves to a free seat and leaves the old one free.           *)
Move(b, old, new) ==
    /\ owner[old] = b
    /\ owner[new] = Free
    /\ owner' = [owner EXCEPT ![old] = Free, ![new] = b]

Next ==
    \/ \E b \in Bookings, S \in SUBSET Seats : Take(b, S)
    \/ \E S \in SUBSET Seats : GiveUp(S)
    \/ \E b \in Bookings, old, new \in Seats : Move(b, old, new)

Spec == Init /\ [][Next]_owner
=============================================================================
