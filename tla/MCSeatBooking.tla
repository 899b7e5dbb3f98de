--------------------------- MODULE MCSeatBooking ---------------------------
(* Instances of SeatBooking for TLC. *)
EXTENDS SeatBooking, TLC

CONSTANTS s1, s2, b1, b2, any

NoPairs == {}
Row == {{s1, s2}}

(* Two passengers of one gender against one, while the trip is not         *)
(* updated; two units are asked for or paid between them.                  *)
PartyOfTwo ==
    /\ \A b \in Bookings : \A p \in Present(b) : gender[b][p] = any
    /\ version = IF tripOpen THEN 1 ELSE 2
    /\ Cardinality(Rows(b2)) <= 1 /\ refundOpen[b2] = {}
    /\ paid[b2] + due[b2] <= 1 /\ paid[b1] + due[b1] + paid[b2] + due[b2] <= 2
(* Two single neighbours of any gender, of whom one pays, and two          *)
(* versions.  Whoever is alone on the trip is of one gender: only whether  *)
(* the other one's differs matters.                                        *)
Neighbours ==
    /\ \A b \in Bookings : Cardinality(Rows(b)) <= 1
    /\ \A b \in Bookings :
           (\A c \in Bookings \ {b} : Present(c) = {}) => \A p \in Present(b) : gender[b][p] = any
    /\ due[b2] = 0 /\ paid[b2] = 0 /\ paid[b1] <= 1
Small == PartyOfTwo \/ Neighbours

SeatSymmetry == Permutations(Seats)
============================================================================
