----------------------------- MODULE MCLiveness -----------------------------
(***************************************************************************)
(* What the periodic jobs owe their users, for TLC: the sale of seats, the *)
(* money of a booking and the day of the trip, each on its smallest        *)
(* instance.  A behaviour follows one of them; the others stand still.     *)
(***************************************************************************)
EXTENDS Integers, Sequences, FiniteSets, TLC

VARIABLES
    focus,
    \* SeatBooking
    now, tripOpen, saleVersion, hold, holdExpiry, quote, deadline, saleStatus, salePax,
    gender, seat, asg, moved, due, salePaid, paidInTime, caseOpen, refundOpen,
    \* Payments
    overdue, moneyStatus, payStatus, total, moneyPaid, seated, intent, amount, transfer,
    sentInTime, delivery, event, ahead, batch, txs, cases,
    \* TripDay
    clock, trip, dayVersion, dayStatus, dayPax, boarding, daySeated, restorable, dayInTime,
    dayRefunding, tickets, plan, pack, events, conflicts, approval, final, listed, resolution

saleVars == <<now, tripOpen, saleVersion, hold, holdExpiry, quote, deadline, saleStatus, salePax,
              gender, seat, asg, moved, due, salePaid, paidInTime, caseOpen, refundOpen>>
moneyVars == <<overdue, moneyStatus, payStatus, total, moneyPaid, seated, intent, amount, transfer,
               sentInTime, delivery, event, ahead, batch, txs, cases>>
dayVars == <<clock, trip, dayVersion, dayStatus, dayPax, boarding, daySeated, restorable,
             dayInTime, dayRefunding, tickets, plan, pack, events, conflicts, approval, final,
             listed, resolution>>
vars == <<focus, saleVars, moneyVars, dayVars>>

-----------------------------------------------------------------------------
(* One seat that two bookings want.                                        *)
Sale == INSTANCE SeatBooking WITH
    Seats <- {"s1"}, Bookings <- {"b1", "b2"}, MaxPax <- 1, Genders <- {"any"}, Adjacent <- {},
    NoSeat <- "none", Free <- "free", HoldTTL <- 1, PayTTL <- 1, MaxTime <- 2, MaxVersion <- 1,
    version <- saleVersion, status <- saleStatus, pax <- salePax, paid <- salePaid

(* One electronic intent, two events and two workers.                      *)
Money == INSTANCE Payments WITH
    Electronic <- {"x1"}, Manual <- {}, Cash <- {}, Receipts <- {}, Events <- {"e1", "e2"},
    Workers <- {"w1", "w2"}, Other <- "other", Price <- 2,
    status <- moneyStatus, paid <- moneyPaid

(* Two passengers of one booking; no offline device.                       *)
Day == INSTANCE TripDay WITH
    Passengers <- {"p1", "p2"}, Bookings <- {"b1"}, BookingOf <- ("p1" :> "b1") @@ ("p2" :> "b1"),
    OfflineEvents <- {}, MaxTickets <- 1, MaxVersion <- 1,
    version <- dayVersion, status <- dayStatus, pax <- dayPax, seated <- daySeated,
    inTime <- dayInTime, refunding <- dayRefunding

Init ==
    /\ focus \in {"seats", "money", "day"}
    /\ Sale!Init /\ Money!Init /\ Day!Init
    /\ focus = "money" \/ moneyStatus = "confirmed"

Seats(A) == focus = "seats" /\ A /\ UNCHANGED <<focus, moneyVars, dayVars>>
Payment(A) == focus = "money" /\ A /\ UNCHANGED <<focus, saleVars, dayVars>>
Trip(A) == focus = "day" /\ A /\ UNCHANGED <<focus, saleVars, moneyVars>>

Next == Seats(Sale!Next) \/ Payment(Money!Next) \/ Trip(Day!Next)

Spec == Init /\ [][Next]_vars

(* The clock runs, and Celery beat starts each job every few seconds or    *)
(* minutes (CELERY_BEAT_SCHEDULE in config/settings.py).                   *)
FairSpec ==
    /\ Spec
    /\ WF_vars(Seats(Sale!Tick) \/ Trip(Day!TimePasses))
    /\ WF_vars(Seats(Sale!ExpireDueHolds))
    /\ WF_vars(Seats(Sale!ExpireUnpaidBookings))
    /\ \A w \in {"w1", "w2"} : WF_vars(Payment(Money!Job(w)))
    /\ WF_vars(Trip(Day!NoShowJob))

(* What follows the departure or the end of a trip, which never goes back  *)
(* to closed, has nothing to do with its no-shows.                         *)
BeforeTheEnd == trip \in {"booking_open", "boarding_open", "boarding_closed"}

(* When the money of an event was paid plays no role for its handling, nor *)
(* does the reference of one that does not match.                          *)
PlainEvents == \A e \in {"e1", "e2"} :
    event[e].intent = "x1" => event[e].inTime /\ (event[e].refTaken => Money!Matches(e))
Scope == BeforeTheEnd /\ PlainEvents

-----------------------------------------------------------------------------
(* Properties *)

(* A seat hold that has run out is closed by the job or by the next hold.  *)
HoldsEnd == Sale!HoldsEnd

(* A booking that is not paid by its deadline gives its seats back,        *)
(* whatever intents it has opened.                                         *)
UnpaidSeatsComeBack == Sale!UnpaidSeatsComeBack

(* A provider event that was acknowledged is processed, also when its      *)
(* intent has expired or another worker took its batch, unless it raises   *)
(* an error of the database or stands behind one that does.                *)
EventsAreHandled == Money!EventsAreHandled

(* While a trip stays closed after its departure time, a passenger who     *)
(* never came is marked, whatever the office does at the same time.       *)
NoShowsAreMarked == Day!NoShowsAreMarked
=============================================================================
