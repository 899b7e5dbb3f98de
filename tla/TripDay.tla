------------------------------- MODULE TripDay -------------------------------
(***************************************************************************)
(* One trip from the opening of boarding to its end: command_trip of       *)
(* trips/services.py, the tickets, boarding/services.py online and         *)
(* offline, the no-show job, and interruption.  Which seat a passenger has *)
(* and who competes for it is in SeatBooking and Reallocation: here a      *)
(* passenger has a seat or not, and a booking can get its seats back or    *)
(* not.                                                                    *)
(*                                                                         *)
(* Every handler locks the trip and is one action, except the no-show job, *)
(* which lists trips without a lock and locks their passengers afterwards. *)
(* A synchronisation handles its events one after another under the lock;  *)
(* the action takes one of them, and a list is a sequence of such steps.   *)
(***************************************************************************)
EXTENDS Integers, Sequences, FiniteSets

CONSTANTS Passengers, Bookings,
          BookingOf,     \* the booking of each passenger
          OfflineEvents, \* what devices recorded offline: [dev, pax, cmd], also its identifier
          MaxTickets,    \* bound on the versions of a passenger's ticket
          MaxVersion     \* bound on Trip.version where a change of the trip bumps it

ASSUME TripDayAssumption ==
    /\ BookingOf \in [Passengers -> Bookings]
    /\ MaxTickets \in Nat \ {0} /\ MaxVersion \in Nat
    /\ OfflineEvents \subseteq [dev : {e.dev : e \in OfflineEvents}, pax : Passengers,
                                cmd : {"arrive", "verify", "board", "deny"}]

VARIABLES
    clock,      \* 0; 1 from boarding_open_at on; 2 from the scheduled departure on
    trip,       \* Trip.status
    version,    \* Trip.version
    status,     \* Booking.status
    pax,        \* BookingPassenger.status
    boarding,   \* BookingPassenger.boarding_status
    seated,     \* passengers with an ACTIVE seat assignment
    restorable, \* bookings with no assignment moved and no seat withdrawn from sale
    inTime,     \* bookings with a payment before their deadline that does not cover them
    refunding,  \* bookings with an open refund
    tickets,    \* status of every version of the passenger's ticket
    plan,       \* the previewed reallocation: its trip version and passengers
    pack,       \* trip version of a device's offline package; 0 without one
    events,     \* BoardingEvent rows with an offline identifier
    conflicts,  \* BoardingSyncConflict rows
    approval,   \* BoardingCorrectionApproval.status
    final,      \* who is boarded on the FINAL manifest
    listed,     \* the no-show job has the trip in its list
    resolution  \* TripInterruptionResolution.status

tripVars == <<clock, trip, version>>
peopleVars == <<status, pax, boarding>>
seatVars == <<seated, restorable, inTime, refunding>>
bookingVars == <<peopleVars, seatVars>>
deviceVars == <<pack, events, conflicts>>
vars == <<clock, trip, version, status, pax, boarding, seated, restorable, inTime, refunding,
          tickets, plan, pack, events, conflicts, approval, final, listed, resolution>>

-----------------------------------------------------------------------------
(* Types *)

TripStatus == {"booking_open", "boarding_open", "boarding_closed", "departed", "arrived",
               "completed", "cancelled", "interrupted"}
BookingStatus == {"awaiting_payment", "confirmed", "cancellation_pending", "cancelled",
                  "denied_boarding_review", "no_show", "completed"}
BoardingStatus == {"not_arrived", "arrived", "verified", "boarded", "boarded_reversed",
                   "denied", "no_show"}
TicketStatus == {"active", "used", "revoked"}
Devices == {e.dev : e \in OfflineEvents}
NoPlan == [version |-> 0, who |-> {}]

TypeOK ==
    /\ clock \in 0 .. 2 /\ trip \in TripStatus /\ version \in Nat
    /\ status \in [Bookings -> BookingStatus]
    /\ pax \in [Passengers -> {"active", "cancelled"}]
    /\ boarding \in [Passengers -> BoardingStatus]
    /\ seated \subseteq Passengers /\ restorable \subseteq Bookings
    /\ inTime \subseteq Bookings /\ refunding \subseteq Bookings
    /\ tickets \in [Passengers -> Seq(TicketStatus)]
    /\ plan \in [version : Nat, who : SUBSET Passengers]
    /\ pack \in [Devices -> Nat]
    /\ events \subseteq OfflineEvents /\ conflicts \subseteq OfflineEvents
    /\ approval \in [Passengers -> {"none", "approved", "used"}]
    /\ final \subseteq Passengers
    /\ listed \in BOOLEAN
    /\ resolution \in [Bookings -> {"none", "pending", "resolved"}]

-----------------------------------------------------------------------------
(* Helpers.  Operators marked "wrong on purpose" are faulty versions of    *)
(* the operator that follows them, for the properties to detect.           *)

Booked(p) == status[BookingOf[p]]
PaxOf(b) == {p \in Passengers : BookingOf[p] = b}
Travelling(b) == {p \in PaxOf(b) : pax[p] = "active"}
In(b, set) == status[b] \in set

(* tickets/services.py *)
With(p, st) == {v \in DOMAIN tickets[p] : tickets[p][v] \in st}
ActiveTicket(p) == With(p, {"active"})
LiveTicket(p) == With(p, {"active", "used"})
Newest(vs) == CHOOSE v \in vs : \A w \in vs : w <= v
Room(p) == Len(tickets[p]) < MaxTickets

Revoked(ts) == [v \in DOMAIN ts |-> IF ts[v] = "active" THEN "revoked" ELSE ts[v]]
ReissuedBeside(ts) == Append(ts, "active") \* wrong on purpose
Reissued(ts) == Append(Revoked(ts), "active")
Issued(p) == IF ActiveTicket(p) = {} THEN Append(tickets[p], "active") ELSE tickets[p]

(* boarding/services.py: COMMAND_TO_STATUS *)
EventOf == [arrive |-> "arrived", verify |-> "verified", board |-> "boarded", \* wrong on purpose
            reverse |-> "reversed", deny |-> "denied", no_show |-> "no_show"]
StatusOf == [arrive |-> "arrived", verify |-> "verified", board |-> "boarded",
             reverse |-> "boarded_reversed", deny |-> "denied", no_show |-> "no_show"]
Commands == DOMAIN StatusOf

(* _resolve_ticket_or_passenger: the versions a command may act on.        *)
Found(p, qr) == IF qr THEN ActiveTicket(p) ELSE LiveTicket(p)
ResolvesAnyone(p, qr) == qr => ActiveTicket(p) # {} \* wrong on purpose
Resolves(p, qr) == pax[p] = "active" /\ (qr => ActiveTicket(p) # {})

NeedsCorrectionUnderway == trip = "departed" \* wrong on purpose
(* After the departure a reversal takes an approval of the platform.       *)
NeedsCorrection == trip \in {"departed", "arrived", "completed"}
MayReverse(p) == NeedsCorrection => approval[p] = "approved"

AbsentEvenIfReviewed(p) == clock = 2 /\ trip = "boarding_closed" /\ boarding[p] \in {"not_arrived", "arrived"} \* wrong on purpose
MayMarkNoShow(p) ==
    /\ clock = 2 /\ trip = "boarding_closed"
    /\ boarding[p] \in {"not_arrived", "arrived"}
    /\ Booked(p) # "denied_boarding_review"

(* _validate_command; a missing reason is refused and changes nothing.     *)
Allowed(c, p, qr) ==
    /\ c \in {"arrive", "verify", "board", "deny"} => trip = "boarding_open"
    /\ c = "arrive" => boarding[p] = "not_arrived"
    /\ c = "verify" => boarding[p] \in {"not_arrived", "arrived"}
    /\ c = "board" => /\ boarding[p] \in {"not_arrived", "arrived", "verified", "boarded_reversed"}
                      /\ Found(p, qr) # {}
    /\ c \in {"verify", "board"} => Booked(p) # "awaiting_payment"
    /\ c = "reverse" => boarding[p] = "boarded" /\ MayReverse(p)
    /\ c = "deny" => boarding[p] \in {"arrived", "verified"}
    /\ c = "no_show" => MayMarkNoShow(p)

TicketKept(c, ts, v) == ts \* wrong on purpose
TicketAfter(c, ts, v) ==
    [ts EXCEPT ![v] = CASE c = "board" -> "used" [] c = "reverse" -> "active" [] OTHER -> @]
WithTicket(c, p, qr) ==
    IF Found(p, qr) = {} THEN tickets[p] ELSE TicketAfter(c, tickets[p], Newest(Found(p, qr)))

SomeNoShow(b, marks) == status[b] = "confirmed" /\ \E p \in Travelling(b) : marks[p] = "no_show" \* wrong on purpose
(* _mark_booking_no_show_if_complete *)
AllNoShow(b, marks) == status[b] = "confirmed" /\ \A p \in Travelling(b) : marks[p] = "no_show"

(* execute_boarding_command, where the command is allowed.  A denial opens *)
(* a case that freezes the passenger's seat (open_denied_boarding_case).   *)
Execute(c, p, qr) ==
    LET b == BookingOf[p]
        marks == [boarding EXCEPT ![p] = StatusOf[c]]
    IN  /\ boarding' = marks
        /\ tickets' = [tickets EXCEPT ![p] = WithTicket(c, p, qr)]
        /\ status' = [status EXCEPT ![b] =
               CASE c = "deny" -> "denied_boarding_review"
                 [] c = "no_show" /\ AllNoShow(b, marks) -> "no_show"
                 [] OTHER -> @]
        /\ approval' = [approval EXCEPT ![p] =
               IF c = "reverse" /\ NeedsCorrection /\ Found(p, qr) # {} THEN "used" ELSE @]
        /\ restorable' = IF c = "deny" /\ p \in seated THEN restorable \ {b} ELSE restorable

-----------------------------------------------------------------------------
(* Boarding *)

BoardingCommand(c, p, qr) ==
    /\ Resolves(p, qr) /\ Allowed(c, p, qr)
    /\ Execute(c, p, qr)
    /\ UNCHANGED <<tripVars, pax, seated, inTime, refunding, plan, deviceVars, final, listed, resolution>>

(* No code approves corrections: the rows come from the database console.  *)
GrantCorrection(p) ==
    /\ approval[p] = "none" /\ NeedsCorrection /\ boarding[p] = "boarded"
    /\ approval' = [approval EXCEPT ![p] = "approved"]
    /\ UNCHANGED <<tripVars, bookingVars, tickets, plan, deviceVars, final, listed, resolution>>

(* create_offline_package *)
CreatePackage(d) ==
    /\ trip = "boarding_open"
    /\ pack' = [pack EXCEPT ![d] = version]
    /\ UNCHANGED <<tripVars, bookingVars, tickets, plan, events, conflicts, approval, final,
                   listed, resolution>>

PackageExpires(d) ==
    /\ pack[d] # 0
    /\ pack' = [pack EXCEPT ![d] = 0]
    /\ UNCHANGED <<tripVars, bookingVars, tickets, plan, events, conflicts, approval, final,
                   listed, resolution>>

NeverSeen(e) == FALSE \* wrong on purpose
Duplicate(e) == e \in events
Applicable(e) == pack[e.dev] = version /\ e.cmd \in {"arrive", "verify", "board"}

(* sync_offline_events for one event: a known one is skipped, one that     *)
(* cannot be applied any more becomes a conflict for a human.              *)
SyncEvent(e, qr) ==
    /\ pack[e.dev] # 0
    /\ ~Duplicate(e)
    /\ IF Applicable(e) /\ Resolves(e.pax, qr) /\ Allowed(e.cmd, e.pax, qr)
       THEN /\ Execute(e.cmd, e.pax, qr)
            /\ events' = events \cup {e}
            /\ UNCHANGED conflicts
       ELSE /\ conflicts' = conflicts \cup {e}
            /\ UNCHANGED <<status, boarding, tickets, approval, restorable, events>>
    /\ UNCHANGED <<tripVars, pax, seated, inTime, refunding, plan, pack, final, listed, resolution>>

DueOnceDeparted == trip = "departed" /\ clock = 2 \* wrong on purpose
DueTrip == trip = "boarding_closed" /\ clock = 2

(* mark_due_no_shows: its query of the trips, then that of the passengers. *)
ListDueTrip ==
    /\ ~listed /\ DueTrip
    /\ listed' = TRUE
    /\ UNCHANGED <<tripVars, bookingVars, tickets, plan, deviceVars, approval, final, resolution>>

DueNoShow(p) == Booked(p) = "confirmed" /\ pax[p] = "active" /\ boarding[p] = "not_arrived"

MarkDueNoShows ==
    LET due == {p \in Passengers : DueNoShow(p)}
        marks == [p \in Passengers |-> IF p \in due THEN "no_show" ELSE boarding[p]]
    IN  /\ listed /\ listed' = FALSE
        /\ boarding' = marks
        /\ status' = [b \in Bookings |->
               IF PaxOf(b) \cap due # {} /\ AllNoShow(b, marks) THEN "no_show" ELSE status[b]]
        /\ UNCHANGED <<tripVars, pax, seatVars, tickets, plan, deviceVars, approval, final,
                       resolution>>

-----------------------------------------------------------------------------
(* Trip commands *)

TripStep(from, to) == trip = from /\ trip' = to /\ version' = version + 1

OpenBoarding ==
    /\ clock >= 1 /\ TripStep("booking_open", "boarding_open")
    /\ UNCHANGED <<clock, bookingVars, tickets, plan, deviceVars, approval, final, listed, resolution>>

CloseBoarding ==
    /\ TripStep("boarding_open", "boarding_closed")
    /\ UNCHANGED <<clock, bookingVars, tickets, plan, deviceVars, approval, final, listed, resolution>>

(* _departure_blockers: a passenger of a confirmed booking has no seat, or *)
(* a booking is under review.                                              *)
Blocked == \/ \E p \in Passengers \ seated : Booked(p) = "confirmed"
           \/ \E b \in Bookings : status[b] = "denied_boarding_review"

Aboard == {p \in Passengers : boarding[p] = "boarded"}
(* generate_manifest, as far as it lists passengers as boarded.            *)
Manifest == {p \in Aboard : pax[p] = "active" /\ Booked(p) \in {"confirmed", "denied_boarding_review"}}

Depart ==
    /\ ~Blocked /\ TripStep("boarding_closed", "departed")
    /\ final' = Manifest
    /\ UNCHANGED <<clock, bookingVars, tickets, plan, deviceVars, approval, listed, resolution>>

Arrive ==
    /\ TripStep("departed", "arrived")
    /\ UNCHANGED <<clock, bookingVars, tickets, plan, deviceVars, approval, final, listed, resolution>>

(* `recognised` are the bookings whose payment status lets                 *)
(* recognize_trip_financials complete them.                                *)
Complete(recognised) ==
    /\ \A b \in Bookings : ~In(b, {"denied_boarding_review", "cancellation_pending"})
    /\ TripStep("arrived", "completed")
    /\ status' = [b \in Bookings |->
           IF b \in recognised /\ status[b] = "confirmed" THEN "completed" ELSE status[b]]
    /\ UNCHANGED <<clock, pax, boarding, seatVars, tickets, plan, deviceVars, approval, final, listed, resolution>>

(* _active_bookings *)
ActiveBookings == {b \in Bookings : In(b, {"awaiting_payment", "confirmed",
                                           "cancellation_pending", "denied_boarding_review"})}

(* The seats stay assigned, but none of them can be sold or restored.      *)
CancelTrip ==
    /\ trip \in {"booking_open", "boarding_open", "boarding_closed"}
    /\ TripStep(trip, "cancelled")
    /\ status' = [b \in Bookings |->
           IF b \in ActiveBookings THEN "cancellation_pending" ELSE status[b]]
    /\ restorable' = {}
    /\ UNCHANGED <<clock, pax, boarding, seated, inTime, refunding, tickets, plan, deviceVars,
                   approval, final, listed, resolution>>

(* interrupt_trip *)
Interrupt ==
    /\ TripStep("departed", "interrupted")
    /\ resolution' = [b \in Bookings |->
           IF In(b, {"confirmed", "denied_boarding_review"}) THEN "pending" ELSE resolution[b]]
    /\ UNCHANGED <<clock, bookingVars, tickets, plan, deviceVars, approval, final, listed>>

(* resolve_interruption_booking *)
ResolveInterruption(b) ==
    /\ trip = "interrupted" /\ resolution[b] # "none"
    /\ resolution' = [resolution EXCEPT ![b] = "resolved"]
    /\ UNCHANGED <<tripVars, bookingVars, tickets, plan, deviceVars, approval, final, listed>>

(* close_interrupted_trip *)
CloseInterrupted(outcome) ==
    /\ \A b \in Bookings : resolution[b] # "pending"
    /\ TripStep("interrupted", outcome)
    /\ UNCHANGED <<clock, bookingVars, tickets, plan, deviceVars, approval, final, listed, resolution>>

(* update_trip *)
UpdateTrip ==
    /\ trip \in {"booking_open", "boarding_open", "boarding_closed"}
    /\ version < MaxVersion
    /\ version' = version + 1
    /\ UNCHANGED <<clock, trip, bookingVars, tickets, plan, deviceVars, approval, final, listed, resolution>>

-----------------------------------------------------------------------------
(* Bookings and their tickets *)

(* _active_inventory_complete and _try_restore_inventory count the seats   *)
(* of every passenger of the booking, the cancelled ones included.  Another*)
(* booking may have taken them: then the payment changes nothing here.     *)
SeatsFor(b) == PaxOf(b) \subseteq seated \/ b \in restorable
PaxToServe(b) == {p \in PaxOf(b) : ActiveTicket(p) = {}}

(* _complete_booking_after_payment and issue_tickets_for_booking: a payment *)
(* in time that covers the booking confirms it whatever its status, and    *)
(* whoever of its passengers has no active ticket gets one: also those who *)
(* were cancelled, and those who are aboard on a used one.                 *)
Pay(b) ==
    /\ SeatsFor(b)
    /\ \A p \in PaxToServe(b) : Room(p)
    /\ seated' = seated \cup PaxOf(b)
    /\ status' = [status EXCEPT ![b] = "confirmed"]
    /\ tickets' = [p \in Passengers |-> IF BookingOf[p] = b THEN Issued(p) ELSE tickets[p]]
    /\ UNCHANGED <<tripVars, pax, boarding, restorable, inTime, refunding, plan, deviceVars,
                   approval, final, listed, resolution>>

(* The same for a payment that does not cover the booking: the seats come  *)
(* back without a confirmation.                                            *)
PayPart(b) ==
    /\ In(b, {"awaiting_payment", "cancelled"}) /\ Travelling(b) # {}
    /\ inTime' = inTime \cup {b}
    /\ seated' \in {seated} \cup {seated \cup PaxOf(c) : c \in {b} \cap restorable}
    /\ UNCHANGED <<tripVars, peopleVars, restorable, refunding, tickets, plan, deviceVars,
                   approval, final, listed, resolution>>

(* expire_due_unpaid_bookings *)
ExpireUnpaid(b) ==
    /\ status[b] = "awaiting_payment" /\ b \notin inTime
    /\ status' = [status EXCEPT ![b] = "cancelled"]
    /\ seated' = seated \ PaxOf(b)
    /\ UNCHANGED <<tripVars, pax, boarding, restorable, inTime, refunding, tickets, plan,
                   deviceVars, approval, final, listed, resolution>>

(* cancel_public_booking *)
CancelPassengers(b, ps, refund) ==
    /\ In(b, {"confirmed", "awaiting_payment"})
    /\ ps # {} /\ ps \subseteq Travelling(b) \cap seated
    /\ \A p \in ps : boarding[p] \notin {"boarded", "boarded_reversed"}
    /\ pax' = [p \in Passengers |-> IF p \in ps THEN "cancelled" ELSE pax[p]]
    /\ seated' = seated \ ps
    /\ refunding' = IF refund THEN refunding \cup {b} ELSE refunding
    /\ tickets' = [p \in Passengers |-> IF p \in ps THEN Revoked(tickets[p]) ELSE tickets[p]]
    /\ status' = [status EXCEPT ![b] =
           IF ps # Travelling(b) THEN @ ELSE IF refund THEN "cancellation_pending" ELSE "cancelled"]
    /\ UNCHANGED <<tripVars, boarding, restorable, inTime, plan, deviceVars, approval, final,
                   listed, resolution>>

(* command_refund, when the last open refund of the booking succeeds:      *)
(* _finalize_booking_after_refund looks at the passengers, not the status. *)
RefundSucceeds(b) ==
    /\ b \in refunding
    /\ refunding' = refunding \ {b}
    /\ status' = [status EXCEPT ![b] = IF Travelling(b) = {} THEN "cancelled" ELSE @]
    /\ UNCHANGED <<tripVars, pax, boarding, seated, restorable, inTime, tickets, plan, deviceVars,
                   approval, final, listed, resolution>>

MayChange(p) == /\ pax[p] = "active" /\ p \in seated
                /\ boarding[p] \notin {"boarded", "boarded_reversed"}

(* replace_booking_passenger of a confirmed booking; one that awaits its   *)
(* payment has no ticket to replace.                                       *)
ReplacePassenger(p) ==
    /\ MayChange(p) /\ Booked(p) = "confirmed" /\ Room(p)
    /\ tickets' = [tickets EXCEPT ![p] = Reissued(@)]
    /\ UNCHANGED <<tripVars, bookingVars, plan, deviceVars, approval, final, listed, resolution>>

(* change_booking_seat, whatever the status of the booking.  Its seats can *)
(* never be restored any more, and a plan that moves the old assignment    *)
(* can never be applied.                                                   *)
ChangeSeat(p) ==
    /\ MayChange(p)
    /\ Booked(p) = "confirmed" => Room(p)
    /\ restorable' = restorable \ {BookingOf[p]}
    /\ plan' = IF p \in plan.who THEN NoPlan ELSE plan
    /\ tickets' = [tickets EXCEPT ![p] = IF Booked(p) = "confirmed" THEN Reissued(@) ELSE @]
    /\ UNCHANGED <<tripVars, peopleVars, seated, inTime, refunding, deviceVars, approval, final,
                   listed, resolution>>

NobodyBoarded == \A p \in Passengers : boarding[p] # "boarded"

(* preview_vehicle_reallocation; plans that fail are in Reallocation.      *)
PreviewReallocation ==
    /\ trip \in {"booking_open", "boarding_open"} /\ NobodyBoarded
    /\ plan' = [version |-> version, who |-> {p \in seated : pax[p] = "active"}]
    /\ UNCHANGED <<tripVars, bookingVars, tickets, deviceVars, approval, final, listed, resolution>>

(* apply_vehicle_reallocation, which withdraws every seat of before.       *)
ApplyReallocation ==
    /\ plan # NoPlan /\ plan.version = version /\ NobodyBoarded
    /\ plan.who \subseteq seated
    /\ \A p \in plan.who : Room(p)
    /\ version < MaxVersion
    /\ version' = version + 1
    /\ restorable' = {}
    /\ tickets' = [p \in Passengers |-> IF p \in plan.who THEN Reissued(tickets[p]) ELSE tickets[p]]
    /\ plan' = NoPlan
    /\ UNCHANGED <<clock, trip, peopleVars, seated, inTime, refunding, deviceVars, approval, final,
                   listed, resolution>>

TimePasses ==
    /\ clock < 2 /\ clock' = clock + 1
    /\ UNCHANGED <<trip, version, bookingVars, tickets, plan, deviceVars, approval, final, listed, resolution>>

-----------------------------------------------------------------------------
Init ==
    /\ clock = 0 /\ trip = "booking_open" /\ version = 1
    /\ status = [b \in Bookings |-> "awaiting_payment"]
    /\ pax = [p \in Passengers |-> "active"]
    /\ boarding = [p \in Passengers |-> "not_arrived"]
    /\ seated = Passengers /\ restorable = Bookings
    /\ inTime = {} /\ refunding = {}
    /\ tickets = [p \in Passengers |-> << >>]
    /\ plan = NoPlan
    /\ pack = [d \in Devices |-> 0]
    /\ events = {} /\ conflicts = {}
    /\ approval = [p \in Passengers |-> "none"]
    /\ final = {}
    /\ listed = FALSE
    /\ resolution = [b \in Bookings |-> "none"]

NoShowJob == ListDueTrip \/ MarkDueNoShows

Next ==
    \/ \E c \in Commands, p \in Passengers, qr \in BOOLEAN : BoardingCommand(c, p, qr)
    \/ \E p \in Passengers : GrantCorrection(p) \/ ReplacePassenger(p) \/ ChangeSeat(p)
    \/ \E d \in Devices : CreatePackage(d) \/ PackageExpires(d)
    \/ \E e \in OfflineEvents, qr \in BOOLEAN : SyncEvent(e, qr)
    \/ NoShowJob
    \/ OpenBoarding \/ CloseBoarding \/ Depart \/ Arrive \/ CancelTrip \/ Interrupt
    \/ \E bs \in SUBSET Bookings : Complete(bs)
    \/ \E o \in {"completed", "cancelled"} : CloseInterrupted(o)
    \/ \E b \in Bookings : ResolveInterruption(b)
    \/ \E b \in Bookings : Pay(b) \/ PayPart(b) \/ ExpireUnpaid(b) \/ RefundSucceeds(b)
    \/ \E b \in Bookings, ps \in SUBSET Passengers, refund \in BOOLEAN : CancelPassengers(b, ps, refund)
    \/ UpdateTrip \/ PreviewReallocation \/ ApplyReallocation \/ TimePasses

Spec == Init /\ [][Next]_vars
(* Celery runs the no-show job again and again, and time goes on.          *)
FairSpec == Spec /\ WF_vars(NoShowJob) /\ WF_vars(TimePasses)

-----------------------------------------------------------------------------
(* Properties *)

(* However tickets are issued, replaced, moved to another vehicle, used    *)
(* and given back, a passenger holds at most one that opens the door.      *)
OneActiveTicket == \A p \in Passengers : Cardinality(ActiveTicket(p)) <= 1

(* A boarded passenger has used a ticket: no path to the vehicle, online,  *)
(* offline or after a reversal, leaves the ticket he came with unused.     *)
BoardedUsedATicket ==
    \A p \in Passengers : boarding[p] = "boarded" => With(p, {"used"}) # {}

(* A payment after a partial cancellation gives the cancelled passengers   *)
(* their seats and new tickets; still no cancelled passenger gets aboard,  *)
(* and none is cancelled once he is.                                       *)
CancelledStaysAshore ==
    \A p \in Passengers : pax[p] = "cancelled" => boarding[p] \notin {"boarded", "boarded_reversed"}

(* Who is on the FINAL manifest and is not aboard any more left through a  *)
(* correction of the platform, used for him only, unless the trip was      *)
(* interrupted with him: also on a trip that has arrived or is completed.  *)
FinalManifestStands ==
    \A p \in final : boarding[p] # "boarded" =>
        approval[p] = "used" \/ resolution[BookingOf[p]] # "none"

(* E10-AC05: once the trip has departed a reversal is refused except with  *)
(* an approved correction.  The code asks for none while the trip is       *)
(* interrupted, nor after it was closed as cancelled.                      *)
LeftOnlyByCorrection ==
    \A p \in final : boarding[p] # "boarded" => approval[p] = "used"

(* A booking is a no-show only if everyone who was to travel stayed away:  *)
(* neither the stale list of the job nor the office misses one passenger.  *)
NoShowBookingIsAbsent ==
    \A b \in Bookings : status[b] = "no_show" =>
        /\ Travelling(b) # {}
        /\ \A p \in Travelling(b) : boarding[p] = "no_show"

(* E10-AC03: while a denied boarding is under review nobody of the booking *)
(* becomes a no-show, and a denied passenger never does.                   *)
DeniedIsNotNoShow ==
    [][\A p \in Passengers : boarding[p] # "no_show" /\ boarding'[p] = "no_show" =>
           boarding[p] # "denied" /\ Booked(p) # "denied_boarding_review"]_vars

(* E10-AC04: an offline event that was accepted is not put before a human  *)
(* as a conflict when the device sends it again.                           *)
AcceptedStaysAccepted ==
    [][\A e \in events \ conflicts : e \notin conflicts']_vars

(* While the trip stays closed, a passenger who never came is marked.      *)
NoShowsAreMarked ==
    \A p \in Passengers :
        [](DueNoShow(p) /\ trip = "boarding_closed" =>
               <>(~DueNoShow(p) \/ trip # "boarding_closed"))
=============================================================================
