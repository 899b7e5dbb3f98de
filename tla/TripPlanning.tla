---------------------------- MODULE TripPlanning ----------------------------
(***************************************************************************)
(* The trips of one office before anybody boards (trips/services.py) with  *)
(* the vehicles, layouts and drivers they use (fleet/services.py).  Each   *)
(* handler locks its own trip and is one action, except schedule_trip: the *)
(* other trips it compares with are read without a lock, so reading and    *)
(* committing are two steps.                                               *)
(***************************************************************************)
EXTENDS Integers, FiniteSets

CONSTANTS Trips, Fleet, Crew, Layouts, Clients,
          NoDriver,
          SeatCount,    \* seats of a layout
          Slots,        \* departure times
          Turnaround,   \* two duties closer than this overlap
          Material,     \* a shift of the departure by this much is material
          MaxVersion    \* bound: update_trip stops at this Trip.version

ASSUME PlanningAssumption ==
    /\ Fleet # {} /\ Layouts # {} /\ Slots # {} /\ Slots \subseteq Nat
    /\ Material \in Nat \ {0} /\ MaxVersion \in Nat \ {0}

VARIABLES
    trip,      \* status, vehicle, driver, layout, departure, price, version of each trip
    seats,     \* the layout its TripSeat rows were generated from
    checking,  \* schedule_trip has found the trip ready and not yet committed
    due,       \* booking_open_at has come
    clients,   \* active bookings of a trip
    asked,     \* bookings with a pending response to a change
    bus,       \* status and layout of a vehicle
    layout,    \* SeatLayout.status
    driver,    \* Driver.status
    licensed   \* the office is ACTIVE

pVars == <<trip, seats, checking, due, clients, asked, bus, layout, driver, licensed>>
fleetVars == <<bus, layout, driver, licensed>>

-----------------------------------------------------------------------------
TripStatus == {"none", "draft", "scheduled", "published", "booking_open", "cancelled"}
Operational == {"scheduled", "published", "booking_open"}
LayoutStatus == {"absent", "active", "retired"}
VehicleStatus == {"active", "inactive", "retired"}
NoLayout == "none"

PlannedTrip == [st : TripStatus, vehicle : Fleet, driver : Crew \cup {NoDriver}, layout : Layouts,
                at : Slots, price : {1, 2}, ver : 1 .. MaxVersion + 4]

PlanningTypeOK ==
    /\ trip \in [Trips -> PlannedTrip]
    /\ seats \in [Trips -> Layouts \cup {NoLayout}]
    /\ asked \in [Trips -> SUBSET Clients] /\ clients \in [Trips -> SUBSET Clients]
    /\ checking \in [Trips -> BOOLEAN] /\ due \in [Trips -> BOOLEAN]
    /\ bus \in [Fleet -> [st : VehicleStatus, layout : Layouts]]
    /\ layout \in [Layouts -> LayoutStatus]
    /\ driver \in [Crew -> {"active", "suspended"}] /\ licensed \in BOOLEAN

-----------------------------------------------------------------------------
Apart(x, y) == IF x < y THEN y - x ELSE x - y

(* _has_resource_overlap: what is committed of the other trips.            *)
Overlaps(t, u) ==
    /\ u # t /\ trip[u].st \in Operational
    /\ Apart(trip[t].at, trip[u].at) < Turnaround
    /\ \/ trip[u].vehicle = trip[t].vehicle
       \/ trip[t].driver # NoDriver /\ trip[u].driver = trip[t].driver

(* check_trip_readiness with assert_vehicle_assignable and                 *)
(* assert_driver_assignable.                                               *)
Ready(t) ==
    /\ licensed
    /\ bus[trip[t].vehicle].st = "active"
    /\ trip[t].driver \in Crew /\ driver[trip[t].driver] = "active"
    /\ layout[trip[t].layout] = "active"
    /\ \A u \in Trips : ~Overlaps(t, u)

(* _inventory_is_valid counts the seats and no more.                       *)
InventoryIsValid(t) == seats[t] # NoLayout /\ SeatCount[seats[t]] = SeatCount[trip[t].layout]

(* Every handler that writes a trip asks for the version it was shown.     *)
Bumped(t, change) == [trip EXCEPT ![t] = [change EXCEPT !.ver = @ + 1]]

CreateTrip(t, v, d, at) ==
    /\ trip[t].st = "none"
    /\ trip' = [trip EXCEPT ![t] = [st |-> "draft", vehicle |-> v, driver |-> d,
                                    layout |-> bus[v].layout, at |-> at, price |-> 1, ver |-> 1]]
    /\ UNCHANGED <<seats, checking, due, clients, asked, fleetVars>>

CheckReadiness(t) ==
    /\ trip[t].st = "draft" /\ ~checking[t] /\ Ready(t)
    /\ checking' = [checking EXCEPT ![t] = TRUE]
    /\ UNCHANGED <<trip, seats, due, clients, asked, fleetVars>>

(* schedule_trip, from the readiness it found to the end, _create_inventory*)
(* included.                                                               *)
Schedule(t) ==
    /\ checking[t] /\ checking' = [checking EXCEPT ![t] = FALSE]
    /\ trip' = Bumped(t, [trip[t] EXCEPT !.st = "scheduled"])
    /\ seats' = [seats EXCEPT ![t] = trip[t].layout]
    /\ UNCHANGED <<due, clients, asked, fleetVars>>

Publish(t) ==
    /\ trip[t].st = "scheduled" /\ ~checking[t] /\ licensed
    /\ trip' = Bumped(t, [trip[t] EXCEPT !.st = "published"])
    /\ UNCHANGED <<seats, checking, due, clients, asked, fleetVars>>

OpenTime(t) ==
    /\ ~due[t] /\ due' = [due EXCEPT ![t] = TRUE]
    /\ UNCHANGED <<trip, seats, checking, clients, asked, fleetVars>>

OpenBooking(t) ==
    /\ trip[t].st = "published" /\ ~checking[t] /\ due[t] /\ InventoryIsValid(t)
    /\ trip' = Bumped(t, [trip[t] EXCEPT !.st = "booking_open"])
    /\ UNCHANGED <<seats, checking, due, clients, asked, fleetVars>>

DueTrips == {t \in Trips : trip[t].st = "published" /\ due[t]}

(* open_due_trip_bookings: one transaction for all due trips, rolled back  *)
(* by the first whose inventory is not valid.                              *)
OpenDueBookings ==
    /\ DueTrips # {} /\ \A t \in DueTrips : ~checking[t] /\ InventoryIsValid(t)
    /\ trip' = [t \in Trips |-> IF t \in DueTrips
                                THEN [trip[t] EXCEPT !.st = "booking_open", !.ver = @ + 1] ELSE trip[t]]
    /\ UNCHANGED <<seats, checking, due, clients, asked, fleetVars>>

PriceOnly(t, at, price) == price # trip[t].price \* wrong on purpose
(* _material_change, for a trip with bookings.                             *)
IsMaterial(t, at, price) == price # trip[t].price \/ Apart(at, trip[t].at) >= Material

(* update_trip; the layout follows the vehicle, the seats stay as they are.*)
UpdateTrip(t, v, d, at, price) ==
    LET old == trip[t]
        new == [old EXCEPT !.vehicle = v, !.driver = d, !.at = at, !.price = price,
                           !.layout = IF v = old.vehicle THEN old.layout ELSE bus[v].layout]
    IN  /\ old.st \notin {"none", "cancelled"} /\ ~checking[t] /\ new # old
        /\ old.ver < MaxVersion
        /\ clients[t] # {} => v = old.vehicle
        /\ trip' = Bumped(t, new)
        /\ asked' = [asked EXCEPT ![t] = IF IsMaterial(t, at, price) THEN clients[t] ELSE @]
        /\ UNCHANGED <<seats, checking, due, clients, fleetVars>>

(* SeatBooking has how a booking comes about; it locks the trip.           *)
BookTrip(t, c) ==
    /\ trip[t].st = "booking_open" /\ ~checking[t] /\ c \notin clients[t]
    /\ clients' = [clients EXCEPT ![t] = @ \cup {c}]
    /\ UNCHANGED <<trip, seats, checking, due, asked, fleetVars>>

LeaveTrip(t, c) ==
    /\ c \in clients[t]
    /\ clients' = [clients EXCEPT ![t] = @ \ {c}] /\ asked' = [asked EXCEPT ![t] = @ \ {c}]
    /\ UNCHANGED <<trip, seats, checking, due, fleetVars>>

Answer(t, c) ==
    /\ c \in asked[t] /\ asked' = [asked EXCEPT ![t] = @ \ {c}]
    /\ UNCHANGED <<trip, seats, checking, due, clients, fleetVars>>

(* The bookings wait for their cancellation and still count as active.     *)
CancelTrip(t) ==
    /\ trip[t].st \in Operational /\ ~checking[t]
    /\ trip' = Bumped(t, [trip[t] EXCEPT !.st = "cancelled"])
    /\ UNCHANGED <<seats, checking, due, clients, asked, fleetVars>>

-----------------------------------------------------------------------------
(* The fleet *)

planVars == <<trip, seats, checking, due, clients, asked>>

(* version_seat_layout: vehicles and trips keep the layout they have.      *)
VersionLayout(base, l) ==
    /\ layout[base] # "absent" /\ layout[l] = "absent"
    /\ layout' = [layout EXCEPT ![l] = "active", ![base] = "retired"]
    /\ UNCHANGED <<planVars, bus, driver, licensed>>

UpdateVehicle(v, st, l) ==
    /\ bus[v].st = "retired" => st = "retired"
    /\ l # bus[v].layout => layout[l] = "active"
    /\ bus' = [bus EXCEPT ![v] = [st |-> st, layout |-> l]] /\ bus' # bus
    /\ UNCHANGED <<planVars, layout, driver, licensed>>

UpdateDriver(d) ==
    /\ driver' = [driver EXCEPT ![d] = IF @ = "active" THEN "suspended" ELSE "active"]
    /\ UNCHANGED <<planVars, bus, layout, licensed>>

OfficeChanges ==
    /\ licensed' = ~licensed
    /\ UNCHANGED <<planVars, bus, layout, driver>>

PlanningInit ==
    LET first == CHOOSE l \in Layouts : TRUE
        unplanned == [st |-> "none", vehicle |-> CHOOSE v \in Fleet : TRUE, driver |-> NoDriver,
                      layout |-> first, at |-> CHOOSE x \in Slots : TRUE, price |-> 1, ver |-> 1]
    IN  /\ trip = [t \in Trips |-> unplanned]
        /\ seats = [t \in Trips |-> NoLayout]
        /\ checking = [t \in Trips |-> FALSE] /\ due = [t \in Trips |-> FALSE]
        /\ clients = [t \in Trips |-> {}] /\ asked = [t \in Trips |-> {}]
        /\ bus = [v \in Fleet |-> [st |-> "active", layout |-> first]]
        /\ layout = [l \in Layouts |-> IF l = first THEN "active" ELSE "absent"]
        /\ driver = [d \in Crew |-> "active"] /\ licensed = TRUE

PlanningNext ==
    \/ \E t \in Trips : \/ CheckReadiness(t) \/ Schedule(t) \/ Publish(t) \/ OpenTime(t)
                        \/ OpenBooking(t) \/ CancelTrip(t)
    \/ \E t \in Trips, c \in Clients : BookTrip(t, c) \/ LeaveTrip(t, c) \/ Answer(t, c)
    \/ \E t \in Trips, v \in Fleet, d \in Crew \cup {NoDriver}, at \in Slots :
           \/ CreateTrip(t, v, d, at)
           \/ \E price \in {1, 2} : UpdateTrip(t, v, d, at, price)
    \/ \E a, b \in Layouts : VersionLayout(a, b)
    \/ \E v \in Fleet, st \in VehicleStatus, l \in Layouts : UpdateVehicle(v, st, l)
    \/ \E d \in Crew : UpdateDriver(d)
    \/ OfficeChanges \/ OpenDueBookings

PlanningSpec == PlanningInit /\ [][PlanningNext]_pVars

-----------------------------------------------------------------------------
(* Properties *)

(* E04-AC03: when the price or, by much, the departure of a trip changes,  *)
(* every booking it has is asked to answer, whatever it answered before.   *)
AskedOfEveryChange ==
    [][\A t \in Trips : clients[t] # {} /\ trip[t].st # "none"
            /\ (trip'[t].price # trip[t].price \/ Apart(trip'[t].at, trip[t].at) >= Material)
            => asked'[t] = clients'[t]]_pVars
=============================================================================
