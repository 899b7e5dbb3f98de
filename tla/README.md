# TLA+ models of the bus booking platform

This directory models the server of the bus booking platform, the Django
application under `src/apps/api`: the sale of a trip's seats, the money that
pays for them, the day of the trip, what offices do around it, and what keeps
the platform running. The models say what must hold whatever the interleaving,
TLC checks it on small instances, and TLAPS proves every type invariant, every safety
invariant and every action property that the passing runs check, for every value of
the constants.

1. [The system](#1-the-system): components, state, interactions
2. [Modules](#2-modules) and how they correspond to the code
3. [Runs](#3-runs): what each one shows, bounds, fairness
4. [Proofs](#4-proofs)
5. [Where code and documents disagree](#5-where-code-and-documents-disagree)
6. [Not modelled](#6-not-modelled), and why
7. [What remains](#7-what-remains)

To check a model: `tlc -config TripDay.cfg MCTripDay`; to check proofs:
`tlapm TripDay_proofs.tla`, and the same for the other proof modules and `Sums`. `PROJECT.json` lists the components, the runs, the
hazards of the code at their lines, and the lines that each definition models.

## 1. The system

The server is one PostgreSQL database behind stateless request handlers and
periodic Celery jobs. Nearly every operation is a function in a `services.py`
under `@transaction.atomic` that locks rows with `select_for_update`, checks the
state, writes, and appends an audit entry and outbox events. Concurrency is
therefore between whole transactions (customers, office staff, the payment
provider's callbacks, the jobs), plus the places where rows are read before they
are locked.

| Component | State | Operations | Interacts with | What makes it correct |
|---|---|---|---|---|
| Seat inventory (`bookings/`) | `SeatHold`, `SeatAssignment`, `TripSeat` | hold, release, expire; sell; change seat; replace, cancel passenger | payments restore and expire assignments; trip commands close the inventory | one owner for a seat; travellers are seated; a running hold keeps others out; genders of different bookings are not neighbours |
| Booking lifecycle (same files) | `Booking.status`, `BookingPassenger` | create, cancel, complete, no-show | everything below | only the catalogued transitions |
| Public search (`trips/public_services.py`) | none of its own | availability, quotes | reads trips and seats | quotes go stale with the trip's version |
| Payments (`payments/services.py`) | `PaymentIntent`, `ManualPaymentSubmission`, `PaymentTransaction`, `WebhookDelivery`, `PaymentReconciliationCase` | create intent, submit, verify, reject transfer, record cash, receive and process events, expire unpaid | confirms or restores bookings, posts ledger entries, issues tickets | money is counted once; unserved money is in a case; expiry takes no money |
| Refunds, chargebacks (`payments/refund_services.py`) | `Refund`, approvals, `Chargeback` | request, approve, reject, process, succeed, fail, retry | ends `cancellation_pending` bookings, posts ledger entries | never more back than came in; a booking ends when its last refund is settled |
| Trip lifecycle (`trips/services.py`) | `Trip.status`, `.version`, generated `TripSeat`s | create, schedule, publish, open, update, depart, arrive, complete, cancel | makes quotes stale; asks bookings to answer a change; gates boarding | a change asks every booking; departure and completion only without blockers |
| Reallocation, interruption (`trips/reallocation_services.py`) | `TripReallocationPlan`, `TripChangeResponse`, `TripInterruptionResolution` | preview (solver), apply, respond, interrupt, resolve | moves assignments in bulk, reissues tickets | an applied plan keeps the seating rules |
| Tickets (`tickets/services.py`) | `Ticket` versions | issue, reissue, revoke, verify | follow passengers and seats; read at boarding | at most one valid ticket for a passenger |
| Boarding (`boarding/services.py`) | boarding statuses, manifests, offline packages, events, conflicts | commands, packages, synchronisation, corrections, no-shows | tickets, trips, bookings | online and offline converge; absence is never a mistake of the order |
| Ledger, commission, settlement (`finance/services.py`) | entries, `Commission`, `Settlement` | post, recognise, calculate, approve, pay | fed by payments, refunds, disputes | each booking is settled once |
| Disputes (`finance/dispute_services.py`) | `FinancialDispute`, decisions | open, respond, decide, appeal, close | freezes part of a settlement | the last decision counts, once |
| Subscriptions (`subscriptions/services.py`) | plans, subscriptions, invoices, change requests | assign, trial, pay, void, change, renew | limits offices; posts ledger entries | one live subscription, whose status is that of its invoice; what is owed is what is open |
| Notifications, outbox (`notifications/`) | `OutboxEvent`, deliveries, escalations | emit, dispatch, deliver, retry, fall back | written by all | a lost message is escalated |
| Idempotency (`common/idempotency.py`) | `IdempotencyKey` | begin, replay, commit | wraps mutating requests | a retry has no second effect |
| Policies, configuration (`policies/`) | `ConfigurationValue`, legal documents | propose, approve, look up | read by the core | one value in force, the one that started last |
| Organizations, offices, staff (`organizations/`) | `Office`, `VerificationCase`, documents, payout accounts, memberships | verification commands, payout requests, invitations | an office may sell only when active | two people decide on money and on sanctions |
| Fleet, geography (`fleet/`, `geography/`) | vehicles, layouts, drivers, routes | create, update, version | planning of trips | assignable only while active |
| Identity, security operations (`identity/`, `securityops/`) | accounts, sessions, MFA, exports, retention | sign in, revoke, approve | who may act | outside the booking protocol |
| Support desk (`support/`) | `SupportCase`, violations | open, reply, assign, resolve, escalate | denied boardings | only silence is blamed |
| Continuity (`continuity/`) | operating mode, reconciliation runs, backups | change mode, reconcile, restore | refuses writes | after a declared recovery, open only on reconciled data |
| Platform administration, audit (`adminops/`, `audit/`) | critical approvals, audit log | change office status, report | offices | two people for critical actions |
| Web interface (`src/apps/web`) | none that the server trusts | | calls the API | |

The hard behaviours:

* **Money that arrives late or twice.** A success may be processed after the
  booking expired and its seat was sold again. The code then tries to restore
  the old seats (`_try_restore_inventory`) or opens a reconciliation case.
* **Seats that several paths give away.** A sale, an office move, a passenger
  replacement, a restoration and a reallocation each decide that a seat is free,
  with different tests.
* **Statuses beside the facts.** Bookings, passengers, boardings, tickets,
  assignments and refunds have status columns that different handlers update.
* **Stale reads.** Two runs of the webhook job list the same deliveries; the
  no-show and the escalation job list first and lock later; a plan, an offline
  package, a verification command, `schedule_trip` and an approval of a
  configuration value act on what they read earlier.
* **Failures.** Provider events are repeated, contradict each other or come late; a
  delivery is sent and its transaction lost; a database error ends a run of a
  job; a refund fails and is tried again;
  a request crashes and is retried; a recovery restores old data.
* **Time.** Holds, quotes, payment deadlines, boarding times, cooling times, appeal
  times and billing periods run out independently, at inclusive or exclusive
  boundaries, and jobs act on it some time later.

## 2. Modules

| Module | Models | Instance | Proofs |
|---|---|---|---|
| `SeatSale` | abstract: each seat has one owner or is free | | |
| `SeatBooking` | the seats of one trip: holds, bookings, assignments, and what payments, refunds and trip commands do to them | `MCSeatBooking` | `SeatBooking_proofs` |
| `Payments` | the money that comes in for one booking | `MCPayments` | `Payments_proofs` |
| `TripDay` | one trip from boarding to its end, with its tickets | `MCTripDay` | `TripDay_proofs` |
| `Refunds` | the money that goes back, and its ledger entries | `MCBackOffice` | `Refunds_proofs` |
| `Settlements` | recognition, settlements, disputes of one office | `MCBackOffice` | `Settlements_proofs` |
| `TripPlanning` | the trips, vehicles, layouts and drivers of one office before boarding | `MCBackOffice` | `Trips_proofs` |
| `Reallocation` | the change of a trip's vehicle | `MCBackOffice` | `Trips_proofs` |
| `Subscriptions` | what offices pay the platform | `MCBackOffice` | `BackOffice_proofs` |
| `Offices` | one office: verification, sanctions, payout accounts | `MCBackOffice` | `BackOffice_proofs` |
| `Outbox` | events, messages, attempts, escalation | `MCBackOffice` | `BackOffice_proofs` |
| `RequestPath` | the write guard, the idempotency key, dump and restore | `MCBackOffice` | `BackOffice_proofs` |
| `SupportDesk` | support cases and their escalation job | `MCBackOffice` | `BackOffice_proofs` |
| `Configuration` | the values of one configuration key | `MCBackOffice` | `BackOffice_proofs` |
| `BackOffice` | the ten above together | `MCBackOffice` | `BackOffice_proofs` |
| `Sums` | no code: lemmas about sums over finite sets | | itself |

`MCLiveness` takes `SeatBooking`, `Payments` and `TripDay` once more, under
fairness. Actions carry the names of the handlers or name them in their comment.
A handler that locks what it works on is one action; where the code reads before
it locks, reading and committing are two.

### SeatBooking

One trip that is open for booking, a set of `Seats`, a set of `Bookings`. A hold
batch and the booking made of it share an identifier: the code finds a batch by
its draft and a batch is consumed by at most one booking.

| Variable | Code |
|---|---|
| `now` | `timezone.now()` |
| `tripOpen`, `version` | `Trip.status`, `Trip.version` |
| `hold`, `holdExpiry`, `quote`, `deadline` | `SeatHold.status`, `.expires_at`, `.quote_version`, and the payment deadline its quote carries into the booking |
| `status` | `Booking.status` |
| `pax`, `gender` | `BookingPassenger` |
| `seat`, `asg` | the latest `SeatAssignment` of a passenger; `moved` says that the booking has a MOVED one too |
| `due`, `paid`, `paidInTime`, `caseOpen` | the open electronic intent, `paid_amount`, whether some succeeded transaction occurred by the deadline, whether a reconciliation case is open |
| `refundOpen` | passengers with an open `Refund` |

Every handler of the seats locks the trip's row, directly or through a join. The
whole handler is in the action, the expiry of run-out holds that
`create_public_seat_hold` does first and the restoration inside a payment
included. The restoration is translated as it stands: it counts all passengers,
cancelled ones too (`InventoryComplete`, `Restored`), it refuses when an earlier
move left an extra assignment (`~moved[b]`), and it compares seats with those of
other bookings only, not with holds or neighbours (`CanRestore`). A ticket costs
one unit; an intent asks for the amount outstanding when it is created. The sold
seats refine `SeatSale` through `owner` (`ImplementsSeatSale`): its steps take
free seats, give seats up, and move to a free seat.

### Payments

One booking, already sold, and everything that can pay for it. Seats are a flag
(`seated`), and what `_try_restore_inventory` would answer is an input of the
step (`back`), so that every answer `SeatBooking` can give is covered.

| Variable | Code |
|---|---|
| `overdue` | `payment_deadline_at` has passed |
| `status`, `payStatus`, `total`, `paid` | the `Booking` columns |
| `intent`, `amount` | `PaymentIntent.status`, `.amount` for each intent of the methods `Electronic`, `Manual`, `Cash` |
| `transfer`, `sentInTime` | `ManualPaymentSubmission.status`, and whether `transferred_at` is by the deadline |
| `delivery`, `event` | `WebhookDelivery.status` and payload; `refTaken` says that its `provider_reference` is that of another booking's intent |
| `ahead` | which delivery was received before which |
| `batch` | the delivery list in a webhook worker's memory |
| `txs` | `PaymentTransaction` rows, with the reference that makes each unique |
| `cases` | open `PaymentReconciliationCase`s by intent and reason |

A worker lists deliveries (`ListDeliveries`, no lock) and handles them in the order of
their receipt, each in a transaction of its own (`ProcessDelivery`), so that two workers
interleave between any two of them. The provider may send an event for any
existing intent, with any amount, for a time before or after the deadline, as
often as there are event identifiers: the serializer has no lower limit for the amount,
and 0 stands for all that are not positive.

Two events raise an error that the job does not expect (`Raises`): one whose amount does
not match and is not positive, since the database refuses its failed transaction
(`ck_payment_tx_amount`), and one that matches but carries a provider reference already in
use. Only `DomainAPIException` is caught (payments/services.py:642), so the transaction is
taken back, the delivery stays RECEIVED, and the run ends before the deliveries behind it,
as will every later run. `EventsAreHandled` claims nothing of an event that raises or is
behind one that does (`Stuck`); it says that nothing else keeps an acknowledged event from
being processed.

### TripDay

One trip, its confirmed or unpaid bookings, and devices that work offline.

| Variable | Code |
|---|---|
| `clock` | before, from `boarding_open_at` on, from the scheduled departure on |
| `trip`, `version` | `Trip.status`, `.version` |
| `status`, `pax`, `boarding` | `Booking.status`, `BookingPassenger.status`, `.boarding_status` |
| `seated`, `restorable` | passengers with an ACTIVE `SeatAssignment`; bookings whose seats `_try_restore_inventory` would still give back |
| `inTime`, `refunding` | bookings with a payment in time that does not cover them; bookings with an open `Refund` |
| `tickets` | the status of every version of a passenger's `Ticket` |
| `plan`, `pack` | trip version and passengers of the previewed reallocation; trip version of a device's offline package |
| `events`, `conflicts` | `BoardingEvent` rows with an offline identifier, `BoardingSyncConflict` rows |
| `approval`, `final` | `BoardingCorrectionApproval.status`; who is aboard on the FINAL manifest |
| `listed` | the no-show job has read the trip and not yet marked its passengers |
| `resolution` | `TripInterruptionResolution.status` |

`BoardingCommand` is `execute_boarding_command` with its ticket update, reopening
and correction rules. `SyncEvent` takes one event of a synchronisation: the
handler works through its list under the lock, so that a list is a sequence of
such steps. Whether the command shows a QR code is an input; the code of a ticket
opens the door only while that version is active.

A payment (`Pay`, `PayPart`) may come at any time and for a booking of any status, as in
`_complete_booking_after_payment`: it counts the seats of all passengers, cancelled ones
included, gives them back if it can, confirms, and `issue_tickets_for_booking` gives a new
ticket to whoever has no active one. That includes passengers who were cancelled and
passengers who are aboard on a used ticket; what holds nevertheless is in
`OneActiveTicket`, `BoardedUsedATicket` and `CancelledStaysAshore`. Whether a payment
comes at all, and whether another booking has taken the seats meanwhile (then it changes
nothing here), is `SeatBooking`'s. A change of the departure time itself is left out: it
is in `TripPlanning`, and here it would only move the clock back.

### Refunds, Settlements

`Refunds` follows one booking that was paid in full: `stage`, `active`, `total`,
`paid`, `refunded` are its columns, `refund` is the row of each passenger (status,
amount asked, amount approved), `contested` the open chargeback, `fee` the
`Commission`, and `account` the balance of every ledger account that payment,
refund and recognition post to. A failed refund is processed again without another
check (`Retry`), and its money counts as free in the meantime, as in the code.

`Settlements` follows one office: `com` is the status of each booking's
commission, `settlement` has a status, items and a net amount, `payable` and
`receivable` are the ledger balances with the office, and `dispute`, `decision`
and `effect` are the disputes. Periods may overlap (`EarnedIn`), are calculated
again, and freeze the disputed part of electronic bookings.

### TripPlanning, Reallocation

`TripPlanning` has several trips that share vehicles, layouts and drivers.
`schedule_trip` compares with other trips without locking them: `CheckReadiness`
reads, `Schedule` commits. `seats` remembers the layout the inventory was
generated from, since a change of vehicle without bookings keeps the old seats;
`asked` are the bookings with a pending `TripChangeResponse`.

`Reallocation` has the passengers with seats in versions of the inventory (`seat`),
the previewed plan with its lines (`proposal`), and the answers (`answer`). The
backtracking solver is `Solutions`, the set of all distributions that the rules
allow: the plan is any of them, and previewing fails only if there is none. Whether
one of its passengers lost the assignment the plan was made for is `broken`.

### The platform

`Subscriptions`: `lease[o]` is the sequence of an office's subscriptions, each with
the invoice it was created with, `wish` and `agreed` the change requests, `owed` and
`banked` the ledger balances. Dates are abstracted to whether a period has ended and
how late an invoice is; `ProcessDue` is one run of the job, for all offices in one transaction.

`Offices`: a verification command works on an `Office` row that its view read before
the transaction and saves it whole; `BeginVerification` reads, `EndVerification`
commits and saves `reading[u].saw` unless the command decides the status. A suspension or
termination is a `sanction`, a `PlatformActionApproval` with its requester and its approver;
what else the platform sets, it sets at once (`SetStatus`).

`Outbox`: `tries[m]` are the deliveries of a message in the order of their numbers.
`DeliveryIsLost` is a message the provider took whose transaction did not commit. A
run of the dispatcher (`Dispatch`) is one transaction over all pending events, and
one event without a template takes all of it back.

`RequestPath`: a request is admitted by the write guard in one mode and works in
another. The insertion of a scoped key waits for the transaction that holds it; a
key without a scope is not held unique by any index (`create_plan` and
`create_commission_profile` use one). The answer of a request is the
request that produced it. `Backup` and `RestoreDump` are the database outside the program:
a restore happens in any mode and brings back the rows of `PlatformContinuityState`, of
`ReconciliationRun` and of `IdempotencyKey` as they were dumped, with data that may
contradict each other (`conflicts`). `lost` are the requests whose effect it took back,
`declared` says that a recovery was declared since.

`SupportDesk`: `ListOverdue` reads, `Escalate` locks and handles one case.
`Configuration`: `Find` takes the value to close, or waits for it, or finds none;
`CommitApproval` closes it. What a waiting approval gets under READ COMMITTED
(nothing, if the row no longer qualifies) is in `Missed`.

`BackOffice` and `MCLiveness` compose components that share no
state. A behaviour follows one of them, `focus`, while the others stand still: the
interleaving of independent components has no states worth visiting. So a step of the
composition is a step of one component that leaves the variables of the others alone,
and the composition implements each of them (`TripPartsImplemented`,
`PlatformPartsImplemented`): what is proved of a component holds of it.

### Faults on purpose

Operators marked "wrong on purpose" are plausible bugs of the operator below them: a
dropped guard, a boundary off by one, a narrower test. None of them is used by the
specifications. Substituting one for its neighbour must break the property
`PROJECT.json` names with it: this is how we know that a property can fail.

## 3. Runs

Runs that pass:

| Run | Instance | Shows |
|---|---|---|
| `seat_booking` | 2 neighbouring seats, 2 bookings of up to 2 passengers, 2 genders, 2 trip versions, clock to 2, both lifetimes 1 | `NoDoubleSale`, `OneActiveHoldPerSeat`, `LiveBookingIsSeated`, `UnservedMoneyHasACase`, `LateMoneyNeverRevives`, `HoldBrokenOnlyByRestore`, `GenderConflictOnlyByRestore`, `ImplementsSeatSale` |
| `payments` | one intent of each method, 2 provider events, 2 workers, 1 receipt that may be in the books, price 2 | `OneTransactionPerReference`, `PaidIsTheSum`, `NoPartialPayment`, `EveryUnservedPaymentHasACase`, `SuccessIsBacked`, `ExpiryTakesNoMoney` |
| `trip_day` | 2 passengers of one booking, 1 offline device with a boarding, 2 ticket versions, 3 trip versions | `OneActiveTicket`, `BoardedUsedATicket`, `CancelledStaysAshore`, `FinalManifestStands`, `NoShowBookingIsAbsent`, `DeniedIsNotNoShow`, `AcceptedStaysAccepted` |
| `back_office` | refunds: 2 travellers, fare 2, policies of 0, 50 and 100 percent; settlements: an electronic and a cash booking, 2 overlapping periods; reallocation: a guardian, a dependent and a stranger, 2 vehicles of 3 seats and a smaller one; planning: 2 trips, 2 buses, 1 driver, 2 layouts; rent: 1 office, a plan with a period and one without; offices: 2 people, 1 sanction, 2 accounts; outbox: 3 events, one of an unknown kind, 2 attempts; requests: 4, of which 3 share a key, and a dump; support: 2 cases; settings: 3 values, 2 administrators, 3 instants | `RefundsAreCovered`, `SettledOnce`, `MovedByTheRules`, `AskedOfEveryChange`, `SubscriptionsAreAccounted`, `OnePayoutAccount`, `SanctionedByTwo`, `LostIsTakenUp`, `RequestsAreSafe`, `OnlySilenceIsBlamed`, `LatestStartCounts` |
| `liveness` | 1 seat and 2 bookings; 1 electronic intent, 2 events, 2 workers; 2 passengers | `HoldsEnd`, `UnpaidSeatsComeBack`, `EventsAreHandled`, `NoShowsAreMarked` |

Each of the first four also checks a type invariant. Distinct states: `seat_booking`
437,200, `payments` 889,423, `trip_day` 1,693,577, `back_office` 349,811, `liveness` 142,533. In short:

* `NoDoubleSale`: a seat has one passenger, although a restoration never compares
  the seats it gives back with each other. `OneActiveHoldPerSeat`: two ACTIVE hold
  rows never share a seat, run out or not. `LiveBookingIsSeated`: whoever still
  travels has a seat. `GenderConflictOnlyByRestore`, `HoldBrokenOnlyByRestore`: the
  two rules that a restoration breaks are broken by nothing else.
* `UnservedMoneyHasACase`, `EveryUnservedPaymentHasACase`: money for people who do
  not travel is in a case. `LateMoneyNeverRevives`: only money from before the
  deadline revives a cancelled booking. `OneTransactionPerReference`, `PaidIsTheSum`:
  duplicates and stale lists count once. `NoPartialPayment`: PARTIALLY_PAID does not
  occur. `SuccessIsBacked`: a transfer or electronic intent is succeeded only with
  money behind it. `ExpiryTakesNoMoney`: the deadline job cancels no booking that has
  been paid anything, late or not.
* `OneActiveTicket`: after any reissue, return and change of vehicle one ticket opens
  the door. `BoardedUsedATicket`: whoever is aboard has used one, offline too.
  `CancelledStaysAshore`: a payment after a partial cancellation gives those who left
  tickets again, and still none of them boards. `FinalManifestStands`: after the departure
  nobody leaves the manifest without a correction, also on arrival and completion, unless
  the trip was interrupted with that booking; what happens then is in section 5.
  `NoShowBookingIsAbsent`, `DeniedIsNotNoShow`: the stale list of the job
  takes neither a boarded nor a denied passenger for absent. `AcceptedStaysAccepted`:
  a repeated offline event does not become a conflict.
* `RefundsAreCovered`: with failures, retries and chargebacks no more goes back than
  came in, and the ledger owes the approved refunds. `SettledOnce`: no overlap of
  periods and no appeal pays twice. `MovedByTheRules`: an old plan still gives everyone
  it moves an own seat within the rules. `AskedOfEveryChange`: every material change
  asks every booking again.
* `SubscriptionsAreAccounted`: an office owes its open invoices and has one live
  subscription; active means free or paid, past_due means unpaid. An office that is
  past_due still sells, as ADR 0018 has it. `SanctionedByTwo`: whatever commands save over
  it, an office is suspended or terminated only where two people decided just that.
  `RequestsAreSafe`: a scoped key has one effect that stands, through retries, crashes and
  restores, and a recovery that is declared keeps the platform closed until the data pass.
* `OnePayoutAccount`, `LostIsTakenUp`, `OnlySilenceIsBlamed`, `LatestStartCounts`: as
  their names say.

**Bounds.** Every conflict over a seat is between two bookings or between two
passengers of one: two of each, on two seats, have both. The clocks distinguish before,
at and after a deadline. Two versions make one quote, plan or package stale, the third
of `trip_day` makes a new package after that. Two events duplicate, contradict and
overtake; two workers are stale; price 2 tells the outstanding amount from a wrong one.
Two ticket versions have a reissue while one is used. Two attempts have a last one and
one before it. Three values of a configuration key have an approval on each side of
another. Constraints keep the instances small; they remove the successors of the states
that violate them, never a check on the states before:

* `Small` (`seat_booking`) joins two scopes. `PartyOfTwo`: two passengers of one gender
  against one, who takes no refund, without an update of the trip, and two units asked for
  or paid between them; two parties of two cannot both be seated anyway. `Neighbours`: two
  single passengers of any gender, and both trip versions; while only one has booked, of one
  gender, since what matters is whether the other's differs. Only the first pays by an intent; the second still
  holds, buys (in cash at the sale or on credit), moves, is replaced and cancels: what a
  restoration can run into.
* `Plausible` (`payments`): events for intents that are not electronic, which fail
  whatever they say, come in one form; so do mismatches late and in time; one event that
  fails so or raises is enough, without a transfer beside it.
* `Few` (`trip_day`): a change of the trip before boarding opens is not followed, nor a
  plan or a package after they can be used, nor a part payment together with a refund, a
  plan or a package.
* `Small` (`back_office`) is the conjunction of the following. `SmallSettlements`: one
  booking is disputed, and from then on only its own money moves;
  `SmallReallocation`: answers are not followed, one change of vehicle is, only the stranger
  boards, and of the smallest vehicle only the failed previews are followed;
  `SmallPlanning`: the second trip is a plain competitor for the bus and the driver, and one thing of the fleet changes at a time;
  `SmallRent`: one approved change, one plan whose price changes, no change after the
  second subscription;
  `SmallOffices`: the verification with one command under way and one sanction, or the
  money of the office;
  `SmallRequests`: dumps of a recovery and contradictory data, or all four requests.
* `Scope` (`liveness`): a trip until its departure, and of events that do not match only
  one form.

Symmetry is used only in safety runs, over seats (the adjacency of two seats is
symmetric), events and workers, which no formula tells apart. `CHECK_DEADLOCK FALSE` is
set because clocks, identifiers and the trip itself come to an end; the real system
takes up the next trip.

**Fairness.** `CELERY_BEAT_SCHEDULE` in `config/settings.py` (194-235) starts the hold and
deadline jobs, the webhook job, the outbox dispatcher and the no-show job every few
seconds or minutes. The models assume weak fairness of these jobs and of the clock,
nothing of customers, staff or the provider. It is enough because nothing disables a due
job but what makes it unnecessary; a run of the webhook job that ends on an error is
started again, on the same list, which is why `EventsAreHandled` excludes what is `Stuck`;
`NoShowsAreMarked` speaks of a trip that stays closed,
since an office that reopens boarding stops the job rightly.

## 4. Proofs

For any sets of seats, bookings, intents, events, passengers, devices, vehicles,
offices, requests, values, accounts and messages, and any lifetimes, prices and limits
that satisfy the assumptions named in the modules (`ConstantsAssumption`,
`PaymentsAssumption`, `TripDayAssumption`, `RefundsAssumption`,
`SettlementsAssumption`, `ReallocationAssumption`, `PlanningAssumption`,
`SubscriptionsAssumption`, `OfficesAssumption`, `OutboxAssumption`,
`ConfigurationAssumption`). They say that limits are positive, amounts are natural
numbers, the people of one booking and the periods of one office finitely many, and that
the values standing for nobody and nothing are not members of the sets. TLC evaluates
them in the runs.

| Module | Theorem | Result | Argument |
|---|---|---|---|
| `SeatBooking_proofs` | `TypeCorrect` | `[]TypeOK` | by action |
| | `SeatsSoldOnce` | `[]NoDoubleSale` | `SeatInv`, below |
| | `HeldOnce` | `[]OneActiveHoldPerSeat` | inductive: a hold retires the stale row first |
| | `TravellersAreSeated`, `NoMoneyIsForgotten` | `[]LiveBookingIsSeated`, `[]UnservedMoneyHasACase` | `BookingInv`, which holds both and adds that a booking not yet made has received nothing |
| | `LateMoneyIsLate`, `SeparationKept`, `HoldsKept` | `LateMoneyNeverRevives`, `GenderConflictOnlyByRestore`, `HoldBrokenOnlyByRestore` | one step from the invariants |
| | `BookingImplementsSale` | `ImplementsSeatSale` | refinement mapping `owner`; needs `SeatInv`, since with two owners of a seat `owner` would be arbitrary |
| `Payments_proofs` | `TypeCorrect` | `[]TypeOK` | `TypeInv` adds that a listed event was received, is about an intent that exists, and that such an intent asks for a positive amount |
| | `ReferencesAreUnique` | `[]OneTransactionPerReference` | `RefInv` adds that a transfer in the books is verified and that a sent transfer's intent accepts no other one: `verify_manual_payment` itself does not look for an earlier transaction |
| | `MoneyAddsUp` | `[]PaidIsTheSum` | `Counts`: a step adds at most one new succeeded row, and its amount to `paid`. That the row is new is `RefInv`; that the sum grows by it is `SumAdd` |
| | `NeverPartial` | `[]NoPartialPayment` | `MoneyInv` adds that every intent asks for at least the total; it needs the comparison of amounts in `process_payment_webhook` and that totals only fall |
| | `NoMoneyExpires` | `ExpiryTakesNoMoney` | by `MoneyInv` less than the total means nothing, late money included |
| | `UnservedMoneyIsReviewed`, `SuccessHasMoney` | `[]EveryUnservedPaymentHasACase`, `[]SuccessIsBacked` | inductive, over a summary of what a step does to rows and cases |
| `TripDay_proofs` | `TypeCorrect` | `[]TypeOK` | by action |
| | `TicketsAreUnique` | `[]OneActiveTicket` | `ActiveIsNewest`: an active version is the newest one, so every other is used or revoked; what a step may do to tickets is summarised in `TicketsMove` |
| | `BoardedHaveUsedTickets` | `[]BoardedUsedATicket` | `BoardedHasUsed` with the same summary, one passenger at a time (`PersonMove`) |
| | `CancelledDoNotBoard` | `[]CancelledStaysAshore` | inductive: a command resolves passengers who travel only, and a cancellation none who has boarded, whatever tickets payments have issued |
| | `FinalManifestHolds` | `[]FinalManifestStands` | inductive with `BoardedHasUsed`, by which a reversal finds a ticket and so uses its approval up, and `OnManifest`: who is on it travels and has boarded, on a trip that has departed, and while it is under way the booking is confirmed, so that an interruption finds it |
| | `NoShowBookingsAreAbsent` | `[]NoShowBookingIsAbsent` | inductive: no handler touches a passenger who is marked (`NoShowIsFinal`) |
| | `DeniedStaysDenied`, `AcceptedIsNoConflict` | `DeniedIsNotNoShow`, `AcceptedStaysAccepted` | one step |
| `Refunds_proofs` | `RefundsTypeCorrect`, `RefundsStayCovered` | `[]RefundsTypeOK`, `[]RefundsAreCovered` | `RefundsInv`, below |
| `Settlements_proofs` | `SettlementsTypeCorrect`, `NothingIsSettledTwice` | `[]SettlementsTypeOK`, `[]SettledOnce` | `SettlementsInv`, below |
| `Trips_proofs` | `ReallocationTypeCorrect` | `[]ReallocationTypeOK` | by action, from `PlanInv` |
| | `ChangesFollowTheRules` | `MovedByTheRules` | `PlanInv`: a previewed plan is one of the `Solutions`, and everyone in it is seated unless it is broken |
| | `PlanningTypeCorrect` | `[]PlanningTypeOK` | `PlanningInv` adds that only drafts are checked, and the bound of a version |
| | `NobodyIsLeftUnasked` | `AskedOfEveryChange` | one step: only `UpdateTrip` changes price or departure, by at least `Material` it is material, whatever was asked before |
| `BackOffice_proofs` | `OfficesAreAccounted` | `[]SubscriptionsAreAccounted` and the types | `AccountsInv`: the rows of each office have one live one, the status of each is that of its invoice, and the office owes their sum. An action edits one row, appends one, or cancels the live ones and appends; `ProcessDue` closes many offices' rows at once |
| | `OfficesTypeCorrect` | `[]OfficesTypeOK` | by action |
| | `OneAccountIsPaid` | `[]OnePayoutAccount` | `PayoutInv`: a verified account already carries an approver who is not its creator |
| | `SanctionsAreShared` | `[]SanctionedByTwo` | `SanctionInv` adds that a command which remembers a sanctioned status read it when two people had decided it: a stale save brings back no suspension that nobody decided |
| | `OutboxTypeCorrect` | `[]OutboxTypeOK` | an attempt is added only after the last one, and not after the last allowed |
| | `LostMessagesAreTakenUp` | `[]LostIsTakenUp` | `TakenInv`: an attempt that is not the last may fail again, which leaves the last as it is, and the last fails for good only together with its escalation |
| | `RequestTypeCorrect`, `RequestsSafe` | `[]RequestPathTypeOK`, `[]RequestsAreSafe` | `OneOwner`: for a scoped key there is one transaction under way or one record, never both; `OneInDump`: nor does a dump hold two; `AnsweredFromRecord`: who is done was given the response of a record of its key and body, or of one a restore took back; `ModeInv`: while a declared recovery stands, normal mode requires no reconciliation, and none is required only of data without conflicts |
| | `SettingsTypeCorrect`, `LatestStartIsInForce` | `[]ConfigurationTypeOK`, `[]LatestStartCounts` | `WindowInv`: an approved value ends, if it does, exactly where another approved one starts, whatever approvals under way have found |
| | `SupportTypeCorrect`, `SilenceIsBlamed` | `[]SupportTypeOK`, `OnlySilenceIsBlamed` | one step: `Escalate` asks again after the lock |
| | `BackOfficeTypeCorrect`, `BackOfficeIsSafe` | `[]TypeOK`, and the safety of all ten components | the composition implements each component |

`NoDoubleSale` is not inductive. A restoration makes all assignments of a booking
active again after comparing them only with those of other bookings, so one must
know that the booking's own seats are distinct. They are, by the sale, as long as
nobody was moved (`SeatsAreDistinct`), and `_try_restore_inventory` refuses once
somebody was; and a passenger who does not exist must have no assignment
(`OnlyPassengersAreSeated`). `SeatInv` is the conjunction.

`RefundsAreCovered` is not inductive either. That the available amount is not exceeded is
checked when a refund is approved, but a failed refund counts as free meanwhile and is
processed again without a check. What makes it safe is that a passenger is cancelled once
and asks at most for what that passenger paid: `AskedWithinPaid` says that all that was
asked for and what those who still travel have paid do not overlap in `paid`, and
`ApprovedWithinAsked` that an approval only lowers it. `RefundsInv` has these two, the
sums behind `refunded` and `refund_payable` (`RefundedIsTheSum`, `OwesThem`), and what was
received before the payment and after the recognition of the service.

`SettledOnce` has three parts. For `PaidIsSettled`: a booking is an item of one settlement
(`ItemsAreOfOne`), which is open or over, and its commission says which
(`ItemsAreSettled`). For `OwedOnce`, that a payout never overdraws the account of the
office: `ClaimsAreCovered`, there is a claim for each booking, at least what it has earned
or what an open settlement holds for it, and the sums of the claims on electronic and on
cash bookings are covered by `payable` and `receivable`. A refund or a decision after the
calculation lowers what the booking earns but not its item, so the claims are a witness
that each step adjusts and no function of the state. For `LastDecisionCounts`:
`EffectsSoFar` says by the status of the dispute which decisions have been posted.

Sums over sets are folds by a recursive function whose order is a CHOOSE. `Sums` proves
from the definitions of the community modules that the function exists, that the order
does not matter, and what adding, removing or changing one element does. The
library's induction theorems take an operator and cannot be used; instead `SmallestExists`
takes, of the sets for which a fact fails, one of the least cardinality. The newest
version of a ticket is a CHOOSE over a set of numbers: `NewestExists` proves from the
well-foundedness of `<` that it is there.

Proofs that failed have corrected the models:

* the last decision of a dispute was a CASE with overlapping guards, which has a value but
  not one the prover, or a reader, can tell; it is `LastDecision` now, and two more CASEs of
  the cancellation in `Refunds` and `TripDay` became IFs;
* `AskedOfEveryChange` was false for a `Material` of 0, where a departure that does not
  change is a change, and meaningless for slots that are no numbers: both are assumptions now;
* the type of `reading` in `Offices` let somebody without a command remember any status,
  which no step leaves behind: it is a command with the status it read, or `NoCommand`.

Checked by TLC only: the liveness properties `HoldsEnd`, `UnpaidSeatsComeBack`,
`EventsAreHandled` and `NoShowsAreMarked`, and the runs that are expected to find a
violation. Fairness and ENABLED are out of the prover's reach.

## 5. Where code and documents disagree

Runs that are expected to find a violation; each checks one property taken from a
document of the repository. `PROJECT.json` quotes the lines.

| Run | What happens |
|---|---|
| `paid_but_unconfirmed` | after a cancellation and a seat change, paying the rest in full and in time does not confirm the booking |
| `overpayment` | cash and a bank transfer both succeed: paid twice, and no refund or case is opened |
| `final_manifest` | a trip departs and is interrupted: a boarding is reversed without a correction, and the FINAL manifest lists somebody who is not aboard |
| `double_seat` | somebody books between the preview and the application of a reallocation, and keeps a seat whose code the plan gives to another |
| `refunds_left_behind` | a second cancellation without a refund cancels the booking while the refund of the first is open |
| `suspension_overlooked` | a reviewer's command read the office before two people suspended it, and saves it afterwards: the office sells again |
| `event_never_dispatched` | an event without a template takes back every run of the dispatcher, and the events beside it are never published |

Some behaviours that look wrong are modelled as they are and not listed, because no
document states what should happen: two trips scheduled at once on one vehicle, a cash
intent that succeeds on a used receipt, seats that stay those of the old layout, a
provider event whose error stops the queue behind it, tickets for cancelled passengers.

Two more were found by reading and have no run. A recovery that is declared before the
dump is restored is forgotten with the row that says so; E18-AC03
(`docs/TRACEABILITY_G17.md:7`) and ADR 0019 ask for a reconciliation before reopening and
do not say which comes first, so that `DeclaredIsReconciled` speaks of recoveries declared
afterwards. And the staff limit of a plan counts active members only, while
`update_staff` (organizations/services.py:288) makes a suspended member active without
looking at it; ADR 0018:26 and `docs/TRACEABILITY_G16.md:16` speak of a guard before
creation.

## 6. Not modelled

* **Identity and security operations**: sign-in, MFA, audit exports, retention. Each is a
  short sequential protocol over its own rows, outside of the booking.
* **Staff and invitations**: one membership row each; what a member may do is
  authorisation, which no model has, and the limits of a plan count rows that no other
  model reads.
* **Web interface**: a client; it holds no state that the server trusts.
* **Audit log, reports, statements, backup records**: written or read, never used to decide.
* **Legal documents**: versions and their acceptance; a booking keeps a snapshot, constant here.
* **Office applications, branches, locations, routes**: forms and reference data.
* **Public search**: filters and serialisation only read; the quote and the
  availability are in `SeatBooking`.
* **Lock orders**: a transaction is atomic, so a deadlock of two opposite orders is not
  visible. PostgreSQL aborts one of them and the jobs run again.
* In all modules: authorisation, rate limits, tokens, wording, audit entries, currency,
  prices beyond what the properties tell apart, the cryptography of QR codes and packages,
  and the replay of idempotent requests outside `RequestPath` (a replay changes nothing).
* Of several seat distributions, which one the solver prefers; of several delays, their
  estimated times.

## 7. What remains

Lock orders as a model of their own, with one step per lock; the acceptance of legal
documents against a version that is published meanwhile; branches and applications of
offices. Among the proofs, abstract specifications of `Payments`, `Refunds` and
`Settlements` (an account that money enters once and leaves at most once) in the
way `SeatSale` is one of `SeatBooking`.
