------------------------------ MODULE Payments ------------------------------
(***************************************************************************)
(* The money of one booking: payments/services.py.  Several intents of the *)
(* three methods, bank transfers that the office verifies or rejects, cash *)
(* receipts, the inbox of provider events with its workers, and the        *)
(* transactions and reconciliation cases they leave.  SeatBooking has the  *)
(* seats in detail; here they are one flag, `seated`, and the answer of    *)
(* _try_restore_inventory is an input.                                     *)
(*                                                                         *)
(* A handler is one transaction that locks the booking, hence one action;  *)
(* a worker of the webhook job lists the deliveries first and then takes   *)
(* one transaction for each, in the order of receipt, so that two workers  *)
(* interleave.  A passenger costs one unit: total is the number of         *)
(* passengers not cancelled.                                               *)
(***************************************************************************)
EXTENDS Integers, FiniteSets, Functions

CONSTANTS Electronic, Manual, Cash,  \* PaymentIntent identifiers, by method
          Events,    \* event identifiers of the provider
          Receipts,  \* receipt numbers of the office
          Workers,   \* processes of the webhook job
          Other,     \* an intent of another booking of the office
          Price      \* total_amount at the sale

Intents == Electronic \cup Manual \cup Cash
References == Events \cup Receipts \cup Manual

ASSUME PaymentsAssumption ==
    /\ Price \in Nat \ {0}
    /\ Other \notin Intents
    /\ Electronic \cap Manual = {} /\ Electronic \cap Cash = {} /\ Manual \cap Cash = {}
    /\ Events \cap Receipts = {} /\ Events \cap Manual = {} /\ Receipts \cap Manual = {}

VARIABLES
    overdue,    \* payment_deadline_at has passed
    status,     \* Booking.status
    payStatus,  \* Booking.payment_status
    total,      \* Booking.total_amount
    paid,       \* Booking.paid_amount
    seated,     \* every passenger has an ACTIVE assignment
    intent,     \* PaymentIntent.status; "none" before it exists
    amount,     \* PaymentIntent.amount
    transfer,   \* ManualPaymentSubmission.status of a manual intent
    sentInTime, \* its transferred_at is not after the deadline
    delivery,   \* WebhookDelivery.status
    event,      \* its normalized payload
    ahead,      \* pairs of deliveries, in the order of received_at
    batch,      \* deliveries a worker has listed and not yet processed
    txs,        \* PaymentTransaction rows
    cases       \* open PaymentReconciliationCase rows

bookingVars == <<status, payStatus, total, paid, seated>>
inboxVars == <<delivery, event, ahead, batch>>
transferVars == <<transfer, sentInTime>>
vars == <<overdue, status, payStatus, total, paid, seated, intent, amount, transfer,
          sentInTime, delivery, event, ahead, batch, txs, cases>>

-----------------------------------------------------------------------------
(* Types *)

BookingStatus == {"awaiting_payment", "confirmed", "cancellation_pending", "cancelled"}
PayStatus == {"unpaid", "pending_verification", "partially_paid", "paid"}
IntentStatus == {"none", "created", "requires_action", "pending_verification",
                 "succeeded", "failed", "expired"}
Reasons == {"after_deadline", "inventory_unavailable", "mismatch"}
(* Amount 0 stands for any that is not positive; refTaken says that the    *)
(* event's provider_reference is already that of another booking's intent. *)
Payload == [intent : Intents, amount : 0 .. Price, inTime : BOOLEAN, refTaken : BOOLEAN]
NoPayload == [intent |-> Other]
Transaction == [ref : References, intent : Intents \cup {Other}, ok : BOOLEAN,
                amount : 1 .. Price, inTime : BOOLEAN]

TypeOK ==
    /\ overdue \in BOOLEAN
    /\ status \in BookingStatus
    /\ payStatus \in PayStatus
    /\ total \in 0 .. Price
    /\ paid \in Nat
    /\ seated \in BOOLEAN
    /\ intent \in [Intents -> IntentStatus]
    /\ amount \in [Intents -> 0 .. Price]
    /\ transfer \in [Manual -> {"none", "submitted", "verified", "rejected"}]
    /\ sentInTime \in [Manual -> BOOLEAN]
    /\ delivery \in [Events -> {"none", "received", "processed", "failed"}]
    /\ event \in [Events -> Payload \cup {NoPayload}]
    /\ ahead \subseteq Events \X Events
    /\ batch \in [Workers -> SUBSET Events]
    /\ txs \subseteq Transaction
    /\ cases \subseteq Intents \X Reasons

-----------------------------------------------------------------------------
(* Helpers.  Operators marked "wrong on purpose" are faulty versions of    *)
(* the operator that follows them, for the properties to detect.           *)

Outstanding == total - paid
NotYetPaid == payStatus # "paid" \* wrong on purpose
(* Guards of both ways to create an intent; the database refuses an amount *)
(* that is not positive.                                                   *)
Payable == payStatus # "paid" /\ Outstanding > 0
Succeeded == {t \in txs : t.ok /\ t.intent # Other}

NeverRecorded(ref) == FALSE \* wrong on purpose
(* _create_transaction_once and the first check of process_payment_webhook *)
(* find the reference among the transactions of any booking.               *)
Recorded(ref) == \E t \in txs : t.ref = ref

Row(ref, i, a, inTime, ok) ==
    [ref |-> ref, intent |-> i, amount |-> a, inTime |-> inTime, ok |-> ok]

CaseWhenLate(i, inTime, confirmed) == \* wrong on purpose
    IF confirmed \/ inTime THEN {} ELSE {<<i, "after_deadline">>}
(* The case a payment opens that does not confirm.                         *)
CaseFor(i, inTime, confirmed) ==
    IF confirmed THEN {}
    ELSE {<<i, IF inTime THEN "inventory_unavailable" ELSE "after_deadline">>}

Overwritten(a) == a \* wrong on purpose
(* paid_amount once a payment of a has come in.                            *)
Applied(a) == paid + a

(* _complete_booking_after_payment: a new transaction of amount a for      *)
(* intent i; back is what _try_restore_inventory would answer.             *)
Complete(ref, i, a, inTime, back) ==
    LET seatedNow == seated \/ (inTime /\ back)
        covered   == Applied(a) >= total
        confirmed == covered /\ inTime /\ seatedNow
    IN  /\ txs' = txs \cup {Row(ref, i, a, inTime, TRUE)}
        /\ paid' = Applied(a)
        /\ payStatus' = IF covered THEN "paid" ELSE "partially_paid"
        /\ seated' = seatedNow
        /\ status' = IF confirmed THEN "confirmed" ELSE status
        /\ cases' = cases \cup CaseFor(i, inTime, confirmed)

-----------------------------------------------------------------------------
(* The customer and the office *)

(* create_public_payment_intent *)
CreateIntent(i) ==
    /\ intent[i] = "none"
    /\ Payable
    /\ intent' = [intent EXCEPT ![i] =
                     IF i \in Electronic THEN "requires_action" ELSE "created"]
    /\ amount' = [amount EXCEPT ![i] = Outstanding]
    /\ UNCHANGED <<overdue, bookingVars, transferVars, inboxVars, txs, cases>>

(* submit_manual_transfer: the payment status follows the newest transfer, *)
(* whatever was paid before.                                               *)
SubmitTransfer(i, inTime) ==
    /\ intent[i] \in {"created", "requires_action"}
    /\ inTime \/ overdue
    /\ transfer' = [transfer EXCEPT ![i] = "submitted"]
    /\ sentInTime' = [sentInTime EXCEPT ![i] = inTime]
    /\ intent' = [intent EXCEPT ![i] = "pending_verification"]
    /\ payStatus' = "pending_verification"
    /\ UNCHANGED <<overdue, status, total, paid, seated, amount, inboxVars, txs, cases>>

(* verify_manual_payment, decision "reject" *)
RejectTransfer(i) ==
    /\ transfer[i] = "submitted"
    /\ transfer' = [transfer EXCEPT ![i] = "rejected"]
    /\ intent' = [intent EXCEPT ![i] = "failed"]
    /\ payStatus' = "unpaid"
    /\ UNCHANGED <<overdue, status, total, paid, seated, amount, sentInTime, inboxVars,
                   txs, cases>>

(* verify_manual_payment, decision "verify": the money counts from the     *)
(* time of the transfer.                                                   *)
VerifyTransfer(i, back) ==
    /\ transfer[i] = "submitted"
    /\ Complete(i, i, amount[i], sentInTime[i], back)
    /\ transfer' = [transfer EXCEPT ![i] = "verified"]
    /\ intent' = [intent EXCEPT ![i] = "succeeded"]
    /\ UNCHANGED <<overdue, total, amount, sentInTime, inboxVars>>

(* record_office_cash_payment creates its own intent and marks it          *)
(* succeeded, also when the receipt is already in the books and nothing is *)
(* counted.                                                                *)
RecordOfficeCash(i, r, inTime, back) ==
    /\ intent[i] = "none"
    /\ Payable
    /\ inTime \/ overdue
    /\ intent' = [intent EXCEPT ![i] = "succeeded"]
    /\ amount' = [amount EXCEPT ![i] = Outstanding]
    /\ IF Recorded(r)
       THEN UNCHANGED <<status, payStatus, paid, seated, txs, cases>>
       ELSE Complete(r, i, Outstanding, inTime, back)
    /\ UNCHANGED <<overdue, total, transferVars, inboxVars>>

(* cancel_public_booking: n passengers leave, the total falls with them;   *)
(* with the last one the booking ends, at once or after its refund.        *)
CancelPassengers(n, refund) ==
    /\ status \in {"awaiting_payment", "confirmed"}
    /\ n \in 1 .. total
    /\ refund => paid > 0
    /\ total' = total - n
    /\ seated' = FALSE
    /\ status' = IF n < total THEN status
                 ELSE IF refund THEN "cancellation_pending" ELSE "cancelled"
    /\ UNCHANGED <<overdue, payStatus, paid, intent, amount, transferVars, inboxVars,
                   txs, cases>>

-----------------------------------------------------------------------------
(* Provider events *)

(* receive_payment_webhook of a new event; a redelivery changes nothing.   *)
(* The provider may report any amount, which nothing checks here, late or  *)
(* twice under two identifiers.                                            *)
ReceiveEvent(e, i, a, inTime, refTaken) ==
    /\ delivery[e] = "none"
    /\ intent[i] # "none"
    /\ inTime \/ overdue
    /\ delivery' = [delivery EXCEPT ![e] = "received"]
    /\ event' = [event EXCEPT ![e] =
                    [intent |-> i, amount |-> a, inTime |-> inTime, refTaken |-> refTaken]]
    /\ ahead' = ahead \cup ({d \in Events : delivery[d] # "none"} \X {e})
    /\ UNCHANGED <<overdue, bookingVars, intent, amount, transferVars, batch, txs, cases>>

ListedWhileOpen == {e \in Events : delivery[e] = "received" /\ intent[event[e].intent] # "expired"} \* wrong on purpose
Listed == {e \in Events : delivery[e] = "received"}

(* process_received_webhook_deliveries reads the queue without a lock.     *)
ListDeliveries(w) ==
    /\ batch[w] = {}
    /\ Listed # {}
    /\ batch' = [batch EXCEPT ![w] = Listed]
    /\ UNCHANGED <<overdue, bookingVars, intent, amount, transferVars, delivery, event,
                   ahead, txs, cases>>

AnyAmountMatches(e) == TRUE \* wrong on purpose
Matches(e) == event[e].amount = amount[event[e].intent]

AfterMismatchSucceeded(e) == "succeeded" \* wrong on purpose
(* Status of the intent once the event is processed.                       *)
IntentAfter(e) == IF Matches(e) THEN "succeeded" ELSE "pending_verification"

(* process_payment_webhook of a valid event: one that does not match the   *)
(* intent is recorded as a failed transaction and reviewed.                *)
Apply(e, back) ==
    LET i == event[e].intent IN
    /\ intent' = [intent EXCEPT ![i] = IntentAfter(e)]
    /\ IF Matches(e)
       THEN Complete(e, i, event[e].amount, event[e].inTime, back)
       ELSE /\ txs' = txs \cup {Row(e, i, event[e].amount, event[e].inTime, FALSE)}
            /\ cases' = cases \cup {<<i, "mismatch">>}
            /\ UNCHANGED <<status, payStatus, paid, seated>>

(* The database refuses the failed row of an amount that is not positive   *)
(* (ck_payment_tx_amount), and an intent with the provider_reference of    *)
(* another (uq_payment_provider_reference); nobody catches these errors.   *)
Raises(e) ==
    /\ event[e].intent \in Electronic
    /\ IF Matches(e) THEN event[e].refTaken ELSE event[e].amount = 0

(* process_webhook_delivery of the worker's next delivery: an event that   *)
(* another worker has processed meanwhile changes nothing, one of an       *)
(* intent that is not electronic fails, and one that raises is rolled      *)
(* back, stays received and takes the rest of the worker's list with it.   *)
ProcessDelivery(w, e, back) ==
    /\ e \in batch[w]
    /\ \A d \in batch[w] : <<d, e>> \notin ahead
    /\ \/ /\ delivery[e] = "processed" \/ Recorded(e)
          /\ delivery' = [delivery EXCEPT ![e] = "processed"]
          /\ batch' = [batch EXCEPT ![w] = @ \ {e}]
          /\ UNCHANGED <<status, payStatus, paid, seated, intent, txs, cases>>
       \/ /\ delivery[e] # "processed" /\ ~Recorded(e)
          /\ event[e].intent \notin Electronic
          /\ delivery' = [delivery EXCEPT ![e] = "failed"]
          /\ batch' = [batch EXCEPT ![w] = @ \ {e}]
          /\ UNCHANGED <<status, payStatus, paid, seated, intent, txs, cases>>
       \/ /\ delivery[e] # "processed" /\ ~Recorded(e)
          /\ Raises(e)
          /\ batch' = [batch EXCEPT ![w] = {}]
          /\ UNCHANGED <<status, payStatus, paid, seated, intent, delivery, txs, cases>>
       \/ /\ delivery[e] # "processed" /\ ~Recorded(e)
          /\ event[e].intent \in Electronic /\ ~Raises(e)
          /\ delivery' = [delivery EXCEPT ![e] = "processed"]
          /\ batch' = [batch EXCEPT ![w] = @ \ {e}]
          /\ Apply(e, back)
    /\ UNCHANGED <<overdue, total, amount, transferVars, event, ahead>>

-----------------------------------------------------------------------------
(* The deadline *)

DeadlinePasses ==
    /\ ~overdue
    /\ overdue' = TRUE
    /\ UNCHANGED <<bookingVars, intent, amount, transferVars, inboxVars, txs, cases>>

ExpirableThoughPaid == \* wrong on purpose
    status = "awaiting_payment" /\ overdue /\ ~\E t \in Succeeded : t.inTime
Expirable ==
    /\ status = "awaiting_payment"
    /\ overdue
    /\ paid < total
    /\ ~\E t \in Succeeded : t.inTime

(* expire_due_unpaid_bookings: transfers under verification stay as they   *)
(* are, and so do events on their way.                                     *)
ExpireUnpaidBooking ==
    /\ Expirable
    /\ status' = "cancelled"
    /\ seated' = FALSE
    /\ intent' = [i \in Intents |->
                     IF intent[i] \in {"created", "requires_action"} THEN "expired" ELSE intent[i]]
    /\ UNCHANGED <<overdue, payStatus, total, paid, amount, transferVars, inboxVars, txs, cases>>

-----------------------------------------------------------------------------

(* A booking just sold, seated and unpaid, of an office that has used some *)
(* receipts for other bookings.  Office cash confirms at the sale.         *)
Init ==
    /\ overdue = FALSE
    /\ status \in {"awaiting_payment", "confirmed"}
    /\ payStatus = "unpaid"
    /\ total = Price
    /\ paid = 0
    /\ seated = TRUE
    /\ intent = [i \in Intents |-> "none"]
    /\ amount = [i \in Intents |-> 0]
    /\ transfer = [i \in Manual |-> "none"]
    /\ sentInTime = [i \in Manual |-> FALSE]
    /\ delivery = [e \in Events |-> "none"]
    /\ event = [e \in Events |-> NoPayload]
    /\ ahead = {}
    /\ batch = [w \in Workers |-> {}]
    /\ \E used \in SUBSET Receipts : txs = {Row(r, Other, 1, TRUE, TRUE) : r \in used}
    /\ cases = {}

Customer ==
    \/ \E i \in Intents : CreateIntent(i)
    \/ \E i \in Manual, inTime \in BOOLEAN : SubmitTransfer(i, inTime)
    \/ \E n \in 1 .. Price, refund \in BOOLEAN : CancelPassengers(n, refund)

Office ==
    \/ \E i \in Manual : RejectTransfer(i)
    \/ \E i \in Manual, back \in BOOLEAN : VerifyTransfer(i, back)
    \/ \E i \in Cash, r \in Receipts, inTime, back \in BOOLEAN : RecordOfficeCash(i, r, inTime, back)

Provider == \E e \in Events, i \in Intents, a \in 0 .. Price, inTime, refTaken \in BOOLEAN :
                ReceiveEvent(e, i, a, inTime, refTaken)

Job(w) ==
    \/ ListDeliveries(w)
    \/ \E e \in Events, back \in BOOLEAN : ProcessDelivery(w, e, back)

Next ==
    \/ Customer \/ Office \/ Provider
    \/ \E w \in Workers : Job(w)
    \/ DeadlinePasses
    \/ ExpireUnpaidBooking

Spec == Init /\ [][Next]_vars

(* Celery beat starts the webhook job every 5 seconds.                     *)
FairSpec == Spec /\ \A w \in Workers : WF_vars(Job(w))

-----------------------------------------------------------------------------
(* What the code must never do *)

(* A transfer, receipt or provider event is entered once, however often it *)
(* is sent, listed and processed.                                          *)
OneTransactionPerReference ==
    \A t, u \in txs : t.ref = u.ref => t = u

(* The booking's paid amount is exactly the money of its succeeded         *)
(* transactions: nothing is counted twice, and nothing that failed.        *)
PaidIsTheSum == paid = SumFunction([t \in Succeeded |-> t.amount])

(* Money never covers a part of a booking only: every intent asks for the  *)
(* whole outstanding amount and the total only falls, so that, whichever   *)
(* intents succeed and in whatever order, PARTIALLY_PAID does not occur.   *)
NoPartialPayment == (paid = 0 \/ paid >= total) /\ payStatus # "partially_paid"

(* Each payment of a booking that was never served (it still waits, or was *)
(* cancelled with its passengers wanting to travel) is in a case of the    *)
(* intent it belongs to.                                                   *)
EveryUnservedPaymentHasACase ==
    status \in {"awaiting_payment", "cancelled"} /\ total > 0 =>
        \A t \in Succeeded : \E reason \in Reasons \ {"mismatch"} : <<t.intent, reason>> \in cases

(* A transfer or an electronic intent is succeeded only with money behind  *)
(* it, although events come in any order and may contradict each other.    *)
SuccessIsBacked ==
    \A i \in Electronic \cup Manual : intent[i] = "succeeded" =>
        \E t \in Succeeded : t.intent = i

(* The deadline job never cancels a booking that has received money, late  *)
(* or not.                                                                 *)
ExpiryTakesNoMoney ==
    [][status = "awaiting_payment" /\ status' = "cancelled" /\ total' > 0 => paid = 0]_vars

(* e stays received for good: it raises itself, or one received before it  *)
(* does, with which every run ends before e.                               *)
Stuck(e) == \E d \in Events : /\ d = e \/ <<d, e>> \in ahead
                              /\ delivery[d] = "received" /\ Raises(d)

(* An event the platform has acknowledged is processed in the end unless   *)
(* an error of the database stops it or one ahead of it: workers that list *)
(* and end in any order, expiries and failed events lose no other.         *)
EventsAreHandled ==
    \A e \in Events : delivery[e] = "received" ~> delivery[e] # "received" \/ Stuck(e)

-----------------------------------------------------------------------------
(* What the documents say, and the code does not keep *)

(* Two different payments that both arrive: the second is recorded as an   *)
(* overpayment and a refund is opened.                                     *)
OverpaymentHasACase ==
    \A t, u \in Succeeded : t # u => cases # {}
=============================================================================
