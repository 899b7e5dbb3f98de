------------------------------ MODULE Refunds ------------------------------
(***************************************************************************)
(* The money of one booking after it was paid: cancellation of passengers  *)
(* and the refunds it requests (bookings/change_services.py), the refund   *)
(* commands and the chargebacks that stand in their way (payments/         *)
(* refund_services.py), the commission, and the ledger entries of payment, *)
(* refund and recognition (finance/services.py).  Payments has how the     *)
(* money arrives; here it arrives once and in full.                        *)
(***************************************************************************)
EXTENDS Integers, FiniteSets, Functions

CONSTANTS Travellers, \* the passengers of the booking
          Fare,       \* the price of a seat; no discount and no fee
          Percents    \* what the cancellation policy returns, by time to departure

(* _refund_percent keeps what the policy says between 0 and 100.           *)
ASSUME RefundsAssumption ==
    IsFiniteSet(Travellers) /\ Fare \in Nat \ {0} /\ Percents \subseteq 0 .. 100

VARIABLES
    ride,      \* "ahead", "completed" or "cancelled"
    stage,     \* Booking.status
    active,    \* passengers whose status is ACTIVE
    total,     \* Booking.total_amount
    paid,      \* Booking.paid_amount
    refunded,  \* Booking.refunded_amount
    paidBy,    \* method of the successful intent
    refund,    \* the refund of each passenger
    contested, \* amount of the open chargeback; 0 without one
    fee,       \* Commission: status and amount
    account    \* balance of each ledger account, debits positive

rVars == <<ride, stage, active, total, paid, refunded, paidBy, refund, contested, fee, account>>

-----------------------------------------------------------------------------
Stage == {"awaiting_payment", "confirmed", "cancellation_pending", "cancelled", "completed"}
RefundStatus == {"none", "requested", "under_review", "approved", "processing", "succeeded",
                 "failed", "rejected", "cancelled"}
OpenRefund == {"requested", "under_review", "approved", "processing"}
FeeStatus == {"expected", "adjusted", "reversed", "earned"}
Accounts == {"psp", "custody", "platform_funds", "office_funds", "refund_payable",
             "office_payable", "commission_receivable", "revenue"}
NoRefund == [st |-> "none", asked |-> 0, approved |-> 0]

RefundsTypeOK ==
    /\ ride \in {"ahead", "completed", "cancelled"} /\ stage \in Stage
    /\ active \subseteq Travellers
    /\ total \in Nat /\ paid \in Nat /\ refunded \in Nat /\ contested \in Nat
    /\ paidBy \in {"none", "electronic", "direct"}
    /\ refund \in [Travellers -> [st : RefundStatus, asked : Nat, approved : Nat]]
    /\ fee \in [st : FeeStatus, amount : Nat]
    /\ account \in [Accounts -> Int]

-----------------------------------------------------------------------------
(* Operators marked "wrong on purpose" are faulty versions of the operator *)
(* that follows them, for the properties to detect.                        *)

Least(a, b) == IF a <= b THEN a ELSE b
AtLeastZero(a) == IF a < 0 THEN 0 ELSE a
In(sts) == {p \in Travellers : refund[p].st \in sts}
Asked(ps) == SumFunction([p \in ps |-> refund[p].asked])
Approved(ps) == SumFunction([p \in ps |-> refund[p].approved])

(* A ledger entry: the amount moves from the credited to the debited.      *)
Post(acc, debit, credit, x) == [acc EXCEPT ![debit] = @ + x, ![credit] = @ - x]
CustomerFunds == IF paidBy = "electronic" THEN "platform_funds" ELSE "office_funds"
Till(method) == IF method = "electronic" THEN "psp" ELSE "custody"

Commission(amount) == amount \div 2
(* adjust_commission_after_booking_change *)
AdjustedFee(amount) == [st |-> IF amount = 0 THEN "reversed" ELSE "adjusted", amount |-> Commission(amount)]

Worth(ps) == Fare * Cardinality(ps)
(* Money of the booking that no refund has spoken for; not a failed one.   *)
Unspoken(except) == AtLeastZero(paid - Asked(In(OpenRefund \cup {"succeeded"}) \ except))

(* _quote_payload: what the policy returns, at most their share of the     *)
(* money.                                                                  *)
WholeShare(ps, percent) == (Unspoken({}) * Worth(ps)) \div total \* wrong on purpose
QuoteOf(ps, percent) ==
    Least((Worth(ps) * percent) \div 100, (Unspoken({}) * Worth(ps)) \div total)

(* _available_refund_amount *)
Available(p) == AtLeastZero(paid - Asked(In(OpenRefund \cup {"succeeded"}) \ {p}) - contested)

-----------------------------------------------------------------------------
(* The booking *)

Pay(method) ==
    /\ stage = "awaiting_payment"
    /\ stage' = "confirmed"
    /\ paid' = total /\ paidBy' = method
    /\ account' = Post(account, Till(method), IF method = "electronic" THEN "platform_funds"
                                              ELSE "office_funds", total)
    /\ UNCHANGED <<ride, active, total, refunded, refund, contested, fee>>

(* cancel_public_booking; the seats and tickets are in SeatBooking and     *)
(* TripDay.                                                                *)
Cancel(ps, percent) ==
    LET share == QuoteOf(ps, percent) \div Cardinality(ps)
        left == total - Worth(ps)
    IN  /\ ride = "ahead" /\ stage \in {"confirmed", "awaiting_payment"}
        /\ ps # {} /\ ps \subseteq active
        /\ active' = active \ ps
        /\ refund' = [p \in Travellers |->
               IF p \in ps /\ share > 0
               THEN [st |-> "requested", asked |-> share, approved |-> 0] ELSE refund[p]]
        /\ total' = left
        /\ stage' = IF ps # active THEN stage
                    ELSE IF share > 0 THEN "cancellation_pending" ELSE "cancelled"
        /\ fee' = AdjustedFee(left)
        /\ UNCHANGED <<ride, paid, refunded, paidBy, contested, account>>

(* command_trip: cancel *)
CancelRide ==
    /\ ride = "ahead" /\ ride' = "cancelled"
    /\ stage' = IF stage \in {"confirmed", "awaiting_payment"} THEN "cancellation_pending" ELSE stage
    /\ UNCHANGED <<active, total, paid, refunded, paidBy, refund, contested, fee, account>>

(* recognize_booking_service: what is not refunded by now is earned.       *)
Recognised ==
    LET gross == AtLeastZero(paid - refunded)
        due == Least(fee.amount, gross)
    IN  IF paidBy = "electronic"
        THEN Post(Post(account, "platform_funds", "office_payable", gross - due),
                  "platform_funds", "revenue", due)
        ELSE Post(Post(account, "office_funds", "custody", gross),
                  "commission_receivable", "revenue", due)

(* command_trip: complete, with recognize_trip_financials.                 *)
CompleteRide ==
    /\ ride = "ahead" /\ ride' = "completed"
    /\ stage # "cancellation_pending"
    /\ IF stage = "confirmed" /\ refunded < paid
       THEN /\ stage' = "completed" /\ fee' = [fee EXCEPT !.st = "earned"]
            /\ account' = Recognised
       ELSE UNCHANGED <<stage, fee, account>>
    /\ UNCHANGED <<active, total, paid, refunded, paidBy, refund, contested>>

-----------------------------------------------------------------------------
(* command_refund.  Customers request refunds, so the approver always      *)
(* differs from the requester.                                             *)

Move(p, from, to) ==
    /\ refund[p].st = from
    /\ refund' = [refund EXCEPT ![p].st = to]

Keep == UNCHANGED <<ride, stage, active, total, paid, refunded, paidBy, contested, fee, account>>

Review(p) == Move(p, "requested", "under_review") /\ Keep
Reject(p) == Move(p, "under_review", "rejected") /\ Keep
Withdraw(p) == Move(p, "requested", "cancelled") /\ Keep
Process(p) == Move(p, "approved", "processing") /\ Keep
Fail(p) == Move(p, "processing", "failed") /\ Keep
Retry(p) == Move(p, "failed", "processing") /\ Keep

ApprovedIs(r, x) == [r EXCEPT !.st = "approved", !.approved = x]

(* post_refund_approved_entry goes to the funds of the office whatever the *)
(* method was.                                                             *)
Approve(p, x) ==
    /\ refund[p].st = "under_review"
    /\ contested = 0
    /\ x \in 1 .. Least(refund[p].asked, Available(p))
    /\ refund' = [refund EXCEPT ![p] = ApprovedIs(@, x)]
    /\ account' = Post(account, "office_funds", "refund_payable", x)
    /\ UNCHANGED <<ride, stage, active, total, paid, refunded, paidBy, contested, fee>>

PaysAsked(p) == refund[p].asked \* wrong on purpose
PaysBack(p) == refund[p].approved

(* succeed, and _finalize_booking_after_refund *)
Succeed(p) ==
    /\ Move(p, "processing", "succeeded")
    /\ refunded' = refunded + PaysBack(p)
    /\ account' = Post(account, "refund_payable", Till(paidBy), PaysBack(p))
    /\ stage' = IF active = {} /\ In(OpenRefund) \ {p} = {} THEN "cancelled" ELSE stage
    /\ UNCHANGED <<ride, active, total, paid, paidBy, contested, fee>>

(* Chargebacks are rows that no code under src/apps/api writes.            *)
Contest(x) ==
    /\ contested = 0 /\ x \in 1 .. paid /\ contested' = x
    /\ UNCHANGED <<ride, stage, active, total, paid, refunded, paidBy, refund, fee, account>>
Settle ==
    /\ contested # 0 /\ contested' = 0
    /\ UNCHANGED <<ride, stage, active, total, paid, refunded, paidBy, refund, fee, account>>

RefundsInit ==
    /\ ride = "ahead" /\ stage = "awaiting_payment"
    /\ active = Travellers
    /\ total = Worth(Travellers)
    /\ paid = 0 /\ refunded = 0 /\ paidBy = "none" /\ contested = 0
    /\ refund = [p \in Travellers |-> NoRefund]
    /\ fee = [st |-> "expected", amount |-> Commission(total)]
    /\ account = [a \in Accounts |-> 0]

RefundsNext ==
    \/ \E method \in {"electronic", "direct"} : Pay(method)
    \/ \E ps \in SUBSET Travellers, percent \in Percents : Cancel(ps, percent)
    \/ CancelRide \/ CompleteRide \/ Settle
    \/ \E x \in {Fare, paid} : Contest(x)
    \/ \E p \in Travellers : \/ Review(p) \/ Reject(p) \/ Withdraw(p) \/ Process(p)
                             \/ Fail(p) \/ Retry(p) \/ Succeed(p)
    \/ \E p \in Travellers, x \in 1 .. paid : Approve(p, x)

RefundsSpec == RefundsInit /\ [][RefundsNext]_rVars

-----------------------------------------------------------------------------
(* Properties *)

(* Whatever fails and is tried again, and whatever is approved meanwhile   *)
(* on the money it gave free: no more goes back than the booking paid.     *)
RefundedWithinPaid == refunded <= paid

(* The ledger owes exactly the refunds that are approved and not yet paid, *)
(* the failed ones among them, and the money at hand is what was paid less *)
(* what was returned until the service is recognised.                      *)
LedgerOwesTheApproved ==
    /\ account["refund_payable"] = -Approved(In({"approved", "processing", "failed"}))
    /\ fee.st # "earned" /\ paidBy # "none" => account[Till(paidBy)] = paid - refunded

(* The two together: refunds are covered, in the booking and in the ledger. *)
RefundsAreCovered == RefundedWithinPaid /\ LedgerOwesTheApproved

(* Expected to fail: a booking without passengers is cancelled when the    *)
(* last of its refunds is settled, and waits as long as one is open.       *)
CancelledWithItsRefunds ==
    active = {} => /\ stage = "cancelled" => In(OpenRefund) = {}
                   /\ stage = "cancellation_pending" => In(OpenRefund \cup {"failed"}) # {}
=============================================================================
