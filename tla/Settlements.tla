---------------------------- MODULE Settlements ----------------------------
(***************************************************************************)
(* What the platform and one office owe each other in one currency, from   *)
(* the recognition of a booking to the payment of a settlement             *)
(* (finance/services.py), and the disputes about bookings                  *)
(* (finance/dispute_services.py).  Periods of settlements may overlap, and *)
(* a booking may be recognised after its period was calculated.            *)
(***************************************************************************)
EXTENDS Integers, FiniteSets, Functions

CONSTANTS Sales,       \* bookings
          Electronic,  \* those paid to the platform; the others paid the office
          Periods,     \* settlements
          EarnedIn,    \* the bookings whose earned_at lies in a period
          Gross, Cut,  \* paid_amount and commission_amount of a booking
          Disputed     \* disputed_amount of a dispute

ASSUME SettlementsAssumption ==
    /\ IsFiniteSet(Sales) /\ IsFiniteSet(Periods)
    /\ Electronic \subseteq Sales /\ EarnedIn \in [Periods -> SUBSET Sales]
    /\ Gross \in [Sales -> Nat] /\ Cut \in [Sales -> Nat] /\ Disputed \in [Sales -> Nat]

VARIABLES
    com,        \* Commission.status
    returned,   \* Booking.refunded_amount
    settlement, \* status, items (of a booking: amount due and frozen) and net amount
    payable,    \* balance of 2010_OFFICE_PAYABLE
    receivable, \* balance of 1020_OFFICE_COMMISSION_RECEIVABLE
    dispute,    \* FinancialDispute.status and whether its appeal time has run out
    decision,   \* financial effect of the initial and of the appeal decision
    effect,     \* net effect of the posted DISPUTE_DECISION entries
    bankable    \* the office has an active payout account

sVars == <<com, returned, settlement, payable, receivable, dispute, decision, effect, bankable>>
moneyVars == <<com, settlement, payable, receivable>>
disputeVars == <<dispute, decision, effect>>

-----------------------------------------------------------------------------
SettlementStatus == {"none", "draft", "calculated", "under_review", "approved", "processing",
                     "paid", "closed"}
DisputeStatus == {"none", "open", "awaiting_office", "under_review", "decided", "appealed", "closed"}
NoDecision == 99
Item == [listed : BOOLEAN, due : Nat, frozen : Nat]
NoItem == [listed |-> FALSE, due |-> 0, frozen |-> 0]

SettlementsTypeOK ==
    /\ com \in [Sales -> {"expected", "earned", "in_settlement", "paid"}]
    /\ returned \in [Sales -> Nat] /\ \A b \in Sales : returned[b] <= Gross[b]
    /\ settlement \in [Periods -> [st : SettlementStatus, items : [Sales -> Item], net : Int]]
    /\ payable \in Int /\ receivable \in Int
    /\ dispute \in [Sales -> [st : DisputeStatus, late : BOOLEAN]]
    /\ decision \in [Sales -> [initial : Int, appeal : Int]] /\ effect \in [Sales -> Int]
    /\ bankable \in BOOLEAN

-----------------------------------------------------------------------------
Lesser(a, b) == IF a <= b THEN a ELSE b

RecognisedGross(b) == Gross[b] - returned[b]
WholeCut(b) == Cut[b] \* wrong on purpose
CutOf(b) == Lesser(Cut[b], RecognisedGross(b))
Net(b) == RecognisedGross(b) - CutOf(b)

(* _open_disputed_amount *)
IsOpen(d) == d.st \in {"open", "under_review"}
Frozen(b) == IF IsOpen(dispute[b]) /\ b \in Electronic THEN Lesser(Net(b), Disputed[b]) ELSE 0

InItems(s) == {b \in Sales : settlement[s].items[b].listed}
(* What a settlement pays out, and what it charges.                        *)
Due(items) == SumFunction([b \in Electronic |-> items[b].due - items[b].frozen])
Owed(items) == SumFunction([b \in Sales \ Electronic |-> items[b].due])
Netted(items) == Lesser(Due(items), Owed(items))

-----------------------------------------------------------------------------
(* Recognition and later refunds; their other entries are in Refunds.      *)

Recognise(b) ==
    /\ com[b] = "expected"
    /\ com' = [com EXCEPT ![b] = "earned"]
    /\ payable' = IF b \in Electronic THEN payable + Net(b) ELSE payable
    /\ receivable' = IF b \in Electronic THEN receivable ELSE receivable + CutOf(b)
    /\ UNCHANGED <<returned, settlement, disputeVars, bankable>>

RefundLater(b) ==
    /\ returned[b] < Gross[b]
    /\ returned' = [returned EXCEPT ![b] = Gross[b]]
    /\ UNCHANGED <<moneyVars, disputeVars, bankable>>

-----------------------------------------------------------------------------
(* Settlements *)

Steps(s, from, to) ==
    /\ settlement[s].st = from
    /\ settlement' = [settlement EXCEPT ![s].st = to]
    /\ UNCHANGED <<com, returned, payable, receivable, disputeVars, bankable>>

CreateSettlement(s) == Steps(s, "none", "draft")
SubmitReview(s) == Steps(s, "calculated", "under_review")
ApproveSettlement(s) == (settlement[s].net > 0 => bankable) /\ Steps(s, "under_review", "approved")
ProcessSettlement(s) == Steps(s, "approved", "processing")
CloseSettlement(s) == Steps(s, "paid", "closed")

AnyEarned(s) == {b \in EarnedIn[s] : com[b] # "expected"} \* wrong on purpose
(* Earned in the period, and in no settlement but this one.                *)
Settleable(s) == {b \in EarnedIn[s] : com[b] = "earned" \/ b \in InItems(s)}

ItemOf(b) == [listed |-> TRUE, due |-> IF b \in Electronic THEN Net(b) ELSE CutOf(b), frozen |-> Frozen(b)]

(* calculate_settlement; a second calculation starts afresh.               *)
Calculate(s) ==
    LET items == [b \in Sales |-> IF b \in Settleable(s) THEN ItemOf(b) ELSE NoItem]
    IN  /\ settlement[s].st \in {"draft", "calculated"}
        /\ settlement' = [settlement EXCEPT ![s] =
               [st |-> "calculated", items |-> items, net |-> Due(items) - Owed(items)]]
        /\ com' = [b \in Sales |-> IF b \in Settleable(s) THEN "in_settlement" ELSE com[b]]
        /\ UNCHANGED <<returned, payable, receivable, disputeVars, bankable>>

PaidLeaves(s) == [b \in Sales |-> IF b \in EarnedIn[s] THEN "paid" ELSE com[b]] \* wrong on purpose
Paid(s) == [b \in Sales |-> IF b \in InItems(s) THEN "paid" ELSE com[b]]

(* mark_paid: netting, then the payout or the payment of the office.       *)
MarkPaid(s) ==
    LET net == settlement[s].net
        netting == Netted(settlement[s].items)
    IN  /\ settlement[s].st = "processing"
        /\ net > 0 => bankable
        /\ settlement' = [settlement EXCEPT ![s].st = "paid"]
        /\ com' = Paid(s)
        /\ payable' = payable - netting - (IF net > 0 THEN net ELSE 0)
        /\ receivable' = receivable - netting - (IF net < 0 THEN -net ELSE 0)
        /\ UNCHANGED <<returned, disputeVars, bankable>>

(* Payout accounts belong to Organizations.                                *)
PayoutAccountChanges ==
    /\ bankable' = ~bankable
    /\ UNCHANGED <<moneyVars, returned, disputeVars>>

-----------------------------------------------------------------------------
(* Disputes *)

DisputeStep(b, from, to) ==
    /\ dispute[b].st \in from
    /\ dispute' = [dispute EXCEPT ![b].st = to]
    /\ UNCHANGED <<moneyVars, returned, bankable>>

(* No code under src/apps/api writes the row of a new dispute.             *)
OpenDispute(b) == DisputeStep(b, {"none"}, "open") /\ UNCHANGED <<decision, effect>>
AssignOffice(b) == DisputeStep(b, {"open"}, "awaiting_office") /\ UNCHANGED <<decision, effect>>
OfficeResponds(b) == DisputeStep(b, {"awaiting_office"}, "under_review") /\ UNCHANGED <<decision, effect>>

Decide(b, x) ==
    /\ DisputeStep(b, {"open", "under_review"}, "decided")
    /\ decision' = [decision EXCEPT ![b].initial = x]
    /\ effect' = [effect EXCEPT ![b] = @ + x]

(* file_dispute_appeal *)
Appeal(b) ==
    /\ ~dispute[b].late
    /\ DisputeStep(b, {"decided"}, "appealed") /\ UNCHANGED <<decision, effect>>

AddedEffect(b, x) == effect[b] + x \* wrong on purpose
(* reverse_ledger_entry takes the initial decision back.                   *)
CorrectedEffect(b, x) == effect[b] - decision[b].initial + x

(* decide_appeal, by another reviewer.                                     *)
DecideAppeal(b, x) ==
    /\ DisputeStep(b, {"appealed"}, "closed")
    /\ decision' = [decision EXCEPT ![b].appeal = x]
    /\ effect' = [effect EXCEPT ![b] = CorrectedEffect(b, x)]

AppealTimeEnds(b) ==
    /\ dispute[b].st = "decided" /\ ~dispute[b].late
    /\ dispute' = [dispute EXCEPT ![b].late = TRUE]
    /\ UNCHANGED <<moneyVars, returned, bankable, decision, effect>>

CloseNoAppeal(b) ==
    /\ dispute[b].late
    /\ DisputeStep(b, {"decided"}, "closed") /\ UNCHANGED <<decision, effect>>

SettlementsInit ==
    /\ com = [b \in Sales |-> "expected"] /\ returned = [b \in Sales |-> 0]
    /\ settlement = [s \in Periods |-> [st |-> "none", items |-> [b \in Sales |-> NoItem], net |-> 0]]
    /\ payable = 0 /\ receivable = 0
    /\ dispute = [b \in Sales |-> [st |-> "none", late |-> FALSE]]
    /\ decision = [b \in Sales |-> [initial |-> NoDecision, appeal |-> NoDecision]]
    /\ effect = [b \in Sales |-> 0]
    /\ bankable = TRUE

SettlementsNext ==
    \/ \E b \in Sales : \/ Recognise(b) \/ RefundLater(b) \/ OpenDispute(b) \/ AssignOffice(b)
                        \/ OfficeResponds(b) \/ Appeal(b) \/ AppealTimeEnds(b) \/ CloseNoAppeal(b)
    \/ \E b \in Sales, x \in {-1, 0, 1} : Decide(b, x) \/ DecideAppeal(b, x)
    \/ \E s \in Periods : \/ CreateSettlement(s) \/ Calculate(s) \/ SubmitReview(s)
                          \/ ApproveSettlement(s) \/ ProcessSettlement(s) \/ MarkPaid(s)
                          \/ CloseSettlement(s)
    \/ PayoutAccountChanges

SettlementsSpec == SettlementsInit /\ [][SettlementsNext]_sVars

-----------------------------------------------------------------------------
(* Properties *)

(* However periods overlap and are calculated again, the ledger never pays *)
(* the office, nor charges it, more than recognition found to be owed.     *)
OwedOnce == payable >= 0 /\ receivable >= 0

(* A commission is paid only through an item of a settlement that is paid, *)
(* and is then never settled anywhere else.                                *)
PaidIsSettled ==
    \A b \in Sales : com[b] = "paid" =>
        /\ \E s \in Periods : settlement[s].st \in {"paid", "closed"} /\ b \in InItems(s)
        /\ Cardinality({s \in Periods : b \in InItems(s)}) = 1

(* Of a dispute that was appealed only the last decision counts.           *)
LastDecision(b) == IF decision[b].appeal # NoDecision THEN decision[b].appeal ELSE decision[b].initial
LastDecisionCounts ==
    \A b \in Sales : effect[b] = IF LastDecision(b) = NoDecision THEN 0 ELSE LastDecision(b)

(* The three together: nothing is settled, paid or decided twice.          *)
SettledOnce == OwedOnce /\ PaidIsSettled /\ LastDecisionCounts
=============================================================================
