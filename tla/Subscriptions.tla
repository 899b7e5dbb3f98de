--------------------------- MODULE Subscriptions ---------------------------
(***************************************************************************)
(* What offices pay the platform (subscriptions/services.py): plans, the   *)
(* subscriptions of each office in the order of their creation, each with  *)
(* the one invoice it was created with, requests for another plan, and the *)
(* job that closes periods.  Dates are abstracted to whether a period has  *)
(* ended and how late an invoice is.                                       *)
(***************************************************************************)
EXTENDS Integers, Sequences, Functions

CONSTANTS Lessees,    \* offices
          Plans,
          Custom,     \* plans whose billing period has no length of its own
          FirstPrice, \* of each plan
          Prices,     \* what update_plan may set
          MaxRows     \* bound: subscriptions of an office

(* ck_subscription_plan_price_nonnegative                                  *)
ASSUME SubscriptionsAssumption == FirstPrice \in [Plans -> Nat] /\ Prices \subseteq Nat

VARIABLES
    price,      \* SubscriptionPlan.price_amount
    lease,      \* OfficeSubscription rows of each office
    wish,       \* its pending SubscriptionChangeRequest
    agreed,     \* plans of its approved requests for the next period
    owed,       \* balance of its 1030_OTHER_RECEIVABLE
    banked      \* what it has paid: 1000_BANK

bVars == <<price, lease, wish, agreed, owed, banked>>

-----------------------------------------------------------------------------
Live == {"trial", "active", "past_due", "grace"}
LeaseStatus == Live \cup {"cancelled", "expired"}
InvoiceStatus == {"none", "open", "paid", "void", "uncollectible"}
ChangeModes == {"immediate", "next_period"}
NoWish == [plan |-> "none", mode |-> "none", renew |-> FALSE]

Row == [st : LeaseStatus, plan : Plans, cost : Nat, renew : BOOLEAN, trial : BOOLEAN,
        over : BOOLEAN, inv : InvoiceStatus, late : 0 .. 2]

SubscriptionsTypeOK ==
    /\ price \in [Plans -> Nat]
    /\ lease \in [Lessees -> Seq(Row)] /\ agreed \in [Lessees -> SUBSET Plans]
    /\ wish \in [Lessees -> {NoWish} \cup [plan : Plans, mode : ChangeModes, renew : BOOLEAN]]
    /\ owed \in [Lessees -> Int] /\ banked \in [Lessees -> Nat]

-----------------------------------------------------------------------------
IsLive(r) == r.st \in Live
(* current_subscription: the newest of them, and uq_active_subscription    *)
(* allows no second.                                                       *)
Current(o) == {i \in DOMAIN lease[o] : IsLive(lease[o][i])}

(* create_subscription_invoice makes none when nothing is to be paid.      *)
InvoiceOf(cost) == IF cost > 0 THEN "open" ELSE "none"
NewRow(st, p, renew) ==
    [st |-> st, plan |-> p, cost |-> price[p], renew |-> renew, trial |-> FALSE,
     over |-> FALSE, inv |-> InvoiceOf(price[p]), late |-> 0]
Trial(p, renew) == [NewRow("trial", p, renew) EXCEPT !.trial = TRUE, !.inv = "none"]

Invoiced(r) == IF r.inv = "open" THEN r.cost ELSE 0
CancelLive(rows) == [i \in DOMAIN rows |-> IF IsLive(rows[i]) THEN [rows[i] EXCEPT !.st = "cancelled"]
                                                             ELSE rows[i]]

AssignedWith(r, reference) ==
    IF r.inv = "open" THEN IF reference THEN [r EXCEPT !.inv = "paid"] ELSE [r EXCEPT !.st = "past_due"]
    ELSE r

(* assign_subscription: the row replaces the live one.                     *)
Replace(o, row) ==
    /\ Len(lease[o]) < MaxRows
    /\ lease' = [lease EXCEPT ![o] = Append(CancelLive(@), row)]
    /\ owed' = [owed EXCEPT ![o] = @ + Invoiced(row)]
    /\ banked' = [banked EXCEPT ![o] = IF row.inv = "paid" THEN @ + row.cost ELSE @]

AssignSubscription(o, p, reference, renew) ==
    /\ Replace(o, AssignedWith(NewRow("active", p, renew), reference))
    /\ UNCHANGED <<price, wish, agreed>>

StartTrial(o, p, renew) ==
    /\ ~\E i \in DOMAIN lease[o] : lease[o][i].trial
    /\ Replace(o, Trial(p, renew))
    /\ UNCHANGED <<price, wish, agreed>>

UpdatePlan(p, x) ==
    /\ price' = [price EXCEPT ![p] = x] /\ price' # price
    /\ UNCHANGED <<lease, wish, agreed, owed, banked>>

-----------------------------------------------------------------------------
(* Invoices *)

RevivesAny(r) == [r EXCEPT !.inv = "paid", !.st = "active"] \* wrong on purpose
PaidRow(r) == [r EXCEPT !.inv = "paid", !.st = IF @ \in {"past_due", "grace"} THEN "active" ELSE @]

(* mark_invoice_paid *)
PayInvoice(o, i) ==
    LET r == lease[o][i] IN
    /\ r.inv = "open"
    /\ lease' = [lease EXCEPT ![o][i] = PaidRow(r)]
    /\ owed' = [owed EXCEPT ![o] = @ - r.cost]
    /\ banked' = [banked EXCEPT ![o] = @ + r.cost]
    /\ UNCHANGED <<price, wish, agreed>>

PriceNow(r) == price[r.plan] \* wrong on purpose
Reversed(r) == r.cost

(* close_invoice; the subscription keeps its status.                       *)
CloseInvoice(o, i, st) ==
    LET r == lease[o][i] IN
    /\ r.inv = "open"
    /\ lease' = [lease EXCEPT ![o][i].inv = st]
    /\ owed' = [owed EXCEPT ![o] = @ - Reversed(r)]
    /\ UNCHANGED <<price, wish, agreed, banked>>

-----------------------------------------------------------------------------
(* Another plan *)

RequestChange(o, p, mode) ==
    /\ wish[o] = NoWish
    /\ \E i \in Current(o) :
           /\ lease[o][i].plan # p
           /\ wish' = [wish EXCEPT ![o] = [plan |-> p, mode |-> mode, renew |-> lease[o][i].renew]]
    /\ UNCHANGED <<price, lease, agreed, owed, banked>>

RejectChange(o) ==
    /\ wish[o] # NoWish /\ wish' = [wish EXCEPT ![o] = NoWish]
    /\ UNCHANGED <<price, lease, agreed, owed, banked>>

(* An approved request does not keep the office from asking again.  For a  *)
(* custom plan no end is passed on, and the assignment refuses.            *)
ApproveChange(o, reference) ==
    LET p == wish[o].plan IN
    /\ wish[o] # NoWish /\ wish' = [wish EXCEPT ![o] = NoWish]
    /\ \/ /\ wish[o].mode = "immediate" /\ p \notin Custom
          /\ Replace(o, AssignedWith(NewRow("active", p, wish[o].renew), reference))
          /\ UNCHANGED agreed
       \/ /\ wish[o].mode = "next_period"
          /\ agreed' = [agreed EXCEPT ![o] = @ \cup {p}]
          /\ UNCHANGED <<lease, owed, banked>>
    /\ UNCHANGED price

-----------------------------------------------------------------------------
(* Time, and process_due_subscriptions *)

PeriodEnds(o) ==
    /\ \E i \in DOMAIN lease[o] : IsLive(lease[o][i]) /\ ~lease[o][i].over
                                  /\ lease' = [lease EXCEPT ![o][i].over = TRUE]
    /\ UNCHANGED <<price, wish, agreed, owed, banked>>

InvoiceAges(o) ==
    /\ \E i \in DOMAIN lease[o] : lease[o][i].inv = "open" /\ lease[o][i].late < 2
                                  /\ lease' = [lease EXCEPT ![o][i].late = @ + 1]
    /\ UNCHANGED <<price, wish, agreed, owed, banked>>

IsDue(r) == r.st \in {"trial", "active"} /\ r.over
DueOf(o) == {i \in DOMAIN lease[o] : IsDue(lease[o][i])}
Renews(o) == \E i \in DueOf(o) : lease[o][i].renew
(* Any of the approved plans, in no order; else the plan it has.           *)
RenewalPlans(o) == IF ~Renews(o) THEN {CHOOSE p \in Plans : TRUE}
                   ELSE IF agreed[o] = {} THEN {lease[o][i].plan : i \in DueOf(o)} ELSE agreed[o]

RenewedFree(p) == NewRow("active", p, TRUE) \* wrong on purpose
Renewed(p) == NewRow(IF price[p] > 0 THEN "past_due" ELSE "active", p, TRUE)

(* past_due becomes grace, and grace ends, within one run of the job.      *)
Dunned(r) ==
    CASE r.st \in {"past_due", "grace"} /\ r.inv = "open" /\ r.late = 2 -> [r EXCEPT !.st = "expired"]
      [] r.st = "past_due" /\ r.inv = "open" /\ r.late = 1 -> [r EXCEPT !.st = "grace"]
      [] OTHER -> r
Closed(r) == IF IsDue(r) THEN [r EXCEPT !.st = "expired"] ELSE Dunned(r)

(* One transaction for all offices: the renewal of a custom plan, which    *)
(* has no length, takes everything back.                                   *)
ProcessDue ==
    \E plan \in [Lessees -> Plans] :
        /\ \A o \in Lessees : plan[o] \in RenewalPlans(o) /\ (Renews(o) => plan[o] \notin Custom)
        /\ \A o \in Lessees : Renews(o) => Len(lease[o]) < MaxRows
        /\ lease' = [o \in Lessees |->
               LET closed == [i \in DOMAIN lease[o] |-> Closed(lease[o][i])]
               IN  IF Renews(o) THEN Append(closed, Renewed(plan[o])) ELSE closed]
        /\ owed' = [o \in Lessees |-> owed[o] + (IF Renews(o) THEN Invoiced(Renewed(plan[o])) ELSE 0)]
        /\ agreed' = [o \in Lessees |-> IF Renews(o) THEN agreed[o] \ {plan[o]} ELSE agreed[o]]
        /\ UNCHANGED <<price, wish, banked>>

SubscriptionsInit ==
    /\ price = FirstPrice
    /\ lease = [o \in Lessees |-> << >>]
    /\ wish = [o \in Lessees |-> NoWish] /\ agreed = [o \in Lessees |-> {}]
    /\ owed = [o \in Lessees |-> 0] /\ banked = [o \in Lessees |-> 0]

SubscriptionsNext ==
    \/ \E o \in Lessees :
           \/ \E p \in Plans, renew \in BOOLEAN :
                  \/ StartTrial(o, p, renew)
                  \/ \E reference \in BOOLEAN : AssignSubscription(o, p, reference, renew)
           \/ \E i \in DOMAIN lease[o] : \/ PayInvoice(o, i)
                                         \/ \E st \in {"void", "uncollectible"} : CloseInvoice(o, i, st)
           \/ \E p \in Plans, mode \in ChangeModes : RequestChange(o, p, mode)
           \/ \E reference \in BOOLEAN : ApproveChange(o, reference)
           \/ RejectChange(o) \/ PeriodEnds(o) \/ InvoiceAges(o)
    \/ \E p \in Plans, x \in Prices : UpdatePlan(p, x)
    \/ ProcessDue

SubscriptionsSpec == SubscriptionsInit /\ [][SubscriptionsNext]_bVars

-----------------------------------------------------------------------------
(* Properties *)

(* What an office owes is the sum of its open invoices, at the price each  *)
(* was made out for, whatever became of the plan and the subscription.     *)
OwesItsOpenInvoices ==
    \A o \in Lessees : owed[o] = SumFunction([i \in DOMAIN lease[o] |-> Invoiced(lease[o][i])])

(* An office has one live subscription at most, and its status says what   *)
(* became of its invoice: a trial has none, an active one is free or paid, *)
(* and one that is past_due, with which the office still sells, is unpaid: *)
(* the invoice is open, cancelled or written off.  A payment that comes    *)
(* after the subscription was replaced or ran out revives nothing.         *)
Billed(r) ==
    /\ r.st = "trial" => r.inv = "none"
    /\ r.st = "active" => r.inv \in {"none", "paid"}
    /\ r.st \in {"past_due", "grace"} => r.inv \in {"open", "void", "uncollectible"}
OneLiveAndBilled ==
    \A o \in Lessees :
        /\ \A i, j \in Current(o) : i = j
        /\ \A i \in DOMAIN lease[o] : Billed(lease[o][i])

(* Renewals, changes of plan, late payments and cancelled invoices in any  *)
(* order: an office owes its open invoices, and has one live subscription, *)
(* whose status is that of its invoice.                                    *)
SubscriptionsAreAccounted == OwesItsOpenInvoices /\ OneLiveAndBilled
=============================================================================
