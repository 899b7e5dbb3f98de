------------------------- MODULE BackOffice_proofs -------------------------
(***************************************************************************)
(* What holds of the components around the sale, each for every value of   *)
(* its constants, and of the composition of all of them.                   *)
(***************************************************************************)
EXTENDS BackOffice, Refunds_proofs, Settlements_proofs, Trips_proofs

-----------------------------------------------------------------------------
(* SUBSCRIPTIONS                                                           *)

(* The rows of one office.                                                 *)
Debt(rows) == SumFunction([i \in DOMAIN rows |-> Invoiced(rows[i])])
Orderly(rows) ==
    /\ \A i, j \in DOMAIN rows : IsLive(rows[i]) /\ IsLive(rows[j]) => i = j
    /\ \A i \in DOMAIN rows : Billed(rows[i])

LEMMA InvoicedNat == \A r \in Row : Invoiced(r) \in Nat
BY DEF Row, Invoiced

(* What the rows owe depends on the invoices that are open.                *)
LEMMA DebtSame ==
    ASSUME NEW rows \in Seq(Row), NEW other \in Seq(Row), Len(other) = Len(rows),
           \A i \in 1 .. Len(rows) : Invoiced(other[i]) = Invoiced(rows[i])
    PROVE  Debt(other) = Debt(rows)
<1> DEFINE n == Len(rows)
           f == [i \in 1 .. n |-> Invoiced(rows[i])]
           g == [i \in 1 .. n |-> Invoiced(other[i])]
<1>1. n \in Nat /\ IsFiniteSet(1 .. n) /\ DOMAIN rows = 1 .. n /\ DOMAIN other = 1 .. n
    BY FS_Interval
<1>2. \A i \in 1 .. n : g[i] \in Int /\ g[i] = f[i]
    BY InvoicedNat
<1>3. Debt(rows) = SumFunctionOnSet(f, 1 .. n) /\ Debt(other) = SumFunctionOnSet(g, 1 .. n)
    BY <1>1 DEF Debt, SumFunction
<1>4. SumFunctionOnSet(g, 1 .. n) = SumFunctionOnSet(f, 1 .. n)
    <2> HIDE DEF f, g, n
    <2>1. QED
        BY <1>1, <1>2, SumAgrees
<1>5. QED
    BY <1>3, <1>4

LEMMA DebtAppend ==
    ASSUME NEW rows \in Seq(Row), NEW r \in Row
    PROVE  Debt(Append(rows, r)) = Debt(rows) + Invoiced(r)
<1> DEFINE n == Len(rows)
           f == [i \in 1 .. n |-> Invoiced(rows[i])]
           g == [i \in 1 .. (n + 1) |-> Invoiced(Append(rows, r)[i])]
<1>1. n \in Nat /\ IsFiniteSet(1 .. n)
    BY FS_Interval
<1>2. /\ \A i \in 1 .. n : g[i] \in Int /\ g[i] = f[i]
      /\ g[n + 1] = Invoiced(r) /\ g[n + 1] \in Int
    BY InvoicedNat
<1>3. 1 .. (n + 1) = (1 .. n) \cup {n + 1} /\ n + 1 \notin 1 .. n
    BY <1>1
<1>4. Debt(rows) = SumFunctionOnSet(f, 1 .. n)
    BY DEF Debt, SumFunction
<1>5. Debt(Append(rows, r)) = SumFunctionOnSet(g, 1 .. (n + 1))
    BY DEF Debt, SumFunction
<1>6. SumFunctionOnSet(g, 1 .. n) = SumFunctionOnSet(f, 1 .. n) /\ SumFunctionOnSet(g, 1 .. n) \in Int
    <2> HIDE DEF f, g, n
    <2>1. QED
        BY <1>1, <1>2, SumAgrees, SumInt
<1>7. SumFunctionOnSet(g, (1 .. n) \cup {n + 1}) = g[n + 1] + SumFunctionOnSet(g, 1 .. n)
    <2>1. \A i \in (1 .. n) \cup {n + 1} : g[i] \in Int
        BY <1>2
    <2> HIDE DEF f, g, n
    <2>2. QED
        BY <1>1, <1>3, <2>1, SumAdd
<1>8. SumFunctionOnSet(g, 1 .. (n + 1)) = SumFunctionOnSet(g, (1 .. n) \cup {n + 1})
    BY <1>3, Zenon
<1>9. Invoiced(r) \in Int
    BY InvoicedNat
<1> HIDE DEF f, g, n
<1>10. QED
    BY <1>2, <1>4, <1>5, <1>6, <1>7, <1>8, <1>9

LEMMA DebtEdit ==
    ASSUME NEW rows \in Seq(Row), NEW i \in DOMAIN rows, NEW r \in Row
    PROVE  Debt([rows EXCEPT ![i] = r]) = Debt(rows) - Invoiced(rows[i]) + Invoiced(r)
<1> DEFINE n == Len(rows)
           other == [rows EXCEPT ![i] = r]
           f == [j \in 1 .. n |-> Invoiced(rows[j])]
           g == [j \in 1 .. n |-> Invoiced(other[j])]
<1>1. n \in Nat /\ IsFiniteSet(1 .. n) /\ i \in 1 .. n
    BY FS_Interval
<1>2. other \in Seq(Row) /\ Len(other) = n /\ other[i] = r /\ \A j \in 1 .. n : j # i => other[j] = rows[j]
    OBVIOUS
<1>3. /\ \A j \in 1 .. n : f[j] \in Int /\ g[j] \in Int
      /\ \A j \in 1 .. n : j # i => g[j] = f[j]
      /\ f[i] = Invoiced(rows[i]) /\ g[i] = Invoiced(r)
    BY <1>1, <1>2, InvoicedNat
<1>4. Debt(rows) = SumFunctionOnSet(f, 1 .. n) /\ Debt(other) = SumFunctionOnSet(g, 1 .. n)
    BY <1>2 DEF Debt, SumFunction
<1>5. SumFunctionOnSet(g, 1 .. n) = SumFunctionOnSet(f, 1 .. n) - f[i] + g[i]
    <2> HIDE DEF f, g, n, other
    <2>1. QED
        BY <1>1, <1>3, SumChange
<1>6. QED
    BY <1>3, <1>4, <1>5

-----------------------------------------------------------------------------
(* What is done to the rows of one office *)

LEMMA NewRowType ==
    ASSUME price \in [Plans -> Nat], NEW p \in Plans, NEW renew \in BOOLEAN, NEW st \in LeaseStatus
    PROVE  /\ NewRow(st, p, renew) \in Row /\ NewRow(st, p, renew).st = st
           /\ NewRow(st, p, renew).inv \in {"open", "none"}
           /\ NewRow(st, p, renew).inv = "open" <=> price[p] > 0
<1>1. InvoiceOf(price[p]) \in {"open", "none"} /\ (InvoiceOf(price[p]) = "open" <=> price[p] > 0)
    BY DEF InvoiceOf
<1>2. QED
    BY <1>1 DEF NewRow, Row, InvoiceStatus

LEMMA AssignedType ==
    ASSUME price \in [Plans -> Nat], NEW p \in Plans, NEW renew \in BOOLEAN, NEW reference \in BOOLEAN
    PROVE  /\ AssignedWith(NewRow("active", p, renew), reference) \in Row
           /\ Billed(AssignedWith(NewRow("active", p, renew), reference))
<1> DEFINE r == NewRow("active", p, renew)
<1>1. r \in Row /\ r.st = "active" /\ r.inv \in {"open", "none"}
    BY NewRowType DEF LeaseStatus, Live
<1> HIDE DEF r
<1>2. ASSUME r.inv = "open" /\ reference
      PROVE  AssignedWith(r, reference) \in Row /\ Billed(AssignedWith(r, reference))
    <2>1. AssignedWith(r, reference) = [r EXCEPT !.inv = "paid"]
        BY <1>2 DEF AssignedWith
    <2>2. [r EXCEPT !.inv = "paid"] \in Row /\ [r EXCEPT !.inv = "paid"].st = "active"
          /\ [r EXCEPT !.inv = "paid"].inv = "paid"
        BY <1>1 DEF Row, InvoiceStatus
    <2>3. QED
        BY <2>1, <2>2 DEF Billed
<1>3. ASSUME r.inv = "open" /\ ~reference
      PROVE  AssignedWith(r, reference) \in Row /\ Billed(AssignedWith(r, reference))
    <2>1. AssignedWith(r, reference) = [r EXCEPT !.st = "past_due"]
        BY <1>3 DEF AssignedWith
    <2>2. [r EXCEPT !.st = "past_due"] \in Row /\ [r EXCEPT !.st = "past_due"].st = "past_due"
          /\ [r EXCEPT !.st = "past_due"].inv = "open"
        BY <1>1, <1>3 DEF Row, LeaseStatus, Live
    <2>3. QED
        BY <2>1, <2>2 DEF Billed
<1>4. ASSUME r.inv = "none"
      PROVE  AssignedWith(r, reference) \in Row /\ Billed(AssignedWith(r, reference))
    <2>1. AssignedWith(r, reference) = r
        BY <1>4 DEF AssignedWith
    <2>2. QED
        BY <1>1, <1>4, <2>1 DEF Billed
<1>5. AssignedWith(r, reference) \in Row /\ Billed(AssignedWith(r, reference))
    BY <1>1, <1>2, <1>3, <1>4
<1>6. QED
    BY <1>5 DEF r

LEMMA TrialType ==
    ASSUME price \in [Plans -> Nat], NEW p \in Plans, NEW renew \in BOOLEAN
    PROVE  Trial(p, renew) \in Row /\ Billed(Trial(p, renew))
<1> DEFINE r == NewRow("trial", p, renew)
<1>1. r \in Row /\ r.st = "trial"
    BY NewRowType DEF LeaseStatus, Live
<1> HIDE DEF r
<1>2. [r EXCEPT !.trial = TRUE, !.inv = "none"] \in Row
      /\ [r EXCEPT !.trial = TRUE, !.inv = "none"].st = "trial"
      /\ [r EXCEPT !.trial = TRUE, !.inv = "none"].inv = "none"
    BY <1>1 DEF Row, InvoiceStatus
<1>3. QED
    BY <1>2 DEF r, Trial, Billed

LEMMA RenewedType ==
    ASSUME price \in [Plans -> Nat], NEW p \in Plans
    PROVE  Renewed(p) \in Row /\ Billed(Renewed(p))
<1>1. CASE price[p] > 0
    <2>1. Renewed(p) = NewRow("past_due", p, TRUE)
        BY <1>1 DEF Renewed
    <2>2. "past_due" \in LeaseStatus /\ TRUE \in BOOLEAN
        BY DEF LeaseStatus, Live
    <2>3. /\ NewRow("past_due", p, TRUE) \in Row /\ NewRow("past_due", p, TRUE).st = "past_due"
          /\ NewRow("past_due", p, TRUE).inv = "open" <=> price[p] > 0
        BY <2>2, NewRowType, Zenon
    <2>4. NewRow("past_due", p, TRUE).inv = "open"
        BY <1>1, <2>3
    <2>5. QED
        BY <2>1, <2>3, <2>4 DEF Billed
<1>2. CASE ~(price[p] > 0)
    <2>1. Renewed(p) = NewRow("active", p, TRUE)
        BY <1>2 DEF Renewed
    <2>2. "active" \in LeaseStatus /\ TRUE \in BOOLEAN
        BY DEF LeaseStatus, Live
    <2>3. /\ NewRow("active", p, TRUE) \in Row /\ NewRow("active", p, TRUE).st = "active"
          /\ NewRow("active", p, TRUE).inv \in {"open", "none"}
          /\ NewRow("active", p, TRUE).inv = "open" <=> price[p] > 0
        BY <2>2, NewRowType, Zenon
    <2>4. NewRow("active", p, TRUE) \in Row /\ NewRow("active", p, TRUE).inv = "none"
        BY <1>2, <2>3
    <2>5. QED
        BY <2>1, <2>3, <2>4 DEF Billed
<1>3. QED
    BY <1>1, <1>2

(* A row after rows that are not live.                                     *)
LEMMA OrderlyAppend ==
    ASSUME NEW rows \in Seq(Row), NEW r \in Row, Orderly(rows), Billed(r),
           \A i \in 1 .. Len(rows) : ~IsLive(rows[i])
    PROVE  Orderly(Append(rows, r))
<1> DEFINE other == Append(rows, r)
<1>1. /\ DOMAIN other = 1 .. (Len(rows) + 1) /\ other[Len(rows) + 1] = r
      /\ \A i \in 1 .. Len(rows) : other[i] = rows[i]
    OBVIOUS
<1>2. \A i \in DOMAIN other : i = Len(rows) + 1 \/ i \in 1 .. Len(rows)
    BY <1>1
<1> HIDE DEF other
<1>3. \A i \in DOMAIN other : IsLive(other[i]) => i = Len(rows) + 1
    BY <1>1, <1>2
<1>4. \A i \in DOMAIN other : Billed(other[i])
    BY <1>1, <1>2 DEF Orderly
<1>5. Orderly(other)
    BY <1>3, <1>4 DEF Orderly
<1>6. QED
    BY <1>5 DEF other

LEMMA ReplaceRows ==
    ASSUME NEW rows \in Seq(Row), NEW r \in Row, Orderly(rows), Billed(r)
    PROVE  /\ Append(CancelLive(rows), r) \in Seq(Row)
           /\ Orderly(Append(CancelLive(rows), r))
           /\ Debt(Append(CancelLive(rows), r)) = Debt(rows) + Invoiced(r)
<1> DEFINE gone == CancelLive(rows)
<1>1. \A i \in DOMAIN rows : rows[i] \in Row
    OBVIOUS
<1>2. \A q \in Row : /\ [q EXCEPT !.st = "cancelled"] \in Row
                     /\ ~IsLive([q EXCEPT !.st = "cancelled"])
                     /\ Invoiced([q EXCEPT !.st = "cancelled"]) = Invoiced(q)
                     /\ Billed([q EXCEPT !.st = "cancelled"])
    BY DEF Row, IsLive, Invoiced, Billed, LeaseStatus, Live
<1>3. \A i \in DOMAIN rows : gone[i] = IF IsLive(rows[i]) THEN [rows[i] EXCEPT !.st = "cancelled"] ELSE rows[i]
    BY DEF CancelLive
<1>4. DOMAIN gone = 1 .. Len(rows) /\ gone = [i \in 1 .. Len(rows) |-> gone[i]]
    BY DEF CancelLive
<1> HIDE DEF gone
<1>5. ASSUME NEW i \in 1 .. Len(rows)
      PROVE  /\ gone[i] \in Row /\ ~IsLive(gone[i]) /\ Invoiced(gone[i]) = Invoiced(rows[i])
             /\ Billed(gone[i])
    <2>0. i \in DOMAIN rows
        OBVIOUS
    <2>1. i \in DOMAIN rows /\ rows[i] \in Row /\ Billed(rows[i])
        BY <1>1, <2>0, Zenon DEF Orderly
    <2>2. CASE IsLive(rows[i])
        BY <1>2, <1>3, <2>1, <2>2
    <2>3. CASE ~IsLive(rows[i])
        BY <1>3, <2>1, <2>3
    <2>4. QED
        BY <2>2, <2>3
<1>6. gone \in Seq(Row) /\ Len(gone) = Len(rows)
    BY <1>4, <1>5
<1>7. Orderly(gone)
    BY <1>4, <1>5 DEF Orderly
<1>8. Debt(gone) = Debt(rows)
    BY <1>5, <1>6, DebtSame
<1>9. Append(gone, r) \in Seq(Row) /\ Orderly(Append(gone, r)) /\ Debt(Append(gone, r)) = Debt(rows) + Invoiced(r)
    BY <1>5, <1>6, <1>7, <1>8, OrderlyAppend, DebtAppend
<1>10. QED
    BY <1>9 DEF gone

LEMMA EditRows ==
    ASSUME NEW rows \in Seq(Row), NEW i \in DOMAIN rows, NEW r \in Row, Orderly(rows), Billed(r),
           IsLive(r) => IsLive(rows[i])
    PROVE  /\ [rows EXCEPT ![i] = r] \in Seq(Row)
           /\ Orderly([rows EXCEPT ![i] = r])
<1> DEFINE other == [rows EXCEPT ![i] = r]
<1>1. /\ other \in Seq(Row) /\ DOMAIN other = DOMAIN rows /\ other[i] = r
      /\ \A j \in DOMAIN rows : j # i => other[j] = rows[j]
    OBVIOUS
<1> HIDE DEF other
<1>2. \A j \in DOMAIN rows : (IsLive(other[j]) => IsLive(rows[j])) /\ Billed(other[j])
    BY <1>1 DEF Orderly
<1>3. Orderly(other)
    BY <1>1, <1>2 DEF Orderly
<1>4. QED
    BY <1>1, <1>3 DEF other

LEMMA ClosedRow ==
    ASSUME NEW r \in Row, Billed(r)
    PROVE  /\ Closed(r) \in Row /\ Invoiced(Closed(r)) = Invoiced(r) /\ Billed(Closed(r))
           /\ IsLive(Closed(r)) => IsLive(r) /\ ~IsDue(r)
<1>1. \A st \in {"expired", "grace"} :
          [r EXCEPT !.st = st] \in Row /\ Invoiced([r EXCEPT !.st = st]) = Invoiced(r)
          /\ [r EXCEPT !.st = st].st = st /\ [r EXCEPT !.st = st].inv = r.inv
    BY DEF Row, Invoiced, LeaseStatus, Live
<1>2. CASE IsDue(r)
    <2>1. Closed(r) = [r EXCEPT !.st = "expired"]
        BY <1>2 DEF Closed
    <2>2. QED
        BY <1>1, <2>1 DEF Billed, IsLive, Live
<1>3. CASE ~IsDue(r)
    <2>1. \/ Closed(r) = r
          \/ Closed(r) = [r EXCEPT !.st = "expired"]
          \/ r.st = "past_due" /\ Closed(r) = [r EXCEPT !.st = "grace"]
        <3>1. CASE r.st \in {"past_due", "grace"} /\ r.inv = "open" /\ r.late = 2
            <4>1. Dunned(r) = [r EXCEPT !.st = "expired"]
                BY <3>1 DEF Dunned
            <4>2. QED
                BY <1>3, <4>1 DEF Closed
        <3>2. CASE r.st = "past_due" /\ r.inv = "open" /\ r.late = 1
            BY <1>3, <3>2 DEF Closed, Dunned
        <3>3. CASE /\ ~(r.st \in {"past_due", "grace"} /\ r.inv = "open" /\ r.late = 2)
                   /\ ~(r.st = "past_due" /\ r.inv = "open" /\ r.late = 1)
            <4>1. Dunned(r) = r
                BY <3>3, Zenon DEF Dunned
            <4>2. QED
                BY <1>3, <4>1 DEF Closed
        <3>4. QED
            BY <3>1, <3>2, <3>3, Zenon
    <2>2. QED
        BY <1>1, <1>3, <2>1 DEF Billed, IsLive, Live
<1>4. QED
    BY <1>2, <1>3

LEMMA CloseRows ==
    ASSUME NEW rows \in Seq(Row), Orderly(rows)
    PROVE  LET closed == [i \in DOMAIN rows |-> Closed(rows[i])]
           IN  /\ closed \in Seq(Row) /\ Orderly(closed) /\ Debt(closed) = Debt(rows) /\ Len(closed) = Len(rows)
               /\ (\E i \in DOMAIN rows : IsDue(rows[i])) => \A i \in 1 .. Len(closed) : ~IsLive(closed[i])
<1> DEFINE closed == [i \in DOMAIN rows |-> Closed(rows[i])]
<1>1. \A i \in DOMAIN rows : rows[i] \in Row /\ Billed(rows[i])
    BY DEF Orderly
<1>2. DOMAIN closed = 1 .. Len(rows) /\ closed = [i \in 1 .. Len(rows) |-> closed[i]]
      /\ \A i \in DOMAIN rows : closed[i] = Closed(rows[i])
    OBVIOUS
<1> HIDE DEF closed
<1>3. ASSUME NEW i \in 1 .. Len(rows)
      PROVE  /\ closed[i] \in Row /\ Invoiced(closed[i]) = Invoiced(rows[i]) /\ Billed(closed[i])
             /\ IsLive(closed[i]) => IsLive(rows[i]) /\ ~IsDue(rows[i])
    <2>1. i \in DOMAIN rows
        OBVIOUS
    <2>2. rows[i] \in Row /\ Billed(rows[i])
        BY <1>1, <2>1, Zenon
    <2>3. closed[i] = Closed(rows[i])
        BY <1>2, <2>1, Zenon
    <2>4. QED
        BY <2>2, <2>3, ClosedRow
<1>4. closed \in Seq(Row) /\ Len(closed) = Len(rows)
    BY <1>2, <1>3
<1>5. Orderly(closed)
    BY <1>2, <1>3 DEF Orderly
<1>6. Debt(closed) = Debt(rows)
    BY <1>3, <1>4, DebtSame
<1>7. ASSUME NEW i \in DOMAIN rows, IsDue(rows[i]), NEW j \in 1 .. Len(rows), IsLive(closed[j]) PROVE FALSE
    <2>1. IsLive(rows[i])
        BY <1>7 DEF IsDue, IsLive, Live
    <2>2. IsLive(rows[j]) /\ ~IsDue(rows[j])
        BY <1>3, <1>7
    <2>3. i = j
        BY <2>1, <2>2 DEF Orderly
    <2>4. QED
        BY <1>7, <2>2, <2>3
<1>8. QED
    BY <1>4, <1>5, <1>6, <1>7 DEF closed

LEMMA DebtInt == ASSUME NEW rows \in Seq(Row) PROVE Debt(rows) \in Int
<1> DEFINE n == Len(rows)
           f == [i \in 1 .. n |-> Invoiced(rows[i])]
<1>1. n \in Nat /\ IsFiniteSet(1 .. n) /\ DOMAIN rows = 1 .. n
    BY FS_Interval
<1>2. \A i \in 1 .. n : f[i] \in Int
    BY InvoicedNat
<1>3. Debt(rows) = SumFunctionOnSet(f, 1 .. n)
    BY <1>1 DEF Debt, SumFunction
<1>4. SumFunctionOnSet(f, 1 .. n) \in Int
    <2> HIDE DEF f, n
    <2>1. QED
        BY <1>1, <1>2, SumInt
<1>5. QED
    BY <1>3, <1>4

-----------------------------------------------------------------------------
(* The steps.  A request for another plan, or a new price, disturbs none   *)
(* of the rows; everything else edits one row, replaces the live one, or   *)
(* closes periods.                                                         *)

AccountsInv == SubscriptionsTypeOK /\ \A o \in Lessees : Orderly(lease[o]) /\ owed[o] = Debt(lease[o])

(* The rows and the debt of one office change together.                    *)
LEMMA OneOffice ==
    ASSUME AccountsInv, NEW o \in Lessees, NEW rows \in Seq(Row), Orderly(rows),
           lease' = [lease EXCEPT ![o] = rows], NEW x \in Int, owed' = [owed EXCEPT ![o] = @ + x],
           Debt(rows) = Debt(lease[o]) + x,
           banked' \in [Lessees -> Nat], price' \in [Plans -> Nat], agreed' \in [Lessees -> SUBSET Plans],
           wish' \in [Lessees -> {NoWish} \cup [plan : Plans, mode : ChangeModes, renew : BOOLEAN]]
    PROVE  AccountsInv'
<1> USE DEF AccountsInv, SubscriptionsTypeOK
<1>1. lease' \in [Lessees -> Seq(Row)] /\ owed' \in [Lessees -> Int]
    OBVIOUS
<1>2. ASSUME NEW q \in Lessees PROVE Orderly(lease'[q]) /\ owed'[q] = Debt(lease'[q])
    <2>1. CASE q = o
        <3>1. lease'[q] = rows /\ owed'[q] = owed[o] + x
            BY <2>1
        <3>2. QED
            BY <3>1
    <2>2. CASE q # o
        <3>1. lease'[q] = lease[q] /\ owed'[q] = owed[q]
            BY <2>2
        <3>2. QED
            BY <3>1
    <2>3. QED
        BY <2>1, <2>2
<1>3. QED
    BY <1>1, <1>2

LEMMA ReplaceStep ==
    ASSUME AccountsInv, NEW o \in Lessees, NEW r \in Row, Billed(r), Replace(o, r),
           UNCHANGED price, agreed' \in [Lessees -> SUBSET Plans],
           wish' \in [Lessees -> {NoWish} \cup [plan : Plans, mode : ChangeModes, renew : BOOLEAN]]
    PROVE  AccountsInv'
<1> DEFINE rows == Append(CancelLive(lease[o]), r)
<1>1. lease[o] \in Seq(Row) /\ Orderly(lease[o])
    BY DEF AccountsInv, SubscriptionsTypeOK
<1>2. rows \in Seq(Row) /\ Orderly(rows) /\ Debt(rows) = Debt(lease[o]) + Invoiced(r)
    BY <1>1, ReplaceRows
<1>3. lease' = [lease EXCEPT ![o] = rows] /\ owed' = [owed EXCEPT ![o] = @ + Invoiced(r)]
    BY DEF Replace
<1>4. Invoiced(r) \in Int /\ r.cost \in Nat
    BY InvoicedNat DEF Row
<1>5. price' \in [Plans -> Nat] /\ banked' \in [Lessees -> Nat]
    BY <1>4 DEF Replace, AccountsInv, SubscriptionsTypeOK
<1> HIDE DEF rows
<1>6. QED
    BY <1>2, <1>3, <1>4, <1>5, OneOffice

LEMMA EditStepRows ==
    ASSUME AccountsInv, NEW o \in Lessees, NEW i \in DOMAIN lease[o], NEW r \in Row, Billed(r),
           IsLive(r) => IsLive(lease[o][i]),
           lease' = [lease EXCEPT ![o] = [lease[o] EXCEPT ![i] = r]],
           NEW x \in Int, owed' = [owed EXCEPT ![o] = @ + x], x = Invoiced(r) - Invoiced(lease[o][i]),
           banked' \in [Lessees -> Nat], UNCHANGED <<price, wish, agreed>>
    PROVE  AccountsInv'
<1> DEFINE rows == [lease[o] EXCEPT ![i] = r]
<1>1. lease[o] \in Seq(Row) /\ Orderly(lease[o])
    BY DEF AccountsInv, SubscriptionsTypeOK
<1>2. rows \in Seq(Row) /\ Orderly(rows)
    BY <1>1, EditRows
<1>3. Debt(rows) = Debt(lease[o]) - Invoiced(lease[o][i]) + Invoiced(r)
    BY <1>1, DebtEdit
<1>4. Debt(lease[o]) \in Int /\ Invoiced(r) \in Int /\ Invoiced(lease[o][i]) \in Int
    BY <1>1, DebtInt, InvoicedNat
<1>5. lease' = [lease EXCEPT ![o] = rows]
    OBVIOUS
<1>6. /\ price' \in [Plans -> Nat] /\ agreed' \in [Lessees -> SUBSET Plans]
      /\ wish' \in [Lessees -> {NoWish} \cup [plan : Plans, mode : ChangeModes, renew : BOOLEAN]]
    BY DEF AccountsInv, SubscriptionsTypeOK
<1> HIDE DEF rows
<1>7. Debt(rows) = Debt(lease[o]) + x
    BY <1>3, <1>4
<1>8. QED
    BY <1>2, <1>5, <1>6, <1>7, OneOffice

LEMMA DueStep == ASSUME AccountsInv, ProcessDue PROVE AccountsInv'
<1> USE DEF AccountsInv, SubscriptionsTypeOK
<1>1. PICK plan \in [Lessees -> Plans] :
          /\ lease' = [o \in Lessees |->
                 LET closed == [i \in DOMAIN lease[o] |-> Closed(lease[o][i])]
                 IN  IF Renews(o) THEN Append(closed, Renewed(plan[o])) ELSE closed]
          /\ owed' = [o \in Lessees |-> owed[o] + (IF Renews(o) THEN Invoiced(Renewed(plan[o])) ELSE 0)]
          /\ agreed' = [o \in Lessees |-> IF Renews(o) THEN agreed[o] \ {plan[o]} ELSE agreed[o]]
          /\ UNCHANGED <<price, wish, banked>>
    BY DEF ProcessDue
<1>2. ASSUME NEW o \in Lessees
      PROVE  /\ lease'[o] \in Seq(Row) /\ owed'[o] \in Int
             /\ Orderly(lease'[o]) /\ owed'[o] = Debt(lease'[o])
    <2> DEFINE closed == [i \in DOMAIN lease[o] |-> Closed(lease[o][i])]
    <2>1. lease[o] \in Seq(Row) /\ Orderly(lease[o])
        OBVIOUS
    <2>2. /\ closed \in Seq(Row) /\ Orderly(closed) /\ Debt(closed) = Debt(lease[o])
          /\ (\E i \in DOMAIN lease[o] : IsDue(lease[o][i]))
             => \A i \in 1 .. Len(closed) : ~IsLive(closed[i])
        BY <2>1, CloseRows
    <2>3. /\ lease'[o] = IF Renews(o) THEN Append(closed, Renewed(plan[o])) ELSE closed
          /\ owed'[o] = owed[o] + (IF Renews(o) THEN Invoiced(Renewed(plan[o])) ELSE 0)
        BY <1>1
    <2> HIDE DEF closed
    <2>4. CASE Renews(o)
        <3>1. \A i \in 1 .. Len(closed) : ~IsLive(closed[i])
            BY <2>2, <2>4 DEF Renews, DueOf
        <3>2. Renewed(plan[o]) \in Row /\ Billed(Renewed(plan[o]))
            BY RenewedType
        <3>3. /\ Append(closed, Renewed(plan[o])) \in Seq(Row)
              /\ Orderly(Append(closed, Renewed(plan[o])))
              /\ Debt(Append(closed, Renewed(plan[o]))) = Debt(closed) + Invoiced(Renewed(plan[o]))
            BY <2>2, <3>1, <3>2, OrderlyAppend, DebtAppend
        <3>4. Invoiced(Renewed(plan[o])) \in Int
            BY <3>2, InvoicedNat
        <3>5. QED
            BY <2>2, <2>3, <2>4, <3>3, <3>4
    <2>5. CASE ~Renews(o)
        BY <2>2, <2>3, <2>5
    <2>6. QED
        BY <2>4, <2>5
<1>3. lease' = [o \in Lessees |-> lease'[o]] /\ owed' = [o \in Lessees |-> owed'[o]]
    BY <1>1
<1>4. agreed' \in [Lessees -> SUBSET Plans]
    BY <1>1
<1>5. lease' \in [Lessees -> Seq(Row)] /\ owed' \in [Lessees -> Int]
    BY <1>2, <1>3, Zenon
<1>6. QED
    BY <1>1, <1>2, <1>4, <1>5

LEMMA PaidRowKeeps ==
    ASSUME NEW r \in Row, r.inv = "open", Billed(r)
    PROVE  PaidRow(r) \in Row /\ Billed(PaidRow(r)) /\ Invoiced(PaidRow(r)) = 0
           /\ (IsLive(PaidRow(r)) => IsLive(r))
BY DEF Row, PaidRow, Billed, Invoiced, IsLive, Live, LeaseStatus, InvoiceStatus

LEMMA EditedRowKeeps ==
    ASSUME NEW r \in Row, Billed(r)
    PROVE  /\ \A st \in {"void", "uncollectible"} : r.inv = "open" =>
                  /\ [r EXCEPT !.inv = st] \in Row /\ Billed([r EXCEPT !.inv = st])
                  /\ Invoiced([r EXCEPT !.inv = st]) = 0
                  /\ IsLive([r EXCEPT !.inv = st]) => IsLive(r)
           /\ /\ [r EXCEPT !.over = TRUE] \in Row /\ Billed([r EXCEPT !.over = TRUE])
              /\ Invoiced([r EXCEPT !.over = TRUE]) = Invoiced(r)
              /\ IsLive([r EXCEPT !.over = TRUE]) => IsLive(r)
           /\ r.late < 2 =>
                  /\ [r EXCEPT !.late = @ + 1] \in Row /\ Billed([r EXCEPT !.late = @ + 1])
                  /\ Invoiced([r EXCEPT !.late = @ + 1]) = Invoiced(r)
                  /\ IsLive([r EXCEPT !.late = @ + 1]) => IsLive(r)
<1> USE DEF Row, Billed, Invoiced, IsLive, Live, LeaseStatus, InvoiceStatus
<1>1. ASSUME NEW st \in {"void", "uncollectible"}, r.inv = "open"
      PROVE  /\ [r EXCEPT !.inv = st] \in Row /\ Billed([r EXCEPT !.inv = st])
             /\ Invoiced([r EXCEPT !.inv = st]) = 0
             /\ IsLive([r EXCEPT !.inv = st]) => IsLive(r)
    BY <1>1
<1>2. /\ [r EXCEPT !.over = TRUE] \in Row /\ Billed([r EXCEPT !.over = TRUE])
      /\ Invoiced([r EXCEPT !.over = TRUE]) = Invoiced(r)
      /\ IsLive([r EXCEPT !.over = TRUE]) => IsLive(r)
    OBVIOUS
<1>3. ASSUME r.late < 2
      PROVE  /\ [r EXCEPT !.late = @ + 1] \in Row /\ Billed([r EXCEPT !.late = @ + 1])
             /\ Invoiced([r EXCEPT !.late = @ + 1]) = Invoiced(r)
             /\ IsLive([r EXCEPT !.late = @ + 1]) => IsLive(r)
    BY <1>3
<1>4. QED
    BY <1>1, <1>2, <1>3

LEMMA AccountsStep == AccountsInv /\ [SubscriptionsNext]_bVars => AccountsInv'
<1> SUFFICES ASSUME AccountsInv, [SubscriptionsNext]_bVars PROVE AccountsInv'
    OBVIOUS
<1>0. /\ price \in [Plans -> Nat] /\ lease \in [Lessees -> Seq(Row)] /\ agreed \in [Lessees -> SUBSET Plans]
      /\ wish \in [Lessees -> {NoWish} \cup [plan : Plans, mode : ChangeModes, renew : BOOLEAN]]
      /\ owed \in [Lessees -> Int] /\ banked \in [Lessees -> Nat]
      /\ \A o \in Lessees : Orderly(lease[o])
    BY DEF AccountsInv, SubscriptionsTypeOK
<1>r. ASSUME NEW o \in Lessees, NEW i \in DOMAIN lease[o]
      PROVE  lease[o][i] \in Row /\ Billed(lease[o][i]) /\ Invoiced(lease[o][i]) \in Int
    BY <1>0, InvoicedNat DEF Orderly
<1>1. CASE UNCHANGED bVars
    BY <1>1 DEF bVars, AccountsInv, SubscriptionsTypeOK
<1>2. ASSUME NEW o \in Lessees, NEW p \in Plans, NEW renew \in BOOLEAN, StartTrial(o, p, renew)
      PROVE  AccountsInv'
    <2>1. Trial(p, renew) \in Row /\ Billed(Trial(p, renew))
        BY <1>0, TrialType
    <2>2. Replace(o, Trial(p, renew)) /\ UNCHANGED <<price, wish, agreed>>
        BY <1>2 DEF StartTrial
    <2>3. QED
        BY <1>0, <2>1, <2>2, ReplaceStep
<1>3. ASSUME NEW o \in Lessees, NEW p \in Plans, NEW renew \in BOOLEAN, NEW reference \in BOOLEAN,
             AssignSubscription(o, p, reference, renew)
      PROVE  AccountsInv'
    <2> DEFINE r == AssignedWith(NewRow("active", p, renew), reference)
    <2>1. r \in Row /\ Billed(r)
        BY <1>0, AssignedType
    <2>2. Replace(o, r) /\ UNCHANGED <<price, wish, agreed>>
        BY <1>3 DEF AssignSubscription
    <2> HIDE DEF r
    <2>3. QED
        BY <1>0, <2>1, <2>2, ReplaceStep
<1>4. ASSUME NEW o \in Lessees, NEW i \in DOMAIN lease[o], PayInvoice(o, i) PROVE AccountsInv'
    <2> DEFINE r == lease[o][i]
               x == 0 - r.cost
    <2>1. r \in Row /\ r.inv = "open" /\ Billed(r) /\ r.cost \in Nat /\ Invoiced(r) = r.cost
        BY <1>4, <1>r DEF PayInvoice, Row, Invoiced
    <2>2. PaidRow(r) \in Row /\ Billed(PaidRow(r)) /\ Invoiced(PaidRow(r)) = 0
          /\ (IsLive(PaidRow(r)) => IsLive(r))
        BY <2>1, PaidRowKeeps
    <2>3. x \in Int /\ x = Invoiced(PaidRow(r)) - Invoiced(r)
        BY <2>1, <2>2
    <2>4. lease' = [lease EXCEPT ![o] = [lease[o] EXCEPT ![i] = PaidRow(r)]]
        BY <1>4 DEF PayInvoice
    <2>5. owed' = [owed EXCEPT ![o] = @ + x]
        <3>1. owed' = [owed EXCEPT ![o] = owed[o] - r.cost]
            BY <1>4 DEF PayInvoice
        <3>2. owed[o] - r.cost = owed[o] + x
            BY <1>0, <2>1
        <3>3. QED
            BY <3>1, <3>2
    <2>6. banked' \in [Lessees -> Nat] /\ UNCHANGED <<price, wish, agreed>>
        BY <1>0, <1>4, <2>1 DEF PayInvoice
    <2> HIDE DEF x
    <2>7. QED
        BY <2>1, <2>2, <2>3, <2>4, <2>5, <2>6, EditStepRows
<1>5. ASSUME NEW o \in Lessees, NEW i \in DOMAIN lease[o], NEW st \in {"void", "uncollectible"},
             CloseInvoice(o, i, st)
      PROVE  AccountsInv'
    <2> DEFINE r == lease[o][i]
               shut == [r EXCEPT !.inv = st]
               x == 0 - r.cost
    <2>1. r \in Row /\ r.inv = "open" /\ Billed(r) /\ r.cost \in Nat /\ Invoiced(r) = r.cost
        BY <1>5, <1>r DEF CloseInvoice, Row, Invoiced
    <2>2. shut \in Row /\ Billed(shut) /\ Invoiced(shut) = 0 /\ (IsLive(shut) => IsLive(r))
        BY <2>1, EditedRowKeeps
    <2>3. x \in Int /\ x = Invoiced(shut) - Invoiced(r)
        BY <2>1, <2>2
    <2>4. lease' = [lease EXCEPT ![o] = [lease[o] EXCEPT ![i] = shut]]
        BY <1>5 DEF CloseInvoice
    <2>5. owed' = [owed EXCEPT ![o] = @ + x]
        <3>1. owed' = [owed EXCEPT ![o] = owed[o] - r.cost]
            BY <1>5 DEF CloseInvoice, Reversed
        <3>2. owed[o] - r.cost = owed[o] + x
            BY <1>0, <2>1
        <3>3. QED
            BY <3>1, <3>2
    <2>6. banked' \in [Lessees -> Nat] /\ UNCHANGED <<price, wish, agreed>>
        BY <1>0, <1>5, <2>1 DEF CloseInvoice
    <2> HIDE DEF x, shut
    <2>7. QED
        BY <2>1, <2>2, <2>3, <2>4, <2>5, <2>6, EditStepRows
<1>6. ASSUME NEW o \in Lessees, PeriodEnds(o) \/ InvoiceAges(o) PROVE AccountsInv'
    <2>1. PICK i \in DOMAIN lease[o] :
              \/ lease' = [lease EXCEPT ![o][i].over = TRUE]
              \/ lease[o][i].late < 2 /\ lease' = [lease EXCEPT ![o][i].late = @ + 1]
        BY <1>6 DEF PeriodEnds, InvoiceAges
    <2> DEFINE r == lease[o][i]
    <2>2. r \in Row /\ Billed(r) /\ Invoiced(r) \in Int
        BY <1>r
    <2>3. PICK later : /\ later \in Row /\ Billed(later) /\ Invoiced(later) = Invoiced(r)
                       /\ IsLive(later) => IsLive(r)
                       /\ lease' = [lease EXCEPT ![o] = [lease[o] EXCEPT ![i] = later]]
        <3>1. CASE lease' = [lease EXCEPT ![o][i].over = TRUE]
            <4>1. lease' = [lease EXCEPT ![o] = [lease[o] EXCEPT ![i] = [r EXCEPT !.over = TRUE]]]
                BY <3>1
            <4>2. QED
                BY <2>2, <4>1, EditedRowKeeps
        <3>2. CASE r.late < 2 /\ lease' = [lease EXCEPT ![o][i].late = @ + 1]
            <4>1. lease' = [lease EXCEPT ![o] = [lease[o] EXCEPT ![i] = [r EXCEPT !.late = @ + 1]]]
                BY <3>2
            <4>2. QED
                BY <2>2, <3>2, <4>1, EditedRowKeeps
        <3>3. QED
            BY <2>1, <3>1, <3>2
    <2> DEFINE x == 0
    <2>4. /\ x \in Int /\ owed' = [owed EXCEPT ![o] = @ + x] /\ x = Invoiced(later) - Invoiced(r)
          /\ banked' \in [Lessees -> Nat] /\ UNCHANGED <<price, wish, agreed>>
        BY <1>0, <1>6, <2>2, <2>3 DEF PeriodEnds, InvoiceAges
    <2> HIDE DEF x
    <2>5. /\ later \in Row /\ Billed(later) /\ (IsLive(later) => IsLive(lease[o][i]))
          /\ lease' = [lease EXCEPT ![o] = [lease[o] EXCEPT ![i] = later]]
        BY <2>3
    <2>6. QED
        BY <2>4, <2>5, EditStepRows
<1>7. ASSUME NEW o \in Lessees, NEW p \in Plans, NEW m \in ChangeModes, RequestChange(o, p, m)
      PROVE  AccountsInv'
    <2>1. PICK i \in DOMAIN lease[o] :
              wish' = [wish EXCEPT ![o] = [plan |-> p, mode |-> m, renew |-> lease[o][i].renew]]
        BY <1>7 DEF RequestChange, Current
    <2>2. lease[o][i].renew \in BOOLEAN
        BY <1>r DEF Row
    <2>3. wish' \in [Lessees -> {NoWish} \cup [plan : Plans, mode : ChangeModes, renew : BOOLEAN]]
        BY <1>0, <2>1, <2>2
    <2>4. QED
        BY <1>7, <2>3 DEF RequestChange, AccountsInv, SubscriptionsTypeOK
<1>8. ASSUME NEW o \in Lessees, RejectChange(o) PROVE AccountsInv'
    <2>1. wish' \in [Lessees -> {NoWish} \cup [plan : Plans, mode : ChangeModes, renew : BOOLEAN]]
        BY <1>0, <1>8 DEF RejectChange
    <2>2. QED
        BY <1>8, <2>1 DEF RejectChange, AccountsInv, SubscriptionsTypeOK
<1>9. ASSUME NEW o \in Lessees, NEW reference \in BOOLEAN, ApproveChange(o, reference) PROVE AccountsInv'
    <2>1. wish[o] \in [plan : Plans, mode : ChangeModes, renew : BOOLEAN]
        BY <1>0, <1>9 DEF ApproveChange
    <2>2. wish[o].plan \in Plans /\ wish[o].renew \in BOOLEAN
        BY <2>1
    <2>3. wish' \in [Lessees -> {NoWish} \cup [plan : Plans, mode : ChangeModes, renew : BOOLEAN]]
        BY <1>0, <1>9 DEF ApproveChange
    <2> DEFINE r == AssignedWith(NewRow("active", wish[o].plan, wish[o].renew), reference)
    <2>4. CASE Replace(o, r) /\ UNCHANGED agreed
        <3>1. r \in Row /\ Billed(r)
            BY <1>0, <2>2, AssignedType
        <3>2. UNCHANGED price /\ agreed' \in [Lessees -> SUBSET Plans]
            BY <1>0, <1>9, <2>4 DEF ApproveChange
        <3> HIDE DEF r
        <3>3. QED
            BY <2>3, <2>4, <3>1, <3>2, ReplaceStep
    <2>5. CASE agreed' = [agreed EXCEPT ![o] = @ \cup {wish[o].plan}] /\ UNCHANGED <<lease, owed, banked>>
        <3>1. agreed' \in [Lessees -> SUBSET Plans]
            BY <1>0, <2>2, <2>5
        <3>2. QED
            BY <1>9, <2>3, <2>5, <3>1 DEF ApproveChange, AccountsInv, SubscriptionsTypeOK
    <2>6. QED
        BY <1>9, <2>4, <2>5 DEF ApproveChange
<1>10. ASSUME NEW p \in Plans, NEW x \in Prices, UpdatePlan(p, x) PROVE AccountsInv'
    <2>1. price' \in [Plans -> Nat]
        BY <1>0, <1>10, SubscriptionsAssumption DEF UpdatePlan
    <2>2. QED
        BY <1>10, <2>1 DEF UpdatePlan, AccountsInv, SubscriptionsTypeOK
<1>11. CASE ProcessDue
    BY <1>11, DueStep
<1>12. QED
    BY Zenon, <1>1, <1>2, <1>3, <1>4, <1>5, <1>6, <1>7, <1>8, <1>9, <1>10, <1>11 DEF SubscriptionsNext

LEMMA AccountsInit == SubscriptionsInit => AccountsInv
<1> SUFFICES ASSUME SubscriptionsInit PROVE AccountsInv
    OBVIOUS
<1>1. << >> \in Seq(Row) /\ Orderly(<< >>)
    BY DEF Orderly
<1>2. Debt(<< >>) = 0
    <2>1. \A x \in DOMAIN << >> : FALSE
        OBVIOUS
    <2> DEFINE f == [i \in DOMAIN << >> |-> Invoiced(<< >>[i])]
    <2>2. DOMAIN f = {}
        BY <2>1
    <2>3. Debt(<< >>) = SumFunctionOnSet(f, DOMAIN f)
        BY DEF Debt, SumFunction
    <2> HIDE DEF f
    <2>4. SumFunctionOnSet(f, DOMAIN f) = SumFunctionOnSet(f, {})
        BY <2>2, Zenon
    <2>5. QED
        BY <2>3, <2>4, SumEmpty
<1>3. SubscriptionsTypeOK
    BY <1>1, SubscriptionsAssumption DEF SubscriptionsInit, SubscriptionsTypeOK
<1>4. QED
    BY <1>1, <1>2, <1>3 DEF SubscriptionsInit, AccountsInv

LEMMA AccountsHold == AccountsInv => SubscriptionsAreAccounted
<1> SUFFICES ASSUME AccountsInv PROVE SubscriptionsAreAccounted
    OBVIOUS
<1>1. OwesItsOpenInvoices
    BY DEF AccountsInv, OwesItsOpenInvoices, Debt
<1>2. OneLiveAndBilled
    BY DEF AccountsInv, OneLiveAndBilled, Orderly, Billed, Current
<1>3. QED
    BY <1>1, <1>2 DEF SubscriptionsAreAccounted

(* For any offices and plans, and however often a price changes: an office *)
(* owes its open invoices, and has one live subscription, whose status     *)
(* says what became of its invoice.                                        *)
THEOREM OfficesAreAccounted == SubscriptionsSpec => []SubscriptionsTypeOK /\ []SubscriptionsAreAccounted
<1>1. AccountsInv => SubscriptionsTypeOK
    BY DEF AccountsInv
<1>2. QED
    BY <1>1, AccountsInit, AccountsStep, AccountsHold, PTL DEF SubscriptionsSpec

-----------------------------------------------------------------------------
(* OFFICES                                                                 *)

DepositType == deposit \in [Deposits -> [st : DepositStatus, by : Names, ok : Names, cooled : BOOLEAN]]

LEMMA DepositStep ==
    ASSUME DepositType, NEW a \in Deposits,
           \/ \E u \in Staff : RequestPayout(u, a) \/ ApprovePayout(u, a)
           \/ CoolingEnds(a) \/ ActivatePayout(a)
    PROVE  DepositType'
<1> USE DEF DepositType, DepositStatus, Names
<1>1. ASSUME NEW u \in Staff, RequestPayout(u, a) PROVE DepositType'
    BY <1>1 DEF RequestPayout
<1>2. ASSUME NEW u \in Staff, ApprovePayout(u, a) PROVE DepositType'
    BY <1>2 DEF ApprovePayout
<1>3. CASE CoolingEnds(a)
    BY <1>3 DEF CoolingEnds
<1>4. CASE ActivatePayout(a)
    BY <1>4 DEF ActivatePayout, Activated
<1>5. QED
    BY <1>1, <1>2, <1>3, <1>4

LEMMA OfficesTypeInit == OfficesInit => OfficesTypeOK
BY OfficesAssumption DEF OfficesInit, OfficesTypeOK, OfficeStatus, CaseStatus, Critical, DepositStatus,
   Names, NoCommand, NoDeposit, NoSanction

(* What the verification command makes of the case and of the office.      *)
LEMMA VerificationType ==
    ASSUME OfficesTypeOK, NEW u \in Staff, EndVerification(u)
    PROVE  /\ case' \in [st : CaseStatus, ver : 1 .. MaxCase, reviewer : Names, enhanced : BOOLEAN]
           /\ office' \in OfficeStatus
<1>1. /\ case \in [st : CaseStatus, ver : 1 .. MaxCase, reviewer : Names, enhanced : BOOLEAN]
      /\ office \in OfficeStatus /\ reading[u] \in [cmd : Commands, saw : OfficeStatus]
    BY DEF OfficesTypeOK, EndVerification
<1>2. CASE UNCHANGED <<case, office>>
    BY <1>1, <1>2
<1>3. CASE /\ case.st \in From[reading[u].cmd] /\ Permits(u, reading[u].cmd)
           /\ reading[u].cmd = "resubmit" => case.ver < MaxCase
           /\ case' = [case EXCEPT !.st = To[reading[u].cmd],
                                   !.ver = IF reading[u].cmd = "resubmit" THEN @ + 1 ELSE @,
                                   !.reviewer = CASE reading[u].cmd = "start_review" -> u
                                                  [] reading[u].cmd = "resubmit" -> Nobody
                                                  [] OTHER -> @]
           /\ office' = OfficeAfter(reading[u].cmd, reading[u].saw)
    <2> DEFINE cmd == reading[u].cmd
    <2>1. OfficeAfter(cmd, reading[u].saw) \in OfficeStatus
        BY <1>1 DEF OfficeAfter, OfficeStatus
    <2>2. cmd \in Commands
        BY <1>1
    <2>3. To[cmd] \in CaseStatus
        BY <2>2 DEF To, Commands, CaseStatus
    <2>4. (IF cmd = "resubmit" THEN case.ver + 1 ELSE case.ver) \in 1 .. MaxCase
        BY <1>1, <1>3, OfficesAssumption
    <2>5. (CASE cmd = "start_review" -> u [] cmd = "resubmit" -> Nobody [] OTHER -> case.reviewer) \in Names
        BY <1>1 DEF Names
    <2> HIDE DEF cmd
    <2>6. QED
        BY <1>1, <1>3, <2>1, <2>3, <2>4, <2>5 DEF cmd
<1>4. QED
    BY <1>2, <1>3 DEF EndVerification

LEMMA OfficesTypeStep == OfficesTypeOK /\ [OfficesNext]_oVars => OfficesTypeOK'
<1> SUFFICES ASSUME OfficesTypeOK, [OfficesNext]_oVars PROVE OfficesTypeOK'
    OBVIOUS
<1> USE OfficesAssumption DEF OfficesTypeOK
<1>1. CASE UNCHANGED oVars
    BY <1>1 DEF oVars
<1>2. ASSUME NEW u \in Staff, NEW cmd \in Commands, BeginVerification(u, cmd) PROVE OfficesTypeOK'
    BY <1>2 DEF BeginVerification
<1>3. ASSUME NEW u \in Staff, EndVerification(u) PROVE OfficesTypeOK'
    <2>1. UNCHANGED <<papers, sanction, deposit>> /\ reading' = [reading EXCEPT ![u] = NoCommand]
        BY <1>3 DEF EndVerification
    <2>2. QED
        BY <1>3, <2>1, VerificationType
<1>4. ASSUME NEW u \in Staff, NEW g \in Sanctions, NEW st \in Critical, AskSanction(u, g, st)
      PROVE  OfficesTypeOK'
    BY <1>4 DEF AskSanction, Names
<1>5. ASSUME NEW u \in Staff, NEW g \in Sanctions, NEW yes \in BOOLEAN, DecideSanction(u, g, yes)
      PROVE  OfficesTypeOK'
    <2>1. office' \in OfficeStatus
        BY <1>5 DEF DecideSanction, Critical, OfficeStatus
    <2> DEFINE st == IF yes THEN "executed" ELSE "rejected"
               Approvals == [st : {"none", "pending", "rejected", "executed"}, to : Critical, by : Names, ok : Names]
    <2>2. sanction' = [sanction EXCEPT ![g].st = st, ![g].ok = u]
        BY <1>5 DEF DecideSanction
    <2>3. sanction' \in [Sanctions -> Approvals]
        <3>1. st \in {"none", "pending", "rejected", "executed"} /\ u \in Names
            BY DEF Names
        <3> HIDE DEF st
        <3>2. [sanction[g] EXCEPT !.st = st, !.ok = u] \in Approvals
            BY <3>1
        <3>3. sanction' = [sanction EXCEPT ![g] = [sanction[g] EXCEPT !.st = st, !.ok = u]]
            BY <2>2
        <3> HIDE DEF Approvals
        <3>4. sanction \in [Sanctions -> Approvals]
            BY DEF Approvals
        <3>5. QED
            BY <3>2, <3>3, <3>4
    <2>4. QED
        BY <1>5, <2>1, <2>3 DEF DecideSanction
<1>6. ASSUME NEW u \in Staff, NEW a \in Deposits,
             RequestPayout(u, a) \/ ApprovePayout(u, a) \/ CoolingEnds(a) \/ ActivatePayout(a)
      PROVE  OfficesTypeOK'
    <2>1. UNCHANGED reviewVars
        BY <1>6 DEF RequestPayout, ApprovePayout, CoolingEnds, ActivatePayout
    <2>2. deposit' \in [Deposits -> [st : DepositStatus, by : Names, ok : Names, cooled : BOOLEAN]]
        BY <1>6, DepositStep DEF DepositType
    <2>3. QED
        BY <2>1, <2>2 DEF reviewVars
<1>7. ASSUME NEW st \in {"pending", "verified", "expired"}, Document(st) PROVE OfficesTypeOK'
    BY <1>7 DEF Document
<1>8. ASSUME NEW st \in PlatformStatus, SetStatus(st) PROVE OfficesTypeOK'
    BY <1>8 DEF SetStatus, PlatformStatus, OfficeStatus
<1>9. ASSUME NEW a \in Deposits, CoolingEnds(a) \/ ActivatePayout(a) PROVE OfficesTypeOK'
    <2>1. UNCHANGED reviewVars
        BY <1>9 DEF CoolingEnds, ActivatePayout
    <2>2. deposit' \in [Deposits -> [st : DepositStatus, by : Names, ok : Names, cooled : BOOLEAN]]
        BY <1>9, DepositStep DEF DepositType
    <2>3. QED
        BY <2>1, <2>2 DEF reviewVars
<1> HIDE DEF OfficesTypeOK
<1>10. QED
    BY <1>1, <1>2, <1>3, <1>4, <1>5, <1>6, <1>7, <1>8, <1>9 DEF OfficesNext

(* The office, its verification, its sanctions and its accounts keep their *)
(* types: a command that is under way is never without a name, so what it  *)
(* makes of a case and of the office is always a status.                   *)
THEOREM OfficesTypeCorrect == OfficesSpec => []OfficesTypeOK
<1>1. QED
    BY OfficesTypeInit, OfficesTypeStep, PTL DEF OfficesSpec

-----------------------------------------------------------------------------
(* The payout accounts.  One active account is no invariant by itself      *)
(* that says who chose it: an account keeps the approver it had when it    *)
(* was verified, while its cooling time runs.                              *)

ChosenByTwo(a) == deposit[a].st \in {"verified", "active"} => deposit[a].ok \notin {Nobody, deposit[a].by}
OneIsActive == \A a, b \in Deposits : deposit[a].st = "active" /\ deposit[b].st = "active" => a = b

PayoutInv == DepositType /\ OneIsActive /\ \A a \in Deposits : ChosenByTwo(a)

LEMMA PayoutStep ==
    ASSUME PayoutInv, [OfficesNext]_oVars
    PROVE  PayoutInv'
<1> USE OfficesAssumption DEF PayoutInv, DepositType, DepositStatus, Names, OneIsActive, ChosenByTwo, Nobody
<1>1. ASSUME UNCHANGED deposit PROVE PayoutInv'
    <2>1. DepositType' /\ OneIsActive'
        BY <1>1
    <2>2. \A a \in Deposits : ChosenByTwo(a)'
        BY <1>1
    <2>3. QED
        BY <2>1, <2>2
<1>2. ASSUME NEW u \in Staff, NEW a \in Deposits, RequestPayout(u, a) PROVE PayoutInv'
    BY <1>2 DEF RequestPayout
<1>3. ASSUME NEW u \in Staff, NEW a \in Deposits, ApprovePayout(u, a) PROVE PayoutInv'
    BY <1>3 DEF ApprovePayout
<1>4. ASSUME NEW a \in Deposits, CoolingEnds(a) PROVE PayoutInv'
    BY <1>4 DEF CoolingEnds
<1>5. ASSUME NEW a \in Deposits, ActivatePayout(a) PROVE PayoutInv'
    <2>1. /\ deposit' = [b \in Deposits |->
                 IF b = a THEN [deposit[b] EXCEPT !.st = "active"]
                 ELSE IF deposit[b].st = "active" THEN [deposit[b] EXCEPT !.st = "replaced"]
                 ELSE deposit[b]]
          /\ deposit[a].st = "verified"
        BY <1>5 DEF ActivatePayout, Activated
    <2>2. DepositType'
        BY <2>1
    <2>3. \A b \in Deposits : b # a => deposit'[b].st # "active"
        BY <2>1
    <2>4. \A b \in Deposits : ChosenByTwo(b)'
        BY <2>1
    <2>5. QED
        BY <2>2, <2>3, <2>4
<1>6. QED
    BY <1>1, <1>2, <1>3, <1>4, <1>5 DEF OfficesNext, oVars, reviewVars,
       BeginVerification, EndVerification, Document, SetStatus, AskSanction, DecideSanction

LEMMA PayoutInit == OfficesInit => PayoutInv
BY OfficesAssumption DEF OfficesInit, PayoutInv, DepositType, DepositStatus, OneIsActive, ChosenByTwo,
   Names, NoDeposit, Nobody

LEMMA PayoutHolds == PayoutInv => OnePayoutAccount
<1> SUFFICES ASSUME PayoutInv PROVE OnePayoutAccount
    OBVIOUS
<1> DEFINE paidTo == {a \in Deposits : deposit[a].st = "active"}
<1>1. Cardinality(paidTo) <= 1
    <2>1. CASE paidTo = {}
        BY <2>1, FS_EmptySet
    <2>2. CASE paidTo # {}
        <3>1. PICK a : a \in paidTo
            BY <2>2
        <3>2. paidTo = {a}
            BY <3>1 DEF PayoutInv, OneIsActive
        <3>3. Cardinality({a}) = 1
            BY FS_Singleton
        <3>4. Cardinality(paidTo) = 1
            BY <3>2, <3>3, Zenon
        <3>5. QED
            BY <3>4
    <2>3. QED
        BY <2>1, <2>2
<1>2. \A a \in paidTo : deposit[a].ok \notin {Nobody, deposit[a].by}
    BY DEF PayoutInv, ChosenByTwo
<1>3. QED
    BY <1>1, <1>2 DEF OnePayoutAccount

(* However requests, approvals and cooling times overlap, at most one      *)
(* account is paid, and two people chose it.                               *)
THEOREM OneAccountIsPaid == OfficesSpec => []OnePayoutAccount
<1>1. QED
    BY PayoutInit, PayoutStep, PayoutHolds, PTL DEF OfficesSpec

-----------------------------------------------------------------------------
(* The status of the office.  A critical status may come back from the     *)
(* memory of a reviewer's command, so what holds of the office must hold   *)
(* of every status that is remembered; an executed approval never changes. *)

SanctionInv ==
    /\ office \in Critical => ByTwo(office)
    /\ \A u \in Staff : reading[u].saw \in Critical => ByTwo(reading[u].saw)
    /\ \A g \in Sanctions : sanction[g].st = "pending" => sanction[g].by # Nobody

SanctionType ==
    /\ reading \in [Staff -> {NoCommand} \cup [cmd : Commands, saw : OfficeStatus]]
    /\ sanction \in [Sanctions -> [st : {"none", "pending", "rejected", "executed"}, to : Critical,
                                   by : Names, ok : Names]]

(* What two people decided stays decided.                                  *)
LEMMA DecidedStays ==
    ASSUME NEW st,
           \A g \in Sanctions : sanction[g].st = "executed" => sanction'[g] = sanction[g],
           ByTwo(st)
    PROVE  ByTwo(st)'
BY DEF ByTwo

LEMMA SanctionStep ==
    ASSUME OfficesTypeOK, SanctionInv, [OfficesNext]_oVars PROVE SanctionInv'
<1>0. SanctionType
    BY DEF OfficesTypeOK, SanctionType
<1>1. \A g \in Sanctions : sanction[g].st = "executed" => sanction'[g] = sanction[g]
    <2>1. ASSUME NEW u \in Staff, NEW h \in Sanctions, NEW st \in Critical, AskSanction(u, h, st)
          PROVE  \A g \in Sanctions : sanction[g].st = "executed" => sanction'[g] = sanction[g]
        BY <1>0, <2>1 DEF AskSanction, SanctionType
    <2>2. ASSUME NEW u \in Staff, NEW h \in Sanctions, NEW yes \in BOOLEAN, DecideSanction(u, h, yes)
          PROVE  \A g \in Sanctions : sanction[g].st = "executed" => sanction'[g] = sanction[g]
        BY <1>0, <2>2 DEF DecideSanction, MayDecide, SanctionType
    <2>3. CASE sanction' = sanction
        BY <2>3
    <2>4. QED
        BY <2>1, <2>2, <2>3 DEF OfficesNext, oVars, reviewVars, BeginVerification, EndVerification, Document,
           SetStatus, RequestPayout, ApprovePayout, CoolingEnds, ActivatePayout
<1>2. ASSUME NEW st, ByTwo(st) PROVE ByTwo(st)'
    BY <1>1, <1>2, DecidedStays
<1>3. CASE UNCHANGED <<office, reading, sanction>>
    BY <1>2, <1>3 DEF SanctionInv
<1>4. ASSUME NEW u \in Staff, NEW cmd \in Commands, BeginVerification(u, cmd) PROVE SanctionInv'
    <2>1. \A v \in Staff : reading'[v].saw \in {reading[v].saw, office}
        BY <1>0, <1>4 DEF BeginVerification, SanctionType
    <2>2. office' = office /\ sanction' = sanction
        BY <1>4 DEF BeginVerification
    <2>3. QED
        BY <1>2, <2>1, <2>2 DEF SanctionInv
<1>5. ASSUME NEW u \in Staff, EndVerification(u) PROVE SanctionInv'
    <2>1. sanction' = sanction /\ reading' = [reading EXCEPT ![u] = NoCommand]
        BY <1>5 DEF EndVerification
    <2>2. \A v \in Staff : reading'[v].saw \in {reading[v].saw, "draft"}
        BY <1>0, <2>1 DEF NoCommand, SanctionType
    <2>3. office' \in {office, OfficeAfter(reading[u].cmd, reading[u].saw)}
        BY <1>5 DEF EndVerification
    <2>4. office' \in Critical => office' \in {office, reading[u].saw}
        BY <2>3 DEF OfficeAfter, Critical
    <2>5. office' \in Critical => ByTwo(office')
        BY <2>4 DEF SanctionInv
    <2>6. ASSUME NEW v \in Staff, reading'[v].saw \in Critical PROVE ByTwo(reading'[v].saw)
        BY <2>2, <2>6 DEF SanctionInv, Critical
    <2>7. QED
        BY <2>1, <2>5, <2>6 DEF SanctionInv, ByTwo
<1>6. ASSUME NEW st \in PlatformStatus, SetStatus(st) PROVE SanctionInv'
    <2>1. office' \notin Critical /\ sanction' = sanction /\ reading' = reading
        BY <1>6 DEF SetStatus, PlatformStatus, Critical
    <2>2. QED
        BY <1>2, <2>1 DEF SanctionInv
<1>7. ASSUME NEW u \in Staff, NEW h \in Sanctions, NEW st \in Critical, AskSanction(u, h, st)
      PROVE  SanctionInv'
    <2>1. office' = office /\ reading' = reading
        BY <1>7 DEF AskSanction
    <2>2. \A g \in Sanctions : sanction'[g].st = "pending" => sanction'[g].by # Nobody
        BY <1>0, <1>7, OfficesAssumption DEF AskSanction, SanctionInv, SanctionType, Nobody
    <2>3. QED
        BY <1>2, <2>1, <2>2 DEF SanctionInv
<1>8. ASSUME NEW u \in Staff, NEW h \in Sanctions, NEW yes \in BOOLEAN, DecideSanction(u, h, yes)
      PROVE  SanctionInv'
    <2>1. /\ reading' = reading /\ sanction[h].st = "pending" /\ sanction[h].by # u
          /\ sanction' = [sanction EXCEPT ![h].st = IF yes THEN "executed" ELSE "rejected", ![h].ok = u]
          /\ office' = IF yes THEN sanction[h].to ELSE office
        BY <1>8 DEF DecideSanction, MayDecide
    <2>2. \A g \in Sanctions : sanction'[g].st = "pending" => sanction'[g].by # Nobody
        BY <1>0, <2>1 DEF SanctionInv, SanctionType
    <2>3. CASE yes
        <3>1. /\ sanction'[h].st = "executed" /\ sanction'[h].to = sanction[h].to
              /\ sanction'[h].by = sanction[h].by /\ sanction'[h].ok = u
            BY <1>0, <2>1, <2>3 DEF SanctionType
        <3>2. u # Nobody /\ sanction[h].by # Nobody
            BY <2>1, OfficesAssumption DEF SanctionInv, Nobody
        <3>3. office' = sanction[h].to
            BY <2>1, <2>3
        <3>4. \E g \in Sanctions :
                  /\ sanction'[g].st = "executed" /\ sanction'[g].to = office'
                  /\ sanction'[g].by # sanction'[g].ok /\ Nobody \notin {sanction'[g].by, sanction'[g].ok}
            BY <2>1, <3>1, <3>2, <3>3
        <3>5. (office \in Critical => ByTwo(office))'
            BY <3>4 DEF ByTwo
        <3>6. QED
            BY <1>2, <2>1, <2>2, <3>5 DEF SanctionInv
    <2>4. CASE ~yes
        BY <1>2, <2>1, <2>2, <2>4 DEF SanctionInv
    <2>5. QED
        BY <2>3, <2>4
<1>9. QED
    BY <1>3, <1>4, <1>5, <1>6, <1>7, <1>8 DEF OfficesNext, oVars, reviewVars, Document,
       RequestPayout, ApprovePayout, CoolingEnds, ActivatePayout

LEMMA SanctionStart == OfficesInit => SanctionInv
BY DEF OfficesInit, SanctionInv, NoCommand, NoSanction, Critical

(* Nobody suspends or terminates an office alone, nor does a command that  *)
(* saves what it read, however old.                                        *)
THEOREM SanctionsAreShared == OfficesSpec => []SanctionedByTwo
<1>1. SanctionInv => SanctionedByTwo
    BY DEF SanctionInv, SanctionedByTwo
<1>2. QED
    BY OfficesTypeInit, OfficesTypeStep, SanctionStart, SanctionStep, <1>1, PTL DEF OfficesSpec

-----------------------------------------------------------------------------
(* OUTBOX                                                                  *)

(* LostIsTakenUp is inductive once the attempts are known to be sequences: *)
(* an attempt that is not the last may fail again, which leaves the last   *)
(* as it is, and the last fails for good only with its escalation.         *)

TriesType == tries \in [Messages -> Seq(Try)]

Taken(m) ==
    tries[m] # << >> /\ tries[m][Len(tries[m])].st = "failed" =>
        /\ m \in escalated
        /\ HasFallback(m) => tries[FallbackOf(m)] # << >>

TakenInv == TriesType /\ \A m \in Messages : Taken(m)

LEMMA FallbackIsAMessage == ASSUME NEW m \in Messages PROVE FallbackOf(m) \in Messages
BY DEF Messages, FallbackOf

LEMMA FirstTryType == FirstTry \in Seq(Try) /\ FirstTry # << >> /\ FirstTry[Len(FirstTry)].st = "queued"
                      /\ FirstTry[1] \in Try
<1>1. [st |-> "queued", permanent |-> FALSE, due |-> TRUE] \in Try
    BY DEF Try
<1>2. QED
    BY <1>1 DEF FirstTry

(* The step of one message: its attempts end as they did, or end queued,   *)
(* or it is escalated with its fallback; nothing is forgotten.             *)
LEMMA KeepsTaken ==
    ASSUME TakenInv, TriesType', escalated \subseteq escalated',
           \A n \in Messages : tries[n] # << >> => tries'[n] # << >>,
           NEW m \in Messages,
           \/ tries'[m] = tries[m]
           \/ tries[m] # << >> /\ Len(tries'[m]) = Len(tries[m])
                /\ tries'[m][Len(tries'[m])].st = tries[m][Len(tries[m])].st
           \/ tries'[m][Len(tries'[m])].st # "failed"
           \/ m \in escalated' /\ (HasFallback(m) => tries'[FallbackOf(m)] # << >>)
    PROVE  Taken(m)'
<1>1. Taken(m)
    BY DEF TakenInv
<1>2. FallbackOf(m) \in Messages
    BY FallbackIsAMessage
<1>3. HasFallback(m)' = HasFallback(m) /\ FallbackOf(m)' = FallbackOf(m)
    BY DEF HasFallback, FallbackOf
<1>4. QED
    BY <1>1, <1>2, <1>3 DEF Taken

LEMMA FailureStep ==
    ASSUME TakenInv, NEW m \in Messages, NEW i \in DOMAIN tries[m], NEW permanent \in BOOLEAN,
           DeliveryFails(m, i, permanent)
    PROVE  TakenInv'
<1> DEFINE failed == [tries[m] EXCEPT ![i] = [@ EXCEPT !.st = "failed", !.permanent = permanent]]
           again == IF ~Exhausted(i, permanent) /\ Len(failed) = i
                    THEN Append(failed, [FirstTry[1] EXCEPT !.due = FALSE]) ELSE failed
<1>1. tries[m] \in Seq(Try) /\ i \in 1 .. Len(tries[m])
    BY DEF TakenInv, TriesType
<1>2. [tries[m][i] EXCEPT !.st = "failed", !.permanent = permanent] \in Try
    <2>1. tries[m][i] \in Try
        BY <1>1
    <2>2. \A t \in Try : [t EXCEPT !.st = "failed", !.permanent = permanent] \in Try
        BY DEF Try
    <2>3. QED
        BY <2>1, <2>2
<1>3. /\ failed \in Seq(Try) /\ Len(failed) = Len(tries[m])
      /\ \A j \in 1 .. Len(tries[m]) : j # i => failed[j] = tries[m][j]
    BY <1>1, <1>2
<1>4. [FirstTry[1] EXCEPT !.due = FALSE] \in Try /\ [FirstTry[1] EXCEPT !.due = FALSE].st = "queued"
    BY DEF Try, FirstTry
<1>5. again \in Seq(Try) /\ Len(again) >= Len(tries[m])
    BY <1>3, <1>4
<1>6. \/ Len(again) = Len(tries[m]) /\ again[Len(again)].st = tries[m][Len(tries[m])].st
      \/ again[Len(again)].st # "failed"
      \/ Exhausted(i, permanent)
    <2>1. CASE ~Exhausted(i, permanent) /\ Len(failed) = i
        BY <1>3, <1>4, <2>1
    <2>2. CASE Len(failed) # i
        BY <1>1, <1>3, <2>2
    <2>3. QED
        BY <2>1, <2>2
<1>7. tries' = [n \in Messages |->
          CASE n = m -> again
            [] HasFallback(m) /\ Exhausted(i, permanent) /\ n = FallbackOf(m) /\ tries[n] = << >> -> FirstTry
            [] OTHER -> tries[n]]
    BY DEF DeliveryFails
<1>8. \A n \in Messages : n # m => tries'[n] = tries[n] \/ tries'[n] = FirstTry
    BY <1>7
<1>9. tries'[m] = again
    BY <1>7
<1>10. TriesType'
    <2>1. \A n \in Messages : tries'[n] \in Seq(Try)
        BY <1>5, <1>8, <1>9, FirstTryType DEF TakenInv, TriesType
    <2>2. QED
        BY <1>7, <2>1 DEF TriesType
<1>11. \A n \in Messages : tries[n] # << >> => tries'[n] # << >>
    <2>1. again # << >>
        BY <1>1, <1>5
    <2>2. QED
        BY <1>8, <1>9, <2>1, FirstTryType
<1>12. escalated \subseteq escalated' /\ (Exhausted(i, permanent) => m \in escalated')
    BY DEF DeliveryFails, Told
<1>13. Exhausted(i, permanent) /\ HasFallback(m) => tries'[FallbackOf(m)] # << >>
    <2>1. FallbackOf(m) \in Messages
        BY FallbackIsAMessage
    <2>2. HasFallback(m) => FallbackOf(m) # m
        BY DEF HasFallback, FallbackOf, Messages
    <2>3. QED
        BY <1>7, <2>1, <2>2, FirstTryType
<1>14. \A n \in Messages : Taken(n)'
    <2>1. Taken(m)'
        <3>1. tries[m] # << >>
            BY <1>1
        <3>2. QED
            BY <1>6, <1>9, <1>10, <1>11, <1>12, <1>13, <3>1, KeepsTaken
    <2>2. ASSUME NEW n \in Messages, n # m PROVE Taken(n)'
        <3>1. tries'[n] = tries[n] \/ tries'[n][Len(tries'[n])].st # "failed"
            BY <1>8, <2>2, FirstTryType
        <3>2. QED
            BY <1>10, <1>11, <1>12, <3>1, KeepsTaken
    <2>3. QED
        BY <2>1, <2>2
<1>15. QED
    BY <1>10, <1>14 DEF TakenInv

(* The other ways to write one attempt leave its status, or deliver it.    *)
LEMMA EditStep ==
    ASSUME TakenInv, NEW m \in Messages, NEW i \in DOMAIN tries[m], NEW t \in Try,
           tries' = [tries EXCEPT ![m][i] = t], UNCHANGED escalated,
           t.st # "failed" \/ t.st = tries[m][i].st
    PROVE  TakenInv'
<1>1. tries[m] \in Seq(Try) /\ i \in 1 .. Len(tries[m])
    BY DEF TakenInv, TriesType
<1>2. /\ tries'[m] \in Seq(Try) /\ Len(tries'[m]) = Len(tries[m])
      /\ tries'[m][i] = t /\ \A j \in 1 .. Len(tries[m]) : j # i => tries'[m][j] = tries[m][j]
    BY <1>1 DEF TakenInv, TriesType
<1>3. \A n \in Messages : n # m => tries'[n] = tries[n]
    BY DEF TakenInv, TriesType
<1>4. TriesType'
    BY <1>2, <1>3 DEF TakenInv, TriesType
<1>5. \A n \in Messages : tries[n] # << >> => tries'[n] # << >>
    BY <1>1, <1>2, <1>3
<1>6. Taken(m)'
    <2>1. CASE i = Len(tries[m])
        BY <1>1, <1>2, <1>4, <1>5, <2>1, KeepsTaken
    <2>2. CASE i # Len(tries[m])
        BY <1>1, <1>2, <1>4, <1>5, <2>2, KeepsTaken
    <2>3. QED
        BY <2>1, <2>2
<1>7. \A n \in Messages : n # m => Taken(n)'
    BY <1>3, <1>4, <1>5, KeepsTaken
<1>8. QED
    BY <1>4, <1>6, <1>7 DEF TakenInv

LEMMA TakenStep == TakenInv /\ [OutboxNext]_nVars => TakenInv'
<1> SUFFICES ASSUME TakenInv, [OutboxNext]_nVars PROVE TakenInv'
    OBVIOUS
<1>1. ASSUME UNCHANGED <<tries, escalated>> PROVE TakenInv'
    <2>1. TriesType'
        BY <1>1 DEF TakenInv, TriesType
    <2>2. \A m \in Messages : Taken(m)'
        BY <1>1, <2>1, KeepsTaken
    <2>3. QED
        BY <2>1, <2>2 DEF TakenInv
<1>2. ASSUME Dispatch PROVE TakenInv'
    <2>1. /\ \A m \in Messages : tries'[m] = tries[m] \/ tries'[m] = FirstTry
          /\ tries' = [m \in Messages |-> tries'[m]]
          /\ UNCHANGED escalated
        BY <1>2 DEF Dispatch
    <2>2. TriesType'
        BY <2>1, FirstTryType DEF TakenInv, TriesType
    <2>3. \A m \in Messages : tries[m] # << >> => tries'[m] # << >>
        BY <2>1, FirstTryType
    <2>4. ASSUME NEW m \in Messages PROVE Taken(m)'
        <3>1. tries'[m] = tries[m] \/ tries'[m][Len(tries'[m])].st # "failed"
            BY <2>1, FirstTryType
        <3>2. QED
            BY <2>1, <2>2, <2>3, <3>1, KeepsTaken
    <2>5. QED
        BY <2>2, <2>4 DEF TakenInv
<1>3. ASSUME NEW m \in Messages, NEW i \in DOMAIN tries[m], DeliverySucceeds(m, i) PROVE TakenInv'
    <2>1. tries[m][i] \in Try
        BY DEF TakenInv, TriesType
    <2>2. [tries[m][i] EXCEPT !.st = "delivered"] \in Try
          /\ [tries[m][i] EXCEPT !.st = "delivered"].st = "delivered"
        BY <2>1 DEF Try
    <2>3. tries' = [tries EXCEPT ![m][i] = [tries[m][i] EXCEPT !.st = "delivered"]]
        BY <1>3 DEF DeliverySucceeds
    <2>4. UNCHANGED escalated
        BY <1>3 DEF DeliverySucceeds
    <2>5. QED
        BY <2>2, <2>3, <2>4, EditStep
<1>4. ASSUME NEW m \in Messages, NEW i \in DOMAIN tries[m], DeliveryIsLost(m, i) PROVE TakenInv'
    BY <1>1, <1>4 DEF DeliveryIsLost
<1>5. ASSUME NEW m \in Messages, NEW i \in DOMAIN tries[m], NEW permanent \in BOOLEAN,
             DeliveryFails(m, i, permanent)
      PROVE  TakenInv'
    BY <1>5, FailureStep
<1>6. ASSUME NEW m \in Messages, BackoffEnds(m) PROVE TakenInv'
    <2>1. PICK i \in DOMAIN tries[m] : tries' = [tries EXCEPT ![m][i].due = TRUE]
        BY <1>6 DEF BackoffEnds
    <2>2. tries[m][i] \in Try
        BY DEF TakenInv, TriesType
    <2>3. [tries[m][i] EXCEPT !.due = TRUE] \in Try
          /\ [tries[m][i] EXCEPT !.due = TRUE].st = tries[m][i].st
        BY <2>2 DEF Try
    <2>4. tries' = [tries EXCEPT ![m][i] = [tries[m][i] EXCEPT !.due = TRUE]]
        BY <2>1
    <2>5. UNCHANGED escalated
        BY <1>6 DEF BackoffEnds
    <2>6. QED
        BY <2>3, <2>4, <2>5, EditStep
<1>7. QED
    BY <1>1, <1>2, <1>3, <1>4, <1>5, <1>6 DEF OutboxNext, nVars, Emit, Mute

LEMMA TakenInit == OutboxInit => TakenInv
BY DEF OutboxInit, TakenInv, TriesType, Taken

LEMMA TakenHolds == TakenInv => LostIsTakenUp
BY DEF TakenInv, Taken, LostIsTakenUp, Last

-----------------------------------------------------------------------------
(* The attempts at a message are bounded: a new one is made only after the *)
(* last one, and never after the one whose number is the maximum.          *)

Bounded == \A m \in Messages : Len(tries[m]) <= MaxAttempts

LEMMA OneMessage ==
    ASSUME TriesType, Bounded, NEW m \in Messages, NEW i \in DOMAIN tries[m], NEW t \in Try,
           tries' = [tries EXCEPT ![m][i] = t]
    PROVE  Bounded'
<1>1. \A n \in Messages : Len(tries'[n]) = Len(tries[n])
    <2>1. tries[m] \in Seq(Try)
        BY DEF TriesType
    <2>2. [tries[m] EXCEPT ![i] = t] \in Seq(Try) /\ Len([tries[m] EXCEPT ![i] = t]) = Len(tries[m])
        BY <2>1
    <2>3. tries'[m] = [tries[m] EXCEPT ![i] = t] /\ \A n \in Messages : n # m => tries'[n] = tries[n]
        BY DEF TriesType
    <2>4. QED
        BY <2>2, <2>3
<1>2. QED
    BY <1>1 DEF Bounded

LEMMA BoundedStep ==
    ASSUME TriesType, Bounded, [OutboxNext]_nVars
    PROVE  Bounded'
<1> USE OutboxAssumption
<1>0. \A m \in Messages : tries[m] \in Seq(Try)
    BY DEF TriesType
<1>1. CASE UNCHANGED tries
    BY <1>1 DEF Bounded
<1>2. CASE Dispatch
    <2>1. \A m \in Messages : tries'[m] = tries[m] \/ tries'[m] = FirstTry
        BY <1>2 DEF Dispatch
    <2>2. Len(FirstTry) = 1
        BY DEF FirstTry
    <2>3. ASSUME NEW m \in Messages PROVE Len(tries'[m]) <= MaxAttempts
        <3>1. Len(tries[m]) <= MaxAttempts /\ 1 <= MaxAttempts
            BY DEF Bounded
        <3>2. tries'[m] = tries[m] \/ tries'[m] = FirstTry
            BY <2>1
        <3>3. QED
            BY <2>2, <3>1, <3>2, Zenon
    <2>4. QED
        BY <2>3 DEF Bounded
<1>3. ASSUME NEW m \in Messages, NEW i \in DOMAIN tries[m], DeliverySucceeds(m, i) PROVE Bounded'
    <2>1. tries' = [tries EXCEPT ![m][i] = [tries[m][i] EXCEPT !.st = "delivered"]]
        BY <1>3 DEF DeliverySucceeds
    <2>2. [tries[m][i] EXCEPT !.st = "delivered"] \in Try
        <3>1. tries[m][i] \in Try
            BY <1>0
        <3>2. \A t \in Try : [t EXCEPT !.st = "delivered"] \in Try
            BY DEF Try
        <3>3. QED
            BY <3>1, <3>2
    <2>3. QED
        BY <2>1, <2>2, OneMessage
<1>4. ASSUME NEW m \in Messages, BackoffEnds(m) PROVE Bounded'
    <2>1. PICK i \in DOMAIN tries[m] : tries' = [tries EXCEPT ![m][i].due = TRUE]
        BY <1>4 DEF BackoffEnds
    <2>2. tries' = [tries EXCEPT ![m][i] = [tries[m][i] EXCEPT !.due = TRUE]]
        BY <2>1
    <2>3. [tries[m][i] EXCEPT !.due = TRUE] \in Try
        <3>1. tries[m][i] \in Try
            BY <1>0
        <3>2. \A t \in Try : [t EXCEPT !.due = TRUE] \in Try
            BY DEF Try
        <3>3. QED
            BY <3>1, <3>2
    <2>4. QED
        BY <2>2, <2>3, OneMessage
<1>5. ASSUME NEW m \in Messages, NEW i \in DOMAIN tries[m], NEW permanent \in BOOLEAN,
             DeliveryFails(m, i, permanent)
      PROVE  Bounded'
    <2> DEFINE failed == [tries[m] EXCEPT ![i] = [@ EXCEPT !.st = "failed", !.permanent = permanent]]
               again == IF ~Exhausted(i, permanent) /\ Len(failed) = i
                        THEN Append(failed, [FirstTry[1] EXCEPT !.due = FALSE]) ELSE failed
    <2>1. tries[m] \in Seq(Try) /\ i \in 1 .. Len(tries[m]) /\ Len(tries[m]) <= MaxAttempts
        BY <1>0 DEF Bounded
    <2>2. [tries[m][i] EXCEPT !.st = "failed", !.permanent = permanent] \in Try
        <3>1. tries[m][i] \in Try
            BY <2>1
        <3>2. \A t \in Try : [t EXCEPT !.st = "failed", !.permanent = permanent] \in Try
            BY DEF Try
        <3>3. QED
            BY <3>1, <3>2
    <2>3. failed \in Seq(Try) /\ Len(failed) = Len(tries[m])
        BY <2>1, <2>2
    <2>4. [FirstTry[1] EXCEPT !.due = FALSE] \in Try
        BY DEF Try, FirstTry
    <2>5. Len(again) <= MaxAttempts
        <3>1. CASE ~Exhausted(i, permanent) /\ Len(failed) = i
            <4>1. i # MaxAttempts
                BY <3>1 DEF Exhausted
            <4>2. Len(again) = Len(failed) + 1
                BY <2>3, <2>4, <3>1
            <4>3. QED
                BY <2>1, <2>3, <3>1, <4>1, <4>2
        <3>2. CASE ~(~Exhausted(i, permanent) /\ Len(failed) = i)
            BY <2>1, <2>3, <3>2
        <3>3. QED
            BY <3>1, <3>2
    <2>6. tries' = [n \in Messages |->
              CASE n = m -> again
                [] HasFallback(m) /\ Exhausted(i, permanent) /\ n = FallbackOf(m) /\ tries[n] = << >> -> FirstTry
                [] OTHER -> tries[n]]
        BY <1>5 DEF DeliveryFails
    <2> HIDE DEF again
    <2>7. \A n \in Messages : n # m => tries'[n] = tries[n] \/ tries'[n] = FirstTry
        BY <2>6
    <2>8. tries'[m] = again
        BY <2>6
    <2>9. Len(FirstTry) = 1
        BY DEF FirstTry
    <2>10. ASSUME NEW n \in Messages PROVE Len(tries'[n]) <= MaxAttempts
        <3>1. Len(tries[n]) <= MaxAttempts /\ 1 <= MaxAttempts
            BY DEF Bounded
        <3>2. tries'[n] = again \/ tries'[n] = tries[n] \/ tries'[n] = FirstTry
            BY <2>7, <2>8
        <3>3. QED
            BY <2>5, <2>9, <3>1, <3>2, Zenon
    <2>11. QED
        BY <2>10 DEF Bounded
<1>6. QED
    BY Zenon, <1>1, <1>2, <1>3, <1>4, <1>5 DEF OutboxNext, nVars, Emit, Mute, DeliveryIsLost

OutboxInv == OutboxTypeOK /\ TakenInv

LEMMA OutboxStep == OutboxInv /\ [OutboxNext]_nVars => OutboxInv'
<1> SUFFICES ASSUME OutboxInv, [OutboxNext]_nVars PROVE OutboxInv'
    OBVIOUS
<1>1. TakenInv'
    BY TakenStep DEF OutboxInv
<1>2. Bounded'
    <2>1. TriesType /\ Bounded
        BY DEF OutboxInv, OutboxTypeOK, TriesType, Bounded
    <2>2. QED
        BY <2>1, BoundedStep
<1>3. /\ event' \in [Events -> {"none", "pending", "published"}]
      /\ escalated' \subseteq Messages /\ given' \in [Messages -> 0 .. MaxSent] /\ muted' \subseteq Meanings
    <2> USE OutboxAssumption DEF OutboxInv, OutboxTypeOK
    <2>1. CASE UNCHANGED nVars
        BY <2>1 DEF nVars
    <2>2. ASSUME NEW e \in Events, Emit(e)
          PROVE  /\ event' \in [Events -> {"none", "pending", "published"}]
                 /\ UNCHANGED <<escalated, given, muted>>
        BY <2>2 DEF Emit
    <2>3. ASSUME NEW k \in Meanings, Mute(k)
          PROVE  UNCHANGED <<event, escalated, given>> /\ muted' \subseteq Meanings
        BY <2>3 DEF Mute
    <2>4. ASSUME Dispatch
          PROVE  /\ event' \in [Events -> {"none", "pending", "published"}]
                 /\ UNCHANGED <<escalated, given, muted>>
        BY <2>4 DEF Dispatch
    <2>5. ASSUME NEW m \in Messages, NEW i \in DOMAIN tries[m], DeliverySucceeds(m, i) \/ DeliveryIsLost(m, i)
          PROVE  UNCHANGED <<event, escalated, muted>> /\ given' \in [Messages -> 0 .. MaxSent]
        <3>1. UNCHANGED <<event, escalated, muted>>
              /\ given[m] < MaxSent /\ given' = [given EXCEPT ![m] = @ + 1]
            BY <2>5 DEF DeliverySucceeds, DeliveryIsLost, Accept
        <3>2. given[m] + 1 \in 0 .. MaxSent
            BY <3>1
        <3>3. QED
            BY <3>1, <3>2
    <2>6. ASSUME NEW m \in Messages, NEW i \in DOMAIN tries[m], NEW permanent \in BOOLEAN,
                 DeliveryFails(m, i, permanent)
          PROVE  UNCHANGED <<event, given, muted>> /\ escalated' \subseteq Messages
        BY <2>6 DEF DeliveryFails, Told
    <2>7. ASSUME NEW m \in Messages, BackoffEnds(m) PROVE UNCHANGED <<event, escalated, given, muted>>
        BY <2>7 DEF BackoffEnds
    <2>8. QED
        BY <2>1, <2>2, <2>3, <2>4, <2>5, <2>6, <2>7 DEF OutboxNext
<1>4. QED
    BY <1>1, <1>2, <1>3 DEF OutboxInv, OutboxTypeOK, TakenInv, TriesType, Bounded

LEMMA OutboxInvInit == OutboxInit => OutboxInv
<1> SUFFICES ASSUME OutboxInit PROVE OutboxInv
    OBVIOUS
<1>1. TakenInv
    BY TakenInit
<1>2. OutboxTypeOK
    <2>1. << >> \in Seq(Try) /\ Len(<< >>) = 0
        OBVIOUS
    <2>2. QED
        BY <2>1, OutboxAssumption DEF OutboxInit, OutboxTypeOK
<1>3. QED
    BY <1>1, <1>2 DEF OutboxInv

(* Events and messages keep their types, and no message is attempted more  *)
(* often than NOTIFICATION_MAX_ATTEMPTS says.                              *)
THEOREM OutboxTypeCorrect == OutboxSpec => []OutboxTypeOK
<1>1. OutboxInv => OutboxTypeOK
    BY DEF OutboxInv
<1>2. QED
    BY <1>1, OutboxInvInit, OutboxStep, PTL DEF OutboxSpec

(* Whatever is sent again, lost or fails, when the last attempt at a       *)
(* message has failed somebody was told and the SMS is on its way.         *)
THEOREM LostMessagesAreTakenUp == OutboxSpec => []LostIsTakenUp
<1>1. QED
    BY TakenInit, TakenStep, TakenHolds, PTL DEF OutboxSpec

-----------------------------------------------------------------------------
(* REQUESTS                                                                *)

LEMMA RequestInitType == RequestPathInit => RequestPathTypeOK
<1> SUFFICES ASSUME RequestPathInit PROVE RequestPathTypeOK
    OBVIOUS
<1> DEFINE dump == [mode |-> "normal", required |-> FALSE, lastRun |-> "none", record |-> {}]
<1>1. "normal" \in Modes /\ "none" \in Runs /\ {} \in SUBSET Record
    BY DEF Modes, Runs
<1>2. dump \in Dump
    BY <1>1 DEF Dump
<1>3. backup \in Dump
    BY <1>2 DEF RequestPathInit
<1>4. QED
    BY <1>1, <1>3 DEF RequestPathInit, RequestPathTypeOK, Phases, NoAnswer

LEMMA RequestNextType == RequestPathTypeOK /\ [RequestPathNext]_qVars => RequestPathTypeOK'
<1> SUFFICES ASSUME RequestPathTypeOK, [RequestPathNext]_qVars PROVE RequestPathTypeOK'
    OBVIOUS
<1> USE DEF RequestPathTypeOK, Modes, Runs, Phases
<1>1. CASE UNCHANGED qVars
    BY <1>1 DEF qVars
<1>2. ASSUME NEW r \in Requests, Admit(r) PROVE RequestPathTypeOK'
    BY <1>2 DEF Admit, modeVars
<1>3. ASSUME NEW r \in Requests, Begin(r) \/ RollBack(r) PROVE RequestPathTypeOK'
    BY <1>3 DEF Begin, RollBack, modeVars
<1>4. ASSUME NEW r \in Requests, Replay(r) PROVE RequestPathTypeOK'
    BY <1>4 DEF Replay, Recorded, Record, modeVars
<1>5. ASSUME NEW r \in Requests, Commit(r) PROVE RequestPathTypeOK'
    <2>1. [key |-> Key[r], body |-> Body[r], by |-> r] \in Record
        BY DEF Keys, Record
    <2>2. record' \subseteq Record
        BY <1>5, <2>1 DEF Commit
    <2>3. QED
        BY <1>5, <2>2 DEF Commit, modeVars
<1>6. CASE Maintenance \/ Recovery \/ Reopen \/ RunReconciliation \/ Repair
    BY <1>6 DEF Maintenance, Recovery, Reopen, Repair, RunReconciliation, requestVars, copyVars, StillRequired
<1>7. CASE Backup
    <2>1. [mode |-> mode, required |-> required, lastRun |-> lastRun, record |-> record] \in Dump
        BY DEF Dump
    <2>2. QED
        BY <1>7, <2>1 DEF Backup, requestVars
<1>8. CASE RestoreDump
    <2>1. /\ backup.mode \in Modes /\ backup.required \in BOOLEAN /\ backup.lastRun \in Runs
          /\ backup.record \subseteq Record
        BY DEF Dump
    <2>2. {d.by : d \in record \ backup.record} \subseteq Requests
        BY DEF Record
    <2>3. QED
        BY <1>8, <2>1, <2>2 DEF RestoreDump
<1>9. QED
    BY <1>1, <1>2, <1>3, <1>4, <1>5, <1>6, <1>7, <1>8 DEF RequestPathNext

(* Phases, operating modes, key records and answers keep their types.      *)
THEOREM RequestTypeCorrect == RequestPathSpec => []RequestPathTypeOK
<1>1. QED
    BY RequestInitType, RequestNextType, PTL DEF RequestPathSpec

-----------------------------------------------------------------------------
(* One effect for a key.  That there is one record for a key follows only  *)
(* from what the insertion of a key does to others that wait for it.       *)

(* Of one scoped key there is one transaction under way or one record.     *)
OneOwner ==
    \A k \in Keys \ Unscoped :
        /\ \A r, s \in Working(k) : r = s
        /\ \A d, e \in Recorded(k) : d = e
        /\ Working(k) # {} => Recorded(k) = {}
(* The dump holds one record of a scoped key too.                          *)
OneInDump == \A d, e \in backup.record : d.key \notin Unscoped /\ d.key = e.key => d = e
(* Who is answered was given the response of a record of its key and body, *)
(* which a restore may have taken back.                                    *)
AnsweredFromRecord ==
    \A r \in Requests : phase[r] = "done" =>
        \/ [key |-> Key[r], body |-> Body[r], by |-> reply[r]] \in record
        \/ reply[r] \in lost

LEMMA NextDump == RequestPathTypeOK /\ OneOwner /\ OneInDump /\ [RequestPathNext]_qVars => OneInDump'
<1> SUFFICES ASSUME RequestPathTypeOK, OneOwner, OneInDump, [RequestPathNext]_qVars PROVE OneInDump'
    OBVIOUS
<1>1. CASE Backup
    <2> SUFFICES ASSUME NEW d \in record, NEW e \in record, d.key \notin Unscoped, d.key = e.key PROVE d = e
        BY <1>1 DEF Backup, OneInDump
    <2>1. d.key \in Keys
        BY DEF RequestPathTypeOK, Record
    <2>2. d \in Recorded(d.key) /\ e \in Recorded(d.key)
        BY DEF Recorded
    <2>3. QED
        BY <2>1, <2>2 DEF OneOwner
<1>2. CASE ~Backup
    <2>1. backup' = backup
        BY <1>2 DEF RequestPathNext, qVars, modeVars, copyVars, Admit, Begin, Replay, Commit, RollBack,
                    Maintenance, Recovery, Reopen, RunReconciliation, RestoreDump, Repair
    <2>2. QED
        BY <2>1 DEF OneInDump
<1>3. QED
    BY <1>1, <1>2

LEMMA NextOwner == RequestPathTypeOK /\ OneOwner /\ OneInDump /\ [RequestPathNext]_qVars => OneOwner'
<1> SUFFICES ASSUME RequestPathTypeOK, OneOwner, OneInDump, [RequestPathNext]_qVars, NEW k \in Keys \ Unscoped
             PROVE  /\ \A r, s \in Working(k)' : r = s
                    /\ \A d, e \in Recorded(k)' : d = e
                    /\ Working(k)' # {} => Recorded(k)' = {}
    BY DEF OneOwner
<1>1. /\ \A r, s \in Working(k) : r = s
      /\ \A d, e \in Recorded(k) : d = e
      /\ Working(k) # {} => Recorded(k) = {}
    BY DEF OneOwner
<1>2. record' = record => Recorded(k)' = Recorded(k)
    BY DEF Recorded
<1>3. phase' = phase => Working(k)' = Working(k)
    BY DEF Working
<1>4. ASSUME NEW r \in Requests, Begin(r) PROVE OneOwner'
    <2> SUFFICES ASSUME NEW j \in Keys \ Unscoped
                 PROVE  /\ \A q, s \in Working(j)' : q = s
                        /\ \A d, e \in Recorded(j)' : d = e
                        /\ Working(j)' # {} => Recorded(j)' = {}
        BY DEF OneOwner
    <2>1. Recorded(j)' = Recorded(j)
        BY <1>4 DEF Begin, Recorded
    <2>2. CASE Key[r] = j
        <3>1. Recorded(j) = {} /\ Working(j) = {}
            BY <1>4, <2>2 DEF Begin, MayInsert
        <3>2. Working(j)' = {r}
            BY <1>4, <2>2, <3>1 DEF Begin, Working, RequestPathTypeOK
        <3>3. QED
            BY <2>1, <3>1, <3>2
    <2>3. CASE Key[r] # j
        <3>1. Working(j)' = Working(j)
            BY <1>4, <2>3 DEF Begin, Working, RequestPathTypeOK
        <3>2. QED
            BY <2>1, <3>1 DEF OneOwner
    <2>4. QED
        BY <2>2, <2>3
<1>5. ASSUME NEW r \in Requests, Commit(r)
      PROVE  /\ \A q, s \in Working(k)' : q = s
             /\ \A d, e \in Recorded(k)' : d = e
             /\ Working(k)' # {} => Recorded(k)' = {}
    <2>1. Working(k)' = Working(k) \ {r}
        BY <1>5 DEF Commit, Working, RequestPathTypeOK
    <2>2. CASE Key[r] = k
        <3>1. r \in Working(k)
            BY <1>5, <2>2 DEF Commit, Working
        <3>2. Working(k)' = {}
            BY <1>1, <2>1, <3>1
        <3>3. Recorded(k)' = {[key |-> Key[r], body |-> Body[r], by |-> r]}
            BY <1>1, <1>5, <2>2, <3>1 DEF Commit, Recorded
        <3>4. QED
            BY <3>2, <3>3
    <2>3. CASE Key[r] # k
        <3>1. Recorded(k)' = Recorded(k)
            BY <1>5, <2>3 DEF Commit, Recorded
        <3>2. QED
            BY <1>1, <2>1, <3>1
    <2>4. QED
        BY <2>2, <2>3
<1>6. ASSUME NEW r \in Requests, Admit(r) \/ Replay(r) \/ RollBack(r)
      PROVE  Working(k)' \subseteq Working(k) /\ record' = record
    BY <1>6 DEF Admit, Replay, RollBack, Working, RequestPathTypeOK
<1>7. CASE UNCHANGED qVars \/ Maintenance \/ Recovery \/ Reopen \/ RunReconciliation \/ Backup \/ Repair
    BY <1>1, <1>2, <1>3, <1>7
    DEF qVars, requestVars, Maintenance, Recovery, Reopen, RunReconciliation, Backup, Repair
<1>8. CASE RestoreDump
    <2>1. Working(k)' = {}
        BY <1>8 DEF RestoreDump, Working
    <2>2. record' = backup.record
        BY <1>8 DEF RestoreDump
    <2>3. \A d, e \in Recorded(k)' : d = e
        BY <2>2 DEF Recorded, OneInDump
    <2>4. QED
        BY <2>1, <2>3
<1>9. QED
    BY <1>1, <1>2, <1>4, <1>5, <1>6, <1>7, <1>8 DEF RequestPathNext, OneOwner

LEMMA NextAnswered ==
    RequestPathTypeOK /\ AnsweredFromRecord /\ [RequestPathNext]_qVars => AnsweredFromRecord'
<1> SUFFICES ASSUME RequestPathTypeOK, AnsweredFromRecord, [RequestPathNext]_qVars,
                    NEW q \in Requests, phase'[q] = "done"
             PROVE  \/ [key |-> Key[q], body |-> Body[q], by |-> reply'[q]] \in record'
                    \/ reply'[q] \in lost'
    BY DEF AnsweredFromRecord
<1>1. phase[q] = "done" => \/ [key |-> Key[q], body |-> Body[q], by |-> reply[q]] \in record
                           \/ reply[q] \in lost
    BY DEF AnsweredFromRecord
<1>2. ASSUME NEW r \in Requests, Admit(r) \/ Begin(r) \/ RollBack(r)
      PROVE  phase[q] = "done" /\ reply' = reply /\ record' = record /\ lost' = lost
    BY <1>2 DEF Admit, Begin, RollBack, RequestPathTypeOK, modeVars
<1>3. ASSUME NEW r \in Requests, Replay(r)
      PROVE  \/ [key |-> Key[q], body |-> Body[q], by |-> reply'[q]] \in record'
             \/ reply'[q] \in lost'
    <2>1. CASE q # r
        BY <1>1, <1>3, <2>1 DEF Replay, RequestPathTypeOK, modeVars
    <2>2. CASE q = r
        <3>1. PICK d \in Recorded(Key[r]) : d.body = Body[r] /\ reply'[r] = d.by
            BY <1>3, <2>2 DEF Replay, RequestPathTypeOK
        <3>2. d \in record /\ d.key = Key[r]
            BY DEF Recorded
        <3>3. d = [key |-> d.key, body |-> d.body, by |-> d.by]
            BY <3>2 DEF RequestPathTypeOK, Record
        <3>4. QED
            BY <1>3, <2>2, <3>1, <3>2, <3>3 DEF Replay
    <2>3. QED
        BY <2>1, <2>2
<1>4. ASSUME NEW r \in Requests, Commit(r)
      PROVE  \/ [key |-> Key[q], body |-> Body[q], by |-> reply'[q]] \in record'
             \/ reply'[q] \in lost'
    BY <1>1, <1>4 DEF Commit, RequestPathTypeOK, modeVars
<1>5. CASE UNCHANGED qVars \/ Maintenance \/ Recovery \/ Reopen \/ RunReconciliation \/ Backup \/ Repair
    BY <1>1, <1>5
    DEF qVars, requestVars, copyVars, Maintenance, Recovery, Reopen, RunReconciliation, Backup, Repair
<1>6. CASE RestoreDump
    <2>1. phase[q] = "done" /\ reply'[q] = reply[q]
        BY <1>6 DEF RestoreDump
    <2>2. /\ record' = backup.record
          /\ lost' = lost \cup {d.by : d \in record \ backup.record}
        BY <1>6 DEF RestoreDump
    <2> DEFINE d == [key |-> Key[q], body |-> Body[q], by |-> reply[q]]
    <2>3. CASE d \in record \ backup.record
        <3>1. d.by \in lost'
            BY <2>2, <2>3
        <3>2. QED
            BY <2>1, <3>1
    <2>4. CASE d \notin record \ backup.record
        BY <1>1, <2>1, <2>2, <2>4
    <2>5. QED
        BY <2>3, <2>4
<1>7. QED
    BY <1>1, <1>2, <1>3, <1>4, <1>5, <1>6 DEF RequestPathNext

LEMMA OwnerOnce == RequestPathTypeOK /\ OneOwner /\ AnsweredFromRecord => OncePerKey
<1> SUFFICES ASSUME RequestPathTypeOK, OneOwner, AnsweredFromRecord, NEW k \in Keys \ Unscoped
             PROVE  /\ Cardinality(Recorded(k)) <= 1
                    /\ \A r \in Requests :
                           Key[r] = k /\ phase[r] = "done" /\ reply[r] \notin lost
                           => \E d \in Recorded(k) : d.body = Body[r] /\ d.by = reply[r]
    BY DEF OncePerKey
<1>1. \A d, e \in Recorded(k) : d = e
    BY DEF OneOwner
<1>2. Cardinality(Recorded(k)) <= 1
    <2>1. CASE Recorded(k) = {}
        BY <2>1, FS_EmptySet
    <2>2. CASE Recorded(k) # {}
        <3>1. PICK d : Recorded(k) = {d}
            BY <1>1, <2>2
        <3>2. Cardinality({d}) = 1
            BY FS_Singleton
        <3>3. QED
            BY <3>1, <3>2
    <2>3. QED
        BY <2>1, <2>2
<1>3. ASSUME NEW r \in Requests, Key[r] = k, phase[r] = "done", reply[r] \notin lost
      PROVE  \E d \in Recorded(k) : d.body = Body[r] /\ d.by = reply[r]
    <2> DEFINE d == [key |-> Key[r], body |-> Body[r], by |-> reply[r]]
    <2>1. d \in Recorded(k)
        BY <1>3 DEF AnsweredFromRecord, Recorded
    <2>2. d.body = Body[r] /\ d.by = reply[r]
        OBVIOUS
    <2>3. QED
        BY <2>1, <2>2
<1>4. QED
    BY <1>2, <1>3

-----------------------------------------------------------------------------
(* A declared recovery is reconciled.  The command asks for a              *)
(* reconciliation, only a passed one withdraws the demand, and a restore   *)
(* takes back command and demand together.                                 *)
ModeInv ==
    declared => /\ mode = "normal" => ~required
                /\ ~required => ~conflicts

LEMMA NextMode == RequestPathTypeOK /\ ModeInv /\ [RequestPathNext]_qVars => ModeInv'
<1> SUFFICES ASSUME RequestPathTypeOK, ModeInv, [RequestPathNext]_qVars PROVE ModeInv'
    OBVIOUS
<1>1. ASSUME NEW r \in Requests, Admit(r) \/ Begin(r) \/ Replay(r) \/ Commit(r) \/ RollBack(r)
      PROVE  UNCHANGED modeVars
    BY <1>1 DEF Admit, Begin, Replay, Commit, RollBack
<1>2. CASE UNCHANGED modeVars
    BY <1>2 DEF modeVars, ModeInv
<1>3. CASE Maintenance \/ Recovery \/ Reopen \/ RunReconciliation
    BY <1>3 DEF Maintenance, Recovery, Reopen, RunReconciliation, StillRequired, ModeInv, RequestPathTypeOK
<1>4. CASE Backup \/ RestoreDump \/ Repair
    BY <1>4 DEF Backup, RestoreDump, Repair, ModeInv
<1>5. QED
    BY <1>1, <1>2, <1>3, <1>4 DEF RequestPathNext, qVars, modeVars

(* Retries never repeat an effect that stands nor get another's response,  *)
(* also across restores, and a recovery that is declared after a restore   *)
(* keeps the writes closed until the restored data pass.                   *)
THEOREM RequestsSafe == RequestPathSpec => []RequestsAreSafe
<1>1. RequestPathInit => OneOwner /\ OneInDump /\ AnsweredFromRecord /\ ModeInv
    BY DEF RequestPathInit, OneOwner, OneInDump, AnsweredFromRecord, ModeInv, Working, Recorded
<1>2. ModeInv => DeclaredIsReconciled
    BY DEF ModeInv, DeclaredIsReconciled
<1>3. QED
    BY <1>1, <1>2, RequestInitType, RequestNextType, NextDump, NextOwner, NextAnswered, NextMode, OwnerOnce, PTL
    DEF RequestPathSpec, RequestsAreSafe

-----------------------------------------------------------------------------
(* CONFIGURATION                                                           *)

LEMMA SettingsInitType == ConfigurationInit => ConfigurationTypeOK
BY DEF ConfigurationInit, ConfigurationTypeOK, ChangeStatus, NoEnd

LEMMA SettingsNextType == ConfigurationTypeOK /\ [ConfigurationNext]_cVars => ConfigurationTypeOK'
<1> SUFFICES ASSUME ConfigurationTypeOK, [ConfigurationNext]_cVars PROVE ConfigurationTypeOK'
    OBVIOUS
<1> USE ConfigurationAssumption DEF ConfigurationTypeOK
<1>1. CASE UNCHANGED cVars
    BY <1>1 DEF cVars
<1>2. CASE Tick
    BY <1>2 DEF Tick
<1>3. ASSUME NEW c \in Changes, NEW u \in Admins, ApproveValue(u, c) PROVE ConfigurationTypeOK'
    BY <1>3 DEF ApproveValue
<1>4. ASSUME NEW c \in Changes, NEW u \in Admins, NEW t \in 1 .. Horizon, Propose(u, c, t)
      PROVE  ConfigurationTypeOK'
    <2>1. [st |-> "pending", from |-> t, to |-> NoEnd, by |-> u]
              \in [st : ChangeStatus, from : Nat, to : Nat, by : Admins]
        BY DEF ChangeStatus, NoEnd
    <2>2. QED
        BY <1>4, <2>1 DEF Propose
<1>5. ASSUME NEW c \in Changes, Find(c) PROVE ConfigurationTypeOK'
    BY <1>5 DEF Find, Newest, OpenEnded, ApprovedValues
<1>6. ASSUME NEW c \in Changes, CommitApproval(c) PROVE ConfigurationTypeOK'
    <2>1. value' \in [Changes -> [st : ChangeStatus, from : Nat, to : Nat, by : Admins]]
        BY <1>6 DEF CommitApproval, EndsWhen, ChangeStatus
    <2>2. found' \in [Changes -> Changes \cup {Idle, Waits, NothingOpen}]
        BY <1>6 DEF CommitApproval
    <2>3. QED
        BY <1>6, <2>1, <2>2 DEF CommitApproval
<1>7. ASSUME NEW c \in Changes, RollBackApproval(c) PROVE ConfigurationTypeOK'
    BY <1>7 DEF RollBackApproval, ChangeStatus
<1>8. QED
    BY <1>1, <1>2, <1>3, <1>4, <1>5, <1>6, <1>7 DEF ConfigurationNext

(* The values of a key keep their types.                                   *)
THEOREM SettingsTypeCorrect == ConfigurationSpec => []ConfigurationTypeOK
<1>1. QED
    BY SettingsInitType, SettingsNextType, PTL DEF ConfigurationSpec

-----------------------------------------------------------------------------
(* That the latest start counts says nothing about approvals under way.    *)
(* What they keep is that a value ends where another approved one starts.  *)

UnderWay == \A c \in Changes : found[c] # Idle => value[c].st = "pending"
ClosesApproved == \A c \in Changes : found[c] \in Changes => value[found[c]].st = "approved"
OnlyApprovedEnd == \A c \in Changes : value[c].st # "approved" => value[c].to = NoEnd
EndsAtAStart ==
    \A c \in ApprovedValues : value[c].to # NoEnd =>
        /\ value[c].from < value[c].to
        /\ \E d \in ApprovedValues : value[d].from = value[c].to

WindowInv == UnderWay /\ ClosesApproved /\ OnlyApprovedEnd /\ EndsAtAStart

(* Approved values stay as they are, so what ends at a start still does.   *)
LEMMA ApprovedKept ==
    ASSUME ConfigurationTypeOK, EndsAtAStart, ApprovedValues' = ApprovedValues,
           \A c \in ApprovedValues : value'[c] = value[c]
    PROVE  EndsAtAStart'
BY DEF EndsAtAStart

LEMMA CommitWindow ==
    ASSUME ConfigurationTypeOK, WindowInv, NEW c \in Changes, CommitApproval(c)
    PROVE  WindowInv'
<1> USE ConfigurationAssumption DEF ConfigurationTypeOK
<1>1. found[c] # Idle /\ value[c].st = "pending" /\ value[c].to = NoEnd /\ value[c].from \in Nat
    BY DEF CommitApproval, WindowInv, UnderWay, OnlyApprovedEnd, Idle, NothingOpen
<1>2. CASE found[c] = NothingOpen /\ value' = [value EXCEPT ![c].st = "approved"]
           /\ found' = [found EXCEPT ![c] = Idle]
    <2>1. /\ \A d \in Changes : d # c => value'[d] = value[d] /\ found'[d] = found[d]
          /\ value'[c].st = "approved" /\ value'[c].to = NoEnd /\ value'[c].from = value[c].from
          /\ found'[c] = Idle
        BY <1>1, <1>2
    <2>2. ApprovedValues' = ApprovedValues \cup {c}
        BY <2>1 DEF ApprovedValues
    <2>3. UnderWay' /\ OnlyApprovedEnd'
        BY <2>1 DEF WindowInv, UnderWay, OnlyApprovedEnd
    <2>4. ClosesApproved'
        BY <2>1 DEF WindowInv, ClosesApproved, Idle
    <2>5. EndsAtAStart'
        BY <1>1, <2>1, <2>2 DEF WindowInv, EndsAtAStart, ApprovedValues
    <2>6. QED
        BY <2>3, <2>4, <2>5 DEF WindowInv
<1>3. ASSUME NEW p \in Changes, found[c] = p, MayEnd(p, EndsWhen(c)),
             value' = [value EXCEPT ![c].st = "approved", ![p].to = EndsWhen(c)],
             NEW missed \in SUBSET Missed(p),
             found' = [d \in Changes |-> CASE d = c -> Idle [] d \in missed -> NothingOpen
                                           [] OTHER -> found[d]]
      PROVE  WindowInv'
    <2>1. value[p].st = "approved" /\ p # c
        BY <1>1, <1>3 DEF WindowInv, ClosesApproved
    <2>2. /\ \A d \in Changes : d # c /\ d # p => value'[d] = value[d]
          /\ value'[c].st = "approved" /\ value'[c].to = NoEnd /\ value'[c].from = value[c].from
          /\ value'[p].st = "approved" /\ value'[p].to = value[c].from
          /\ value'[p].from = value[p].from
        BY <1>1, <1>3, <2>1 DEF EndsWhen
    <2>3. value[p].from < value[c].from
        BY <1>1, <1>3 DEF MayEnd, EndsWhen
    <2>4. ApprovedValues' = ApprovedValues \cup {c}
        BY <2>1, <2>2 DEF ApprovedValues
    <2>a. c \notin missed
        BY <1>3 DEF Missed, Waits
    <2>5. \A d \in Changes : found'[d] = IF d = c THEN Idle
                                        ELSE IF d \in missed THEN NothingOpen ELSE found[d]
        BY <1>3, <2>a
    <2>6. ASSUME NEW d \in Changes, found'[d] # Idle PROVE value[d].st = "pending" /\ d # c
        <3>1. d # c
            BY <2>5, <2>6
        <3>2. CASE d \in missed
            BY <3>1, <3>2 DEF Missed
        <3>3. CASE d \notin missed
            BY <2>5, <2>6, <3>1, <3>3 DEF WindowInv, UnderWay
        <3>4. QED
            BY <3>1, <3>2, <3>3
    <2>7. UnderWay'
        BY <2>1, <2>2, <2>6 DEF UnderWay
    <2>8. OnlyApprovedEnd'
        BY <2>2 DEF WindowInv, OnlyApprovedEnd
    <2>9. ClosesApproved'
        BY <2>1, <2>2, <2>5 DEF WindowInv, ClosesApproved, Idle, NothingOpen
    <2>10. EndsAtAStart'
        BY <1>1, <2>1, <2>2, <2>3, <2>4 DEF WindowInv, EndsAtAStart, ApprovedValues
    <2>11. QED
        BY <2>7, <2>8, <2>9, <2>10 DEF WindowInv
<1>4. QED
    BY <1>2, <1>3 DEF CommitApproval

LEMMA NextWindow == ConfigurationTypeOK /\ WindowInv /\ [ConfigurationNext]_cVars => WindowInv'
<1> SUFFICES ASSUME ConfigurationTypeOK, WindowInv, [ConfigurationNext]_cVars PROVE WindowInv'
    OBVIOUS
<1> USE ConfigurationAssumption DEF ConfigurationTypeOK
<1>1. CASE UNCHANGED cVars \/ Tick
    BY <1>1 DEF cVars, Tick, WindowInv, UnderWay, ClosesApproved, OnlyApprovedEnd, EndsAtAStart, ApprovedValues
<1>2. ASSUME NEW c \in Changes, NEW u \in Admins, ApproveValue(u, c) PROVE WindowInv'
    <2>1. value' = value /\ value[c].st = "pending" /\ found' = [found EXCEPT ![c] = Waits]
        BY <1>2 DEF ApproveValue
    <2>2. UnderWay' /\ ClosesApproved'
        BY <2>1 DEF WindowInv, UnderWay, ClosesApproved, Waits
    <2>3. OnlyApprovedEnd' /\ EndsAtAStart'
        BY <2>1 DEF WindowInv, OnlyApprovedEnd, EndsAtAStart, ApprovedValues
    <2>4. QED
        BY <2>2, <2>3 DEF WindowInv
<1>3. ASSUME NEW c \in Changes, NEW u \in Admins, NEW t \in 1 .. Horizon, Propose(u, c, t)
      PROVE  WindowInv'
    <2>1. /\ value[c].st = "none"
          /\ value' = [value EXCEPT ![c] = [st |-> "pending", from |-> t, to |-> NoEnd, by |-> u]]
          /\ found' = found \/ found' = [found EXCEPT ![c] = Waits]
        BY <1>3 DEF Propose
    <2>2. ApprovedValues' = ApprovedValues /\ c \notin ApprovedValues
        BY <2>1 DEF ApprovedValues
    <2>3. UnderWay'
        BY <2>1 DEF WindowInv, UnderWay
    <2>4. ClosesApproved'
        BY <2>1 DEF WindowInv, ClosesApproved, Waits
    <2>5. OnlyApprovedEnd'
        BY <2>1 DEF WindowInv, OnlyApprovedEnd
    <2>6. \A d \in ApprovedValues : value'[d] = value[d]
        BY <2>1, <2>2 DEF ApprovedValues
    <2>7. EndsAtAStart'
        BY <2>2, <2>6, ApprovedKept DEF WindowInv
    <2>8. QED
        BY <2>3, <2>4, <2>5, <2>7 DEF WindowInv
<1>4. ASSUME NEW c \in Changes, Find(c) PROVE WindowInv'
    <2>1. value' = value /\ value[c].st = "pending"
        BY <1>4 DEF Find, WindowInv, UnderWay, Idle, Waits
    <2>2. found' = [found EXCEPT ![c] = NothingOpen]
          \/ \E p \in ApprovedValues : found' = [found EXCEPT ![c] = p]
        BY <1>4 DEF Find, Newest, OpenEnded
    <2>3. UnderWay' /\ ClosesApproved'
        BY <2>1, <2>2 DEF WindowInv, UnderWay, ClosesApproved, ApprovedValues, NothingOpen
    <2>4. OnlyApprovedEnd' /\ EndsAtAStart'
        BY <2>1 DEF WindowInv, OnlyApprovedEnd, EndsAtAStart, ApprovedValues
    <2>5. QED
        BY <2>3, <2>4 DEF WindowInv
<1>5. ASSUME NEW c \in Changes, CommitApproval(c) PROVE WindowInv'
    BY <1>5, CommitWindow
<1>6. ASSUME NEW c \in Changes, RollBackApproval(c) PROVE WindowInv'
    <2>1. /\ value[c].st = "pending" /\ found' = [found EXCEPT ![c] = Idle]
          /\ value' = value \/ value' = [value EXCEPT ![c].st = "none"]
        BY <1>6 DEF RollBackApproval, WindowInv, UnderWay
    <2>2. ApprovedValues' = ApprovedValues /\ c \notin ApprovedValues
        BY <2>1 DEF ApprovedValues
    <2>3. UnderWay'
        BY <2>1 DEF WindowInv, UnderWay
    <2>4. ClosesApproved'
        BY <2>1 DEF WindowInv, ClosesApproved, Idle
    <2>5. OnlyApprovedEnd'
        BY <2>1 DEF WindowInv, OnlyApprovedEnd
    <2>6. \A d \in ApprovedValues : value'[d] = value[d]
        BY <2>1, <2>2 DEF ApprovedValues
    <2>7. EndsAtAStart'
        BY <2>2, <2>6, ApprovedKept DEF WindowInv
    <2>8. QED
        BY <2>3, <2>4, <2>5, <2>7 DEF WindowInv
<1>7. QED
    BY <1>1, <1>2, <1>3, <1>4, <1>5, <1>6 DEF ConfigurationNext

(* However many approvals overlap, the approved value that started last is *)
(* in force at every instant.                                              *)
THEOREM LatestStartIsInForce == ConfigurationSpec => []LatestStartCounts
<1>1. ConfigurationInit => WindowInv
    BY ConfigurationAssumption
    DEF ConfigurationInit, WindowInv, UnderWay, ClosesApproved, OnlyApprovedEnd, EndsAtAStart,
        ApprovedValues, NoEnd, Idle
<1>2. ConfigurationTypeOK /\ WindowInv => LatestStartCounts
    <2> SUFFICES ASSUME ConfigurationTypeOK, WindowInv, NEW t \in 0 .. Horizon,
                        NEW c \in Newest({d \in ApprovedValues : value[d].from <= t})
                 PROVE  c \in InForce(t)
        BY DEF LatestStartCounts
    <2>1. c \in ApprovedValues /\ value[c].from <= t
        BY DEF Newest
    <2>2. ASSUME HasEnded(c, t) PROVE FALSE
        <3>1. PICK d \in ApprovedValues : value[d].from = value[c].to /\ value[c].from < value[c].to
            BY <2>1, <2>2 DEF HasEnded, WindowInv, EndsAtAStart
        <3>2. value[d].from <= value[c].from
            BY <2>2, <3>1 DEF HasEnded, Newest
        <3>3. value[c].from \in Nat /\ value[c].to \in Nat
            BY <2>1 DEF ConfigurationTypeOK, ApprovedValues
        <3>4. QED
            BY <3>1, <3>2, <3>3
    <2>3. QED
        BY <2>1, <2>2 DEF InForce
<1>3. QED
    BY <1>1, <1>2, SettingsInitType, SettingsNextType, NextWindow, PTL DEF ConfigurationSpec

-----------------------------------------------------------------------------
(* SUPPORT DESK                                                            *)

LEMMA SupportInitType == SupportInit => SupportTypeOK
BY DEF SupportInit, SupportTypeOK, DeskStatus, OpenSupport

LEMMA SupportNextType == SupportTypeOK /\ [SupportNext]_dVars => SupportTypeOK'
<1> SUFFICES ASSUME SupportTypeOK, [SupportNext]_dVars PROVE SupportTypeOK'
    OBVIOUS
<1> USE DEF SupportTypeOK, Becomes, DeskStatus, OpenSupport
<1>1. CASE UNCHANGED dVars
    BY <1>1 DEF dVars
<1>2. ASSUME NEW c \in Cases, OpenCase(c) \/ AssignCase(c) \/ CloseCase(c) \/ ReopenCase(c)
      PROVE  SupportTypeOK'
    BY <1>2 DEF OpenCase, AssignCase, CloseCase, ReopenCase
<1>3. ASSUME NEW c \in Cases, OfficeReplies(c) PROVE SupportTypeOK'
    BY <1>3 DEF OfficeReplies
<1>4. ASSUME NEW c \in Cases, Resolve(c) PROVE SupportTypeOK'
    BY <1>4 DEF Resolve
<1>5. ASSUME NEW c \in Cases, SlaEnds(c) PROVE SupportTypeOK'
    BY <1>5 DEF SlaEnds
<1>6. ASSUME NEW c \in Cases, Escalate(c) PROVE SupportTypeOK'
    BY <1>6 DEF Escalate
<1>7. ASSUME NEW c \in Cases, NEW seated \in BOOLEAN, OpenDenied(c, seated) PROVE SupportTypeOK'
    BY <1>7 DEF OpenDenied
<1>8. CASE ListOverdue
    BY <1>8 DEF ListOverdue
<1>9. QED
    BY <1>1, <1>2, <1>3, <1>4, <1>5, <1>6, <1>7, <1>8 DEF SupportNext

(* The status of a case and the marks of the escalation job keep their     *)
(* types.                                                                  *)
THEOREM SupportTypeCorrect == SupportSpec => []SupportTypeOK
<1>1. QED
    BY SupportInitType, SupportNextType, PTL DEF SupportSpec

(* The job goes by the answer it finds when it locks the case, not by the  *)
(* list it made before: who answered in between is not blamed.             *)
THEOREM SilenceIsBlamed == SupportSpec => OnlySilenceIsBlamed
<1>1. [SupportNext]_dVars => [(blamed' \ blamed) \cap heard = {}]_dVars
    <2> SUFFICES ASSUME SupportNext PROVE (blamed' \ blamed) \cap heard = {}
        OBVIOUS
    <2>1. ASSUME NEW c \in Cases, Escalate(c) PROVE (blamed' \ blamed) \cap heard = {}
        BY <2>1 DEF Escalate, StillSilent
    <2>2. ASSUME \A c \in Cases : ~Escalate(c) PROVE blamed' = blamed
        BY <2>2 DEF SupportNext, OpenCase, OpenDenied, OfficeReplies, AssignCase, Resolve, CloseCase,
           ReopenCase, SlaEnds, ListOverdue
    <2>3. QED
        BY <2>1, <2>2
<1>2. QED
    BY <1>1, PTL DEF SupportSpec, OnlySilenceIsBlamed

-----------------------------------------------------------------------------
(* THE COMPOSITION.  A step of BackOffice is a step of one component, and  *)
(* leaves the variables of the others alone.                               *)

LEMMA TripPartsImplemented == Spec => RefundsSpec /\ SettlementsSpec /\ ReallocationSpec /\ PlanningSpec
<1>1. Init => RefundsInit /\ SettlementsInit /\ ReallocationInit /\ PlanningInit
    BY DEF Init
<1>2. [Next]_vars => /\ [RefundsNext]_rVars /\ [SettlementsNext]_sVars
                     /\ [ReallocationNext]_aVars /\ [PlanningNext]_pVars
    <2> SUFFICES ASSUME [Next]_vars
                 PROVE  /\ [RefundsNext]_rVars /\ [SettlementsNext]_sVars
                        /\ [ReallocationNext]_aVars /\ [PlanningNext]_pVars
        OBVIOUS
    <2>1. CASE UNCHANGED vars
        BY <2>1 DEF vars
    <2>2. CASE Next
        BY <2>2 DEF Next, tripVars
    <2>3. QED
        BY <2>1, <2>2
<1>3. QED
    BY <1>1, <1>2, PTL DEF Spec, RefundsSpec, SettlementsSpec, ReallocationSpec, PlanningSpec

LEMMA PlatformPartsImplemented ==
    Spec => /\ SubscriptionsSpec /\ OfficesSpec /\ OutboxSpec
            /\ RequestPathSpec /\ SupportSpec /\ ConfigurationSpec
<1>1. Init => /\ SubscriptionsInit /\ OfficesInit /\ OutboxInit
              /\ RequestPathInit /\ SupportInit /\ ConfigurationInit
    BY DEF Init
<1>2. [Next]_vars => /\ [SubscriptionsNext]_bVars /\ [OfficesNext]_oVars /\ [OutboxNext]_nVars
                     /\ [RequestPathNext]_qVars /\ [SupportNext]_dVars /\ [ConfigurationNext]_cVars
    <2> SUFFICES ASSUME [Next]_vars
                 PROVE  /\ [SubscriptionsNext]_bVars /\ [OfficesNext]_oVars /\ [OutboxNext]_nVars
                        /\ [RequestPathNext]_qVars /\ [SupportNext]_dVars /\ [ConfigurationNext]_cVars
        OBVIOUS
    <2>1. CASE UNCHANGED vars
        BY <2>1 DEF vars
    <2>2. CASE Next
        BY <2>2 DEF Next, platformVars
    <2>3. QED
        BY <2>1, <2>2
<1>3. QED
    BY <1>1, <1>2, PTL
    DEF Spec, SubscriptionsSpec, OfficesSpec, OutboxSpec, RequestPathSpec, SupportSpec, ConfigurationSpec

(* The variables of all components keep their types in the composition.    *)
THEOREM BackOfficeTypeCorrect == Spec => []TypeOK
<1>1. Init => focus \in Focuses
    BY DEF Init
<1>2. focus \in Focuses /\ [Next]_vars => (focus \in Focuses)'
    BY DEF Next, vars
<1>3. /\ focus \in Focuses /\ RefundsTypeOK /\ SettlementsTypeOK /\ ReallocationTypeOK /\ PlanningTypeOK
      /\ SubscriptionsTypeOK /\ OfficesTypeOK /\ OutboxTypeOK
      /\ RequestPathTypeOK /\ SupportTypeOK /\ ConfigurationTypeOK
      => TypeOK
    BY DEF TypeOK
<1>4. QED
    BY <1>1, <1>2, <1>3, TripPartsImplemented, PlatformPartsImplemented, RefundsTypeCorrect,
       SettlementsTypeCorrect, ReallocationTypeCorrect, PlanningTypeCorrect, OfficesAreAccounted,
       OfficesTypeCorrect, OutboxTypeCorrect, RequestTypeCorrect, SupportTypeCorrect,
       SettingsTypeCorrect, PTL DEF Spec

(* What is proved of the components holds of the composition.              *)
THEOREM BackOfficeIsSafe ==
    Spec => /\ []RefundsAreCovered /\ []SettledOnce /\ MovedByTheRules /\ AskedOfEveryChange
            /\ []SubscriptionsAreAccounted /\ []OnePayoutAccount /\ []SanctionedByTwo
            /\ []LostIsTakenUp /\ []RequestsAreSafe /\ []LatestStartCounts /\ OnlySilenceIsBlamed
<1>1. QED
    BY TripPartsImplemented, PlatformPartsImplemented, RefundsStayCovered, NothingIsSettledTwice,
       ChangesFollowTheRules, NobodyIsLeftUnasked, OfficesAreAccounted, OneAccountIsPaid,
       SanctionsAreShared, LostMessagesAreTakenUp, RequestsSafe, LatestStartIsInForce,
       SilenceIsBlamed, PTL
=============================================================================
