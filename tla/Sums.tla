-------------------------------- MODULE Sums --------------------------------
(***************************************************************************)
(* What the sum of the community modules, SumFunctionOnSet(f, S), is for   *)
(* every finite set S.  It folds over S in an order of its own choice, by  *)
(* a recursive function on the subsets of S.  That the function exists and *)
(* that the order does not matter is shown by induction on the size of the *)
(* sets: of the counterexamples, take one of the least size.               *)
(***************************************************************************)
EXTENDS Integers, Functions, FiniteSetTheorems, WellFoundedInduction, TLAPS

-----------------------------------------------------------------------------
(* Induction *)

(* A set of natural numbers that is not empty has a least element.         *)
LEMMA LeastExists ==
    ASSUME NEW T \in SUBSET Nat, T # {}
    PROVE  \E n \in T : \A m \in T : n <= m
<1>1. PICK n \in T : \A m \in T : ~(<<m, n>> \in OpToRel(<, Nat))
    BY NatLessThanWellFounded, WFMin
<1>2. ASSUME NEW m \in T, m < n PROVE FALSE
    <2>1. <<m, n>> \in Nat \X Nat /\ <<m, n>>[1] < <<m, n>>[2]
        BY <1>2
    <2>2. <<m, n>> \in OpToRel(<, Nat)
        BY <2>1, Zenon DEF OpToRel
    <2>3. QED
        BY <1>1, <2>2
<1>3. n \in Nat /\ \A m \in T : m \in Nat
    OBVIOUS
<1>4. QED
    BY <1>2, <1>3

(* A family of finite sets that is not empty has a smallest set.           *)
LEMMA SmallestExists ==
    ASSUME NEW F, F # {}, \A s \in F : IsFiniteSet(s)
    PROVE  \E s \in F : \A t \in F : Cardinality(s) <= Cardinality(t)
<1> DEFINE T == {Cardinality(s) : s \in F}
<1>1. T \in SUBSET Nat /\ T # {}
    BY FS_CardinalityType
<1>2. PICK n \in T : \A m \in T : n <= m
    BY <1>1, LeastExists
<1>3. QED
    BY <1>2

-----------------------------------------------------------------------------
(* The recursive function *)

Pick(s) == CHOOSE x \in s : TRUE
Folded(f, g, s) == IF s = {} THEN 0 ELSE f[Pick(s)] + g[s \ {Pick(s)}]
FoldOf(f, S) == CHOOSE g : g = [s \in SUBSET S |-> Folded(f, g, s)]

(* The definition of the sum, with names for its parts.                    *)
LEMMA SumUnfolds == ASSUME NEW f, NEW S PROVE SumFunctionOnSet(f, S) = FoldOf(f, S)[S]
BY DEF SumFunctionOnSet, FoldFunctionOnSet, MapThenFoldSet, FoldOf, Folded, Pick

(* The element the fold takes is one of the set.                           *)
LEMMA PickIsIn == ASSUME NEW s, s # {} PROVE Pick(s) \in s
BY DEF Pick

(* Subsets of S with at most n elements.                                   *)
UpTo(S, n) == {s \in SUBSET S : Cardinality(s) <= n}

(* A subset loses one element: it stays a subset and gets smaller.         *)
LEMMA Smaller ==
    ASSUME NEW S, IsFiniteSet(S), NEW s \in SUBSET S, NEW x \in s
    PROVE  /\ IsFiniteSet(s) /\ s \ {x} \in SUBSET S /\ IsFiniteSet(s \ {x})
           /\ Cardinality(s) \in Nat /\ Cardinality(s \ {x}) \in Nat
           /\ Cardinality(s \ {x}) = Cardinality(s) - 1
BY FS_Subset, FS_RemoveElement, FS_CardinalityType

(* Induction over a finite set, for a property given as the family F of    *)
(* the sets that have it: the empty set has it, and one more element keeps *)
(* it.                                                                     *)
LEMMA SetInduction ==
    ASSUME NEW S, IsFiniteSet(S), NEW F, {} \in F,
           \A s \in SUBSET S, x \in S : s \in F /\ x \notin s => s \cup {x} \in F
    PROVE  S \in F
<1> DEFINE Bad == {s \in SUBSET S : s \notin F}
<1> SUFFICES ASSUME Bad # {} PROVE FALSE
    OBVIOUS
<1>1. \A s \in Bad : IsFiniteSet(s)
    BY FS_Subset
<1>2. PICK s \in Bad : \A t \in Bad : Cardinality(s) <= Cardinality(t)
    BY <1>1, SmallestExists
<1>3. s \in SUBSET S /\ s # {} /\ s \notin F
    OBVIOUS
<1>4. PICK x \in s : TRUE
    BY <1>3
<1> DEFINE t == s \ {x}
<1>5. /\ t \in SUBSET S /\ Cardinality(s) \in Nat /\ Cardinality(t) \in Nat
      /\ Cardinality(t) = Cardinality(s) - 1
    <2> HIDE DEF Bad
    <2>1. QED
        BY <1>3, Smaller
<1>6. t \notin Bad
    <2> HIDE DEF t
    <2>1. QED
        BY <1>2, <1>5
<1>7. t \in F /\ x \notin t /\ x \in S
    BY <1>3, <1>5, <1>6
<1>8. t \cup {x} = s
    OBVIOUS
<1>9. QED
    BY <1>3, <1>5, <1>7, <1>8

(* The recursive function exists on the subsets of at most n elements.     *)
LEMMA FoldExistsUpTo ==
    ASSUME NEW f, NEW S, IsFiniteSet(S)
    PROVE  \A n \in Nat : \E g : g = [s \in UpTo(S, n) |-> Folded(f, g, s)]
<1> DEFINE Folds(g, n) == g = [s \in UpTo(S, n) |-> Folded(f, g, s)]
           Bad == {n \in Nat : ~\E g : Folds(g, n)}
<1> SUFFICES ASSUME Bad # {} PROVE FALSE
    OBVIOUS
<1>1. PICK n \in Bad : \A m \in Bad : n <= m
    <2>1. Bad \in SUBSET Nat
        OBVIOUS
    <2>2. QED
        BY <2>1, LeastExists
<1>2. n \in Nat
    OBVIOUS
<1>3. CASE n = 0
    <2>1. \A s \in UpTo(S, 0) : s = {}
        <3> SUFFICES ASSUME NEW s \in UpTo(S, 0) PROVE s = {}
            OBVIOUS
        <3>1. s \in SUBSET S /\ Cardinality(s) <= 0
            BY DEF UpTo
        <3>2. IsFiniteSet(s) /\ Cardinality(s) \in Nat
            BY <3>1, FS_Subset, FS_CardinalityType
        <3>3. QED
            BY <3>1, <3>2, FS_EmptySet
    <2> DEFINE g == [s \in UpTo(S, 0) |-> 0]
    <2>2. Folds(g, 0)
        BY <2>1 DEF Folded
    <2>3. QED
        BY <1>3, <2>2
<1>4. CASE n # 0
    <2>1. n - 1 \in Nat /\ n - 1 < n
        BY <1>2, <1>4
    <2>2. n - 1 \notin Bad
        BY <1>1, <1>2, <2>1
    <2>3. PICK g : Folds(g, n - 1)
        BY <2>1, <2>2
    <2> DEFINE h == [s \in UpTo(S, n) |-> Folded(f, g, s)]
    <2>4. ASSUME NEW s \in UpTo(S, n), s # {}
          PROVE  s \ {Pick(s)} \in UpTo(S, n - 1) /\ s \ {Pick(s)} \in UpTo(S, n)
        <3>1. s \in SUBSET S /\ Cardinality(s) <= n
            BY DEF UpTo
        <3>2. Pick(s) \in s
            BY <2>4, PickIsIn
        <3>3. QED
            BY <1>2, <3>1, <3>2, Smaller DEF UpTo
    <2>5. ASSUME NEW s \in UpTo(S, n), s # {}
          PROVE  h[s \ {Pick(s)}] = g[s \ {Pick(s)}]
        <3> DEFINE t == s \ {Pick(s)}
        <3>1. t \in UpTo(S, n) /\ t \in UpTo(S, n - 1)
            BY <2>4, <2>5
        <3>2. h[t] = Folded(f, g, t)
            BY <3>1
        <3>3. g[t] = Folded(f, g, t)
            BY <2>3, <3>1
        <3>4. QED
            BY <3>2, <3>3
    <2>6. \A s \in UpTo(S, n) : h[s] = Folded(f, h, s)
        <3> SUFFICES ASSUME NEW s \in UpTo(S, n) PROVE h[s] = Folded(f, h, s)
            OBVIOUS
        <3>1. h[s] = Folded(f, g, s)
            OBVIOUS
        <3> HIDE DEF h
        <3>2. QED
            BY <2>5, <3>1 DEF Folded
    <2>7. DOMAIN h = UpTo(S, n) /\ h = [s \in UpTo(S, n) |-> h[s]]
        OBVIOUS
    <2> HIDE DEF h
    <2>8. Folds(h, n)
        BY <2>6, <2>7
    <2>9. QED
        BY <2>8
<1>5. QED
    BY <1>3, <1>4

(* The function the sum chooses satisfies its recursive equation.          *)
LEMMA FoldExists ==
    ASSUME NEW f, NEW S, IsFiniteSet(S)
    PROVE  \A s \in SUBSET S : FoldOf(f, S)[s] = Folded(f, FoldOf(f, S), s)
<1> DEFINE n == Cardinality(S)
<1>1. n \in Nat
    BY FS_CardinalityType
<1>2. UpTo(S, n) = SUBSET S
    BY FS_Subset DEF UpTo
<1>3. PICK g : g = [s \in UpTo(S, n) |-> Folded(f, g, s)]
    <2>1. \A m \in Nat : \E g : g = [s \in UpTo(S, m) |-> Folded(f, g, s)]
        BY FoldExistsUpTo
    <2> HIDE DEF n
    <2>2. QED
        BY <1>1, <2>1
<1>4. g = [s \in SUBSET S |-> Folded(f, g, s)]
    BY <1>2, <1>3
<1>5. FoldOf(f, S) = [s \in SUBSET S |-> Folded(f, FoldOf(f, S), s)]
    BY <1>4 DEF FoldOf
<1> DEFINE h == FoldOf(f, S)
<1>6. h = [s \in SUBSET S |-> Folded(f, h, s)]
    BY <1>5
<1> HIDE DEF h
<1>7. \A s \in SUBSET S : h[s] = Folded(f, h, s)
    BY <1>6
<1>8. QED
    BY <1>7 DEF h

(* The sums over the subsets of a set do not depend on the set.            *)
LEMMA FoldAgrees ==
    ASSUME NEW f, NEW S, IsFiniteSet(S), NEW T \in SUBSET S
    PROVE  \A s \in SUBSET T : FoldOf(f, T)[s] = FoldOf(f, S)[s]
<1> DEFINE Bad == {s \in SUBSET T : FoldOf(f, T)[s] # FoldOf(f, S)[s]}
<1>1. IsFiniteSet(T)
    BY FS_Subset
<1> SUFFICES ASSUME Bad # {} PROVE FALSE
    OBVIOUS
<1>2. \A s \in Bad : IsFiniteSet(s)
    BY <1>1, FS_Subset
<1>3. PICK s \in Bad : \A t \in Bad : Cardinality(s) <= Cardinality(t)
    BY <1>2, SmallestExists
<1>4. s \in SUBSET T /\ s \in SUBSET S
    OBVIOUS
<1>5. /\ FoldOf(f, T)[s] = Folded(f, FoldOf(f, T), s)
      /\ FoldOf(f, S)[s] = Folded(f, FoldOf(f, S), s)
    <2> HIDE DEF Bad
    <2>1. QED
        BY <1>1, <1>4, FoldExists
<1>6. s # {}
    BY <1>5 DEF Folded
<1> DEFINE t == s \ {Pick(s)}
<1>7. Pick(s) \in s
    BY <1>6, PickIsIn
<1>8. /\ t \in SUBSET T /\ Cardinality(s) \in Nat /\ Cardinality(t) \in Nat
      /\ Cardinality(t) = Cardinality(s) - 1
    <2> HIDE DEF Bad
    <2>1. QED
        BY <1>1, <1>4, <1>7, Smaller
<1> HIDE DEF t
<1>9. t \notin Bad
    BY <1>3, <1>8
<1>10. FoldOf(f, T)[t] = FoldOf(f, S)[t]
    BY <1>8, <1>9
<1>11. /\ FoldOf(f, T)[s] = f[Pick(s)] + FoldOf(f, T)[t]
       /\ FoldOf(f, S)[s] = f[Pick(s)] + FoldOf(f, S)[t]
    BY <1>5, <1>6 DEF Folded, t
<1>12. FoldOf(f, T)[s] # FoldOf(f, S)[s]
    OBVIOUS
<1>13. QED
    BY <1>10, <1>11, <1>12

-----------------------------------------------------------------------------
(* The sum *)

(* Nothing adds up to zero.                                                *)
LEMMA SumEmpty == ASSUME NEW f PROVE SumFunctionOnSet(f, {}) = 0
<1>1. IsFiniteSet({})
    BY FS_EmptySet
<1>2. FoldOf(f, {})[{}] = Folded(f, FoldOf(f, {}), {})
    BY <1>1, FoldExists
<1>3. QED
    BY <1>2, SumUnfolds DEF Folded

(* The recursive equation, for the sum.                                    *)
LEMMA SumPicked ==
    ASSUME NEW f, NEW S, IsFiniteSet(S), S # {}
    PROVE  SumFunctionOnSet(f, S) = f[Pick(S)] + SumFunctionOnSet(f, S \ {Pick(S)})
<1> DEFINE T == S \ {Pick(S)}
<1>1. FoldOf(f, S)[S] = Folded(f, FoldOf(f, S), S)
    BY FoldExists
<1>2. T \in SUBSET S /\ T \in SUBSET T
    OBVIOUS
<1> HIDE DEF T
<1>3. FoldOf(f, T)[T] = FoldOf(f, S)[T]
    BY <1>2, FoldAgrees
<1>4. SumFunctionOnSet(f, S) = f[Pick(S)] + FoldOf(f, S)[T]
    BY <1>1, SumUnfolds DEF Folded, T
<1>5. SumFunctionOnSet(f, T) = FoldOf(f, T)[T]
    BY SumUnfolds
<1>6. QED
    BY <1>3, <1>4, <1>5 DEF T

(* A sum of integers is an integer, whichever element the fold takes.      *)
LEMMA SumInt ==
    ASSUME NEW f, NEW S, IsFiniteSet(S), \A x \in S : f[x] \in Int
    PROVE  SumFunctionOnSet(f, S) \in Int
<1> DEFINE Bad == {s \in SUBSET S : SumFunctionOnSet(f, s) \notin Int}
<1> SUFFICES ASSUME Bad # {} PROVE FALSE
    OBVIOUS
<1>1. \A s \in Bad : IsFiniteSet(s)
    BY FS_Subset
<1>2. PICK s \in Bad : \A t \in Bad : Cardinality(s) <= Cardinality(t)
    BY <1>1, SmallestExists
<1>3. s \in SUBSET S /\ IsFiniteSet(s)
    BY <1>1
<1>4. s # {}
    BY SumEmpty
<1> DEFINE t == s \ {Pick(s)}
<1>5. Pick(s) \in s
    BY <1>4, PickIsIn
<1>6. /\ t \in SUBSET S /\ Cardinality(s) \in Nat /\ Cardinality(t) \in Nat
      /\ Cardinality(t) = Cardinality(s) - 1
    BY <1>3, <1>5, Smaller
<1>7. SumFunctionOnSet(f, s) = f[Pick(s)] + SumFunctionOnSet(f, t)
    BY <1>3, <1>4, SumPicked
<1> HIDE DEF t
<1>8. t \notin Bad
    BY <1>2, <1>6
<1>9. SumFunctionOnSet(f, t) \in Int /\ f[Pick(s)] \in Int
    BY <1>3, <1>5, <1>6, <1>8
<1>10. QED
    BY <1>7, <1>9

(* Whichever element is taken first: a sum is that element and the rest.   *)
LEMMA SumRemove ==
    ASSUME NEW f, NEW S, IsFiniteSet(S), \A x \in S : f[x] \in Int, NEW x \in S
    PROVE  SumFunctionOnSet(f, S) = f[x] + SumFunctionOnSet(f, S \ {x})
<1> DEFINE Sum(s) == SumFunctionOnSet(f, s)
           Bad == {s \in SUBSET S : \E y \in s : Sum(s) # f[y] + Sum(s \ {y})}
<1>0. SUFFICES ASSUME Bad # {} PROVE FALSE
    OBVIOUS
<1>1. \A s \in Bad : IsFiniteSet(s)
    BY FS_Subset
<1>2. PICK s \in Bad : \A t \in Bad : Cardinality(s) <= Cardinality(t)
    BY <1>0, <1>1, SmallestExists
<1>3. PICK y \in s : Sum(s) # f[y] + Sum(s \ {y})
    OBVIOUS
<1>4. s \in SUBSET S /\ IsFiniteSet(s) /\ s # {}
    BY <1>1
<1> DEFINE p == Pick(s)
<1>5. p \in s
    BY <1>4, PickIsIn
<1>6. Sum(s) = f[p] + Sum(s \ {p})
    BY <1>4, SumPicked
<1> HIDE DEF p
<1>7. p # y
    BY <1>3, <1>6
<1>8. ASSUME NEW z \in s PROVE s \ {z} \notin Bad /\ s \ {z} \in SUBSET S
    <2>1. /\ s \ {z} \in SUBSET S /\ Cardinality(s) \in Nat /\ Cardinality(s \ {z}) \in Nat
          /\ Cardinality(s \ {z}) = Cardinality(s) - 1
        BY <1>4, Smaller
    <2>2. QED
        BY <1>2, <2>1
<1> DEFINE r == (s \ {p}) \ {y}
<1>9. Sum(s \ {p}) = f[y] + Sum(r)
    <2>1. y \in s \ {p}
        BY <1>3, <1>7
    <2>2. QED
        BY <1>5, <1>8, <2>1
<1>10. Sum(s \ {y}) = f[p] + Sum(r)
    <2>1. p \in s \ {y}
        BY <1>5, <1>7
    <2>2. (s \ {y}) \ {p} = r
        OBVIOUS
    <2>3. QED
        BY <1>3, <1>8, <2>1, <2>2
<1>11. f[p] \in Int /\ f[y] \in Int /\ Sum(r) \in Int
    <2>1. IsFiniteSet(r) /\ \A z \in r : f[z] \in Int
        BY <1>4, FS_Subset
    <2>2. QED
        BY <1>4, <1>5, <2>1, SumInt
<1> HIDE DEF r
<1>12. QED
    BY <1>3, <1>6, <1>9, <1>10, <1>11

(* One more element adds its value.                                        *)
LEMMA SumAdd ==
    ASSUME NEW f, NEW S, IsFiniteSet(S), NEW x, x \notin S, \A y \in S \cup {x} : f[y] \in Int
    PROVE  SumFunctionOnSet(f, S \cup {x}) = f[x] + SumFunctionOnSet(f, S)
<1> DEFINE T == S \cup {x}
<1>1. IsFiniteSet(T)
    BY FS_AddElement
<1>2. x \in T /\ \A y \in T : f[y] \in Int
    OBVIOUS
<1>3. T \ {x} = S
    OBVIOUS
<1> HIDE DEF T
<1>4. SumFunctionOnSet(f, T) = f[x] + SumFunctionOnSet(f, T \ {x})
    BY <1>1, <1>2, SumRemove
<1>5. QED
    BY <1>3, <1>4 DEF T

(* Values that are no greater add up to no more.                           *)
LEMMA SumOrdered ==
    ASSUME NEW f, NEW g, NEW S, IsFiniteSet(S),
           \A x \in S : f[x] \in Int /\ g[x] \in Int /\ f[x] <= g[x]
    PROVE  SumFunctionOnSet(f, S) <= SumFunctionOnSet(g, S)
<1> DEFINE F == {s \in SUBSET S : SumFunctionOnSet(f, s) <= SumFunctionOnSet(g, s)}
<1>1. {} \in F
    BY SumEmpty
<1>2. ASSUME NEW s \in SUBSET S, NEW x \in S, s \in F, x \notin s PROVE s \cup {x} \in F
    <2>1. IsFiniteSet(s)
        BY FS_Subset
    <2>2. /\ SumFunctionOnSet(f, s \cup {x}) = f[x] + SumFunctionOnSet(f, s)
          /\ SumFunctionOnSet(g, s \cup {x}) = g[x] + SumFunctionOnSet(g, s)
        BY <1>2, <2>1, SumAdd
    <2>3. SumFunctionOnSet(f, s) \in Int /\ SumFunctionOnSet(g, s) \in Int
        BY <2>1, SumInt
    <2>4. SumFunctionOnSet(f, s) <= SumFunctionOnSet(g, s)
        BY <1>2
    <2>5. f[x] + SumFunctionOnSet(f, s) <= g[x] + SumFunctionOnSet(g, s)
        BY <2>3, <2>4
    <2>6. QED
        BY <2>2, <2>5
<1> HIDE DEF F
<1>3. S \in F
    BY <1>1, <1>2, SetInduction
<1>4. QED
    BY <1>3 DEF F

(* A sum depends on the values in its set and on nothing else.             *)
LEMMA SumAgrees ==
    ASSUME NEW f, NEW g, NEW S, IsFiniteSet(S), \A x \in S : f[x] \in Int /\ f[x] = g[x]
    PROVE  SumFunctionOnSet(f, S) = SumFunctionOnSet(g, S)
<1>1. /\ SumFunctionOnSet(f, S) <= SumFunctionOnSet(g, S)
      /\ SumFunctionOnSet(g, S) <= SumFunctionOnSet(f, S)
    BY SumOrdered
<1>2. SumFunctionOnSet(f, S) \in Int /\ SumFunctionOnSet(g, S) \in Int
    BY SumInt
<1>3. QED
    BY <1>1, <1>2

(* Two values for each element that fit into a third one add up to sums    *)
(* that fit into its sum.                                                  *)
LEMMA SumsWithin ==
    ASSUME NEW f, NEW g, NEW h, NEW S, IsFiniteSet(S),
           \A x \in S : f[x] \in Int /\ g[x] \in Int /\ h[x] \in Int /\ f[x] + g[x] <= h[x]
    PROVE  SumFunctionOnSet(f, S) + SumFunctionOnSet(g, S) <= SumFunctionOnSet(h, S)
<1> DEFINE F == {s \in SUBSET S :
                   SumFunctionOnSet(f, s) + SumFunctionOnSet(g, s) <= SumFunctionOnSet(h, s)}
<1>1. {} \in F
    BY SumEmpty
<1>2. ASSUME NEW s \in SUBSET S, NEW x \in S, s \in F, x \notin s PROVE s \cup {x} \in F
    <2>1. IsFiniteSet(s)
        BY FS_Subset
    <2>2. /\ SumFunctionOnSet(f, s \cup {x}) = f[x] + SumFunctionOnSet(f, s)
          /\ SumFunctionOnSet(g, s \cup {x}) = g[x] + SumFunctionOnSet(g, s)
          /\ SumFunctionOnSet(h, s \cup {x}) = h[x] + SumFunctionOnSet(h, s)
        BY <1>2, <2>1, SumAdd
    <2>3. /\ SumFunctionOnSet(f, s) \in Int /\ SumFunctionOnSet(g, s) \in Int
          /\ SumFunctionOnSet(h, s) \in Int
        BY <2>1, SumInt
    <2>4. SumFunctionOnSet(f, s) + SumFunctionOnSet(g, s) <= SumFunctionOnSet(h, s)
        BY <1>2
    <2>5. (f[x] + SumFunctionOnSet(f, s)) + (g[x] + SumFunctionOnSet(g, s)) <= h[x] + SumFunctionOnSet(h, s)
        BY <2>3, <2>4
    <2>6. QED
        BY <2>2, <2>5
<1> HIDE DEF F
<1>3. S \in F
    BY <1>1, <1>2, SetInduction
<1>4. QED
    BY <1>3 DEF F

(* A sum over two sets that have nothing in common.                        *)
LEMMA SumDisjoint ==
    ASSUME NEW f, NEW S, NEW T, IsFiniteSet(S), IsFiniteSet(T), S \cap T = {},
           \A x \in S \cup T : f[x] \in Int
    PROVE  SumFunctionOnSet(f, S \cup T) = SumFunctionOnSet(f, S) + SumFunctionOnSet(f, T)
<1> DEFINE Sum(s) == SumFunctionOnSet(f, s)
           F == {s \in SUBSET T : Sum(S \cup s) = Sum(S) + Sum(s) /\ IsFiniteSet(S \cup s)}
<1>1. {} \in F
    <2>1. Sum({}) = 0 /\ S \cup {} = S /\ Sum(S) \in Int
        BY SumEmpty, SumInt
    <2>2. QED
        BY <2>1
<1>2. ASSUME NEW s \in SUBSET T, NEW x \in T, s \in F, x \notin s PROVE s \cup {x} \in F
    <2>1. IsFiniteSet(s) /\ IsFiniteSet(S \cup s)
        BY <1>2, FS_Subset
    <2>2. (S \cup s) \cup {x} = S \cup (s \cup {x}) /\ x \notin S \cup s
        BY <1>2
    <2>3. IsFiniteSet((S \cup s) \cup {x})
        BY <2>1, FS_AddElement
    <2>4. Sum((S \cup s) \cup {x}) = f[x] + Sum(S \cup s)
        BY <2>1, <2>2, SumAdd
    <2>5. Sum(s \cup {x}) = f[x] + Sum(s)
        BY <1>2, <2>1, SumAdd
    <2>6. Sum(S) \in Int /\ Sum(s) \in Int /\ f[x] \in Int
        BY <2>1, SumInt
    <2>7. Sum(S \cup s) = Sum(S) + Sum(s)
        BY <1>2
    <2>8. Sum((S \cup s) \cup {x}) = Sum(S) + Sum(s \cup {x})
        BY <2>4, <2>5, <2>6, <2>7
    <2>9. QED
        BY <2>2, <2>3, <2>8
<1> HIDE DEF F
<1>3. T \in F
    BY <1>1, <1>2, SetInduction
<1>4. QED
    BY <1>3 DEF F

(* A sum of natural numbers is one, and a part of it is no more than it.   *)
LEMMA SumNat ==
    ASSUME NEW f, NEW S, IsFiniteSet(S), \A x \in S : f[x] \in Nat
    PROVE  /\ SumFunctionOnSet(f, S) \in Nat
           /\ \A T \in SUBSET S : SumFunctionOnSet(f, T) <= SumFunctionOnSet(f, S)
<1>1. ASSUME NEW s \in SUBSET S PROVE SumFunctionOnSet(f, s) \in Nat
    <2> DEFINE zero == [x \in s |-> 0]
               F == {t \in SUBSET s : SumFunctionOnSet(zero, t) = 0}
    <2>1. IsFiniteSet(s)
        BY FS_Subset
    <2>2. {} \in F
        BY SumEmpty
    <2>3. ASSUME NEW t \in SUBSET s, NEW x \in s, t \in F, x \notin t PROVE t \cup {x} \in F
        <3>1. IsFiniteSet(t)
            BY <2>1, FS_Subset
        <3>2. \A y \in t \cup {x} : zero[y] = 0
            OBVIOUS
        <3>3. SumFunctionOnSet(zero, t \cup {x}) = zero[x] + SumFunctionOnSet(zero, t)
            <4> HIDE DEF zero
            <4>1. QED
                BY <2>3, <3>1, <3>2, SumAdd
        <3>4. QED
            BY <2>3, <3>2, <3>3
    <2>4. s \in F
        <3> HIDE DEF F
        <3>1. QED
            BY <2>1, <2>2, <2>3, SetInduction
    <2>5. SumFunctionOnSet(zero, s) = 0
        BY <2>4
    <2>6. \A x \in s : zero[x] = 0 /\ f[x] \in Int /\ 0 <= f[x]
        OBVIOUS
    <2> HIDE DEF zero
    <2>7. SumFunctionOnSet(zero, s) <= SumFunctionOnSet(f, s)
        BY <2>1, <2>6, SumOrdered
    <2>8. SumFunctionOnSet(f, s) \in Int
        BY <2>1, <2>6, SumInt
    <2>9. QED
        BY <2>5, <2>7, <2>8
<1>2. ASSUME NEW T \in SUBSET S PROVE SumFunctionOnSet(f, T) <= SumFunctionOnSet(f, S)
    <2> DEFINE R == S \ T
    <2>1. R \in SUBSET S /\ T \cup R = S /\ T \cap R = {}
        OBVIOUS
    <2> HIDE DEF R
    <2>2. IsFiniteSet(T) /\ IsFiniteSet(R)
        BY <2>1, FS_Subset
    <2>3. SumFunctionOnSet(f, T \cup R) = SumFunctionOnSet(f, T) + SumFunctionOnSet(f, R)
        BY <2>1, <2>2, SumDisjoint
    <2>4. SumFunctionOnSet(f, T) \in Nat /\ SumFunctionOnSet(f, R) \in Nat
        BY <1>1, <2>1
    <2>5. SumFunctionOnSet(f, S) = SumFunctionOnSet(f, T) + SumFunctionOnSet(f, R)
        BY <2>1, <2>3
    <2> DEFINE a == SumFunctionOnSet(f, T)
               b == SumFunctionOnSet(f, R)
    <2>6. a \in Nat /\ b \in Nat /\ SumFunctionOnSet(f, S) = a + b
        BY <2>4, <2>5
    <2> HIDE DEF a, b
    <2>7. a <= SumFunctionOnSet(f, S)
        BY <2>6
    <2>8. QED
        BY <2>7 DEF a
<1>3. QED
    BY <1>1, <1>2

(* One value changes.                                                      *)
LEMMA SumChange ==
    ASSUME NEW f, NEW g, NEW S, IsFiniteSet(S), NEW x \in S,
           \A y \in S : f[y] \in Int /\ g[y] \in Int,
           \A y \in S : y # x => g[y] = f[y]
    PROVE  SumFunctionOnSet(g, S) = SumFunctionOnSet(f, S) - f[x] + g[x]
<1> DEFINE R == S \ {x}
<1>1. IsFiniteSet(R) /\ \A y \in R : f[y] \in Int /\ f[y] = g[y]
    BY FS_Subset
<1>2. SumFunctionOnSet(f, S) = f[x] + SumFunctionOnSet(f, R)
    BY SumRemove
<1>3. SumFunctionOnSet(g, S) = g[x] + SumFunctionOnSet(g, R)
    BY SumRemove
<1> HIDE DEF R
<1>4. SumFunctionOnSet(f, R) = SumFunctionOnSet(g, R) /\ SumFunctionOnSet(f, R) \in Int
    BY <1>1, SumAgrees, SumInt
<1>5. QED
    BY <1>2, <1>3, <1>4

(* Values of at most c add up to at most c for each element.               *)
LEMMA SumBounded ==
    ASSUME NEW f, NEW S, IsFiniteSet(S), NEW c \in Int, \A x \in S : f[x] \in Int /\ f[x] <= c
    PROVE  SumFunctionOnSet(f, S) <= c * Cardinality(S)
<1> DEFINE F == {s \in SUBSET S : SumFunctionOnSet(f, s) <= c * Cardinality(s)}
<1>1. {} \in F
    BY SumEmpty, FS_EmptySet
<1>2. ASSUME NEW s \in SUBSET S, NEW x \in S, s \in F, x \notin s PROVE s \cup {x} \in F
    <2>1. IsFiniteSet(s)
        BY FS_Subset
    <2>2. SumFunctionOnSet(f, s \cup {x}) = f[x] + SumFunctionOnSet(f, s)
        BY <1>2, <2>1, SumAdd
    <2>3. Cardinality(s \cup {x}) = Cardinality(s) + 1 /\ Cardinality(s) \in Nat
        BY <1>2, <2>1, FS_AddElement, FS_CardinalityType
    <2>4. SumFunctionOnSet(f, s) \in Int /\ f[x] \in Int /\ f[x] <= c
        BY <2>1, SumInt
    <2>5. SumFunctionOnSet(f, s) <= c * Cardinality(s)
        BY <1>2
    <2>6. c * (Cardinality(s) + 1) = c * Cardinality(s) + c
        BY <2>3
    <2>7. c * Cardinality(s) \in Int
        BY <2>3
    <2>8. f[x] + SumFunctionOnSet(f, s) <= c * Cardinality(s) + c
        BY <2>4, <2>5, <2>7
    <2>9. QED
        BY <2>2, <2>3, <2>6, <2>8
<1> HIDE DEF F
<1>3. S \in F
    BY <1>1, <1>2, SetInduction
<1>4. QED
    BY <1>3 DEF F

(* Zeros add up to zero.                                                   *)
LEMMA SumZero ==
    ASSUME NEW f, NEW S, IsFiniteSet(S), \A x \in S : f[x] = 0
    PROVE  SumFunctionOnSet(f, S) = 0
<1>1. SumFunctionOnSet(f, S) <= 0 * Cardinality(S)
    BY SumBounded
<1>2. SumFunctionOnSet(f, S) \in Nat
    BY SumNat
<1>3. Cardinality(S) \in Nat
    BY FS_CardinalityType
<1>4. QED
    BY <1>1, <1>2, <1>3
=============================================================================
