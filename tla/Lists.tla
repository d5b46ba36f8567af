------------------------------- MODULE Lists --------------------------------
(***************************************************************************)
(* Lists in a form that can be proved about.  The part of a list that      *)
(* satisfies a condition, in the order of the list, as a list              *)
(* comprehension or a stable sort makes it, is given by the set of         *)
(* positions that are kept; unlike SelectSeq it needs no recursion.  A     *)
(* loop over a list is a recursive function of the number of turns, which  *)
(* LoopIsDefined lets a proof unfold.                                      *)
(***************************************************************************)
EXTENDS Naturals, Sequences, FiniteSets, FiniteSetTheorems, TLAPS

Before(P, n) == {k \in P : k < n}

(* The i-th smallest number of a finite set P.                             *)
Nth(P, i) == CHOOSE n \in P : Cardinality(Before(P, n)) = i - 1

(* The elements of s at the positions P.                                   *)
AtPositions(s, P) == [i \in 1 .. Cardinality(P) |-> s[Nth(P, i)]]

-----------------------------------------------------------------------------
(* Induction over numbers, in a form without operators: a set of numbers   *)
(* has a least one.                                                        *)
LEMMA LeastNatural ==
  ASSUME NEW T \in SUBSET Nat, T # {}
  PROVE  \E m \in T : \A k \in T : m <= k
<1>1. PICK m \in T : \A k \in T : ~ (<<k, m>> \in OpToRel(<, Nat))
  BY NatLessThanWellFounded, WFMin, Zenon
<1>2. \A k \in T : ~ (k < m)
  BY <1>1 DEF OpToRel
<1> QED BY <1>2

(* Induction up to a number, on a set of numbers.                          *)
LEMMA UpToNumber ==
  ASSUME NEW n \in Nat, NEW T, 0 \in T, \A i \in 1 .. n : i - 1 \in T => i \in T
  PROVE  0 .. n \subseteq T
<1> DEFINE Rest == {i \in 0 .. n : i \notin T}
<1> SUFFICES ASSUME Rest # {} PROVE FALSE
  OBVIOUS
<1>1. Rest \in SUBSET Nat
  OBVIOUS
<1> HIDE DEF Rest
<1>2. PICK m \in Rest : \A k \in Rest : m <= k
  BY <1>1, LeastNatural, Zenon
<1>3. m \in 0 .. n /\ m \notin T
  BY <1>2 DEF Rest
<1>4. m \in 1 .. n /\ m - 1 \in 0 .. n /\ ~(m <= m - 1)
  BY <1>3
<1>5. m - 1 \in T
  BY <1>2, <1>4 DEF Rest
<1> QED BY <1>3, <1>4, <1>5

(* More positions lie before a later one.                                  *)
LEMMA BeforeIsMonotone ==
  ASSUME NEW P \in SUBSET Nat, IsFiniteSet(P), NEW m \in P, NEW n \in Nat, m < n
  PROVE  /\ Cardinality(Before(P, m)) \in Nat
         /\ Cardinality(Before(P, m)) < Cardinality(Before(P, n))
<1>1. IsFiniteSet(Before(P, m)) /\ IsFiniteSet(Before(P, n))
  BY FS_Subset DEF Before
<1>2. m \notin Before(P, m) /\ Before(P, m) \cup {m} \in SUBSET Before(P, n)
  <2>1. m \in Nat /\ \A k \in P : k \in Nat
    OBVIOUS
  <2>2. m \notin Before(P, m)
    BY <2>1 DEF Before
  <2>3. \A k \in Before(P, m) \cup {m} : k \in Before(P, n)
    BY <2>1 DEF Before
  <2> QED BY <2>2, <2>3
<1>3. Cardinality(Before(P, m) \cup {m}) = Cardinality(Before(P, m)) + 1
  BY <1>1, <1>2, FS_AddElement
<1>4. Cardinality(Before(P, m) \cup {m}) <= Cardinality(Before(P, n))
  BY <1>1, <1>2, FS_Subset
<1>5. Cardinality(Before(P, m)) \in Nat /\ Cardinality(Before(P, n)) \in Nat
  BY <1>1, FS_CardinalityType
<1> QED BY <1>3, <1>4, <1>5

(* Each of the numbers 1 .. |P| is the rank of one element of P.           *)
LEMMA NthIsElement ==
  ASSUME NEW P \in SUBSET Nat, IsFiniteSet(P), NEW i \in 1 .. Cardinality(P)
  PROVE  Nth(P, i) \in P /\ Cardinality(Before(P, Nth(P, i))) = i - 1
<1> DEFINE R == 1 .. Cardinality(P)
           rank == [n \in P |-> Cardinality(Before(P, n)) + 1]
<1>1. Cardinality(P) \in Nat /\ IsFiniteSet(R) /\ Cardinality(R) = Cardinality(P)
  BY FS_CardinalityType, FS_Interval
<1>2. ASSUME NEW n \in P
      PROVE  Cardinality(Before(P, n)) \in Nat /\ Cardinality(Before(P, n)) < Cardinality(P)
  <2>1. IsFiniteSet(P \ {n}) /\ Cardinality(P \ {n}) = Cardinality(P) - 1
    BY FS_RemoveElement
  <2>2. Before(P, n) \in SUBSET (P \ {n})
    BY DEF Before
  <2>3. Cardinality(Before(P, n)) <= Cardinality(P \ {n}) /\ IsFiniteSet(Before(P, n))
    BY <2>1, <2>2, FS_Subset
  <2> QED BY <1>1, <2>1, <2>3, FS_CardinalityType
<1>3. rank \in [P -> R]
  BY <1>1, <1>2
<1>4. ASSUME NEW m \in P, NEW n \in P, m # n PROVE rank[m] # rank[n]
  <2>1. m < n \/ n < m
    BY <1>4
  <2> QED BY <1>2, <2>1, BeforeIsMonotone
<1>5. rank \in Injection(P, R)
  BY <1>3, <1>4 DEF Injection, IsInjective
<1>6. rank \in Surjection(P, R)
  BY <1>1, <1>5, FS_Injection
<1>7. PICK n \in P : rank[n] = i
  BY <1>6 DEF Surjection
<1>8. Cardinality(Before(P, n)) = i - 1
  BY <1>2, <1>7
<1> QED BY <1>8 DEF Nth

(* The i-th element grows with i.                                          *)
LEMMA NthIsIncreasing ==
  ASSUME NEW P \in SUBSET Nat, IsFiniteSet(P),
         NEW i \in 1 .. Cardinality(P), NEW j \in 1 .. Cardinality(P), i < j
  PROVE  Nth(P, i) < Nth(P, j)
<1>1. /\ Nth(P, i) \in P /\ Nth(P, j) \in P
      /\ Nth(P, i) \in Nat /\ Nth(P, j) \in Nat
  BY NthIsElement
<1>2. /\ Cardinality(Before(P, Nth(P, i))) = i - 1
      /\ Cardinality(Before(P, Nth(P, j))) = j - 1
  BY NthIsElement
<1>3. i \in Int /\ j \in Int
  BY FS_CardinalityType
<1>4. Nth(P, i) # Nth(P, j) /\ ~ (Nth(P, j) < Nth(P, i))
  BY <1>1, <1>2, <1>3, BeforeIsMonotone
<1> QED BY <1>1, <1>4

(* Every element has a rank.                                               *)
LEMMA NthIsOnto ==
  ASSUME NEW P \in SUBSET Nat, IsFiniteSet(P), NEW n \in P
  PROVE  \E i \in 1 .. Cardinality(P) : Nth(P, i) = n
<1> DEFINE i == Cardinality(Before(P, n)) + 1
<1>1. IsFiniteSet(P \ {n}) /\ Cardinality(P \ {n}) = Cardinality(P) - 1
  BY FS_RemoveElement
<1>2. Before(P, n) \in SUBSET (P \ {n})
  BY DEF Before
<1>3. Cardinality(Before(P, n)) <= Cardinality(P \ {n}) /\ IsFiniteSet(Before(P, n))
  BY <1>1, <1>2, FS_Subset
<1>4. Cardinality(Before(P, n)) \in Nat /\ Cardinality(P) \in Nat
  BY <1>3, FS_CardinalityType
<1>5. i \in 1 .. Cardinality(P)
  BY <1>1, <1>3, <1>4
<1>6. /\ Nth(P, i) \in P /\ Nth(P, i) \in Nat /\ n \in Nat
      /\ Cardinality(Before(P, Nth(P, i))) = i - 1
  BY <1>5, NthIsElement
<1>7. Cardinality(Before(P, Nth(P, i))) = Cardinality(Before(P, n))
  BY <1>4, <1>6
<1>8. ~ (Nth(P, i) < n) /\ ~ (n < Nth(P, i))
  <2> HIDE DEF i
  <2> QED BY <1>4, <1>6, <1>7, BeforeIsMonotone
<1>9. Nth(P, i) = n
  <2> HIDE DEF i
  <2> QED BY <1>6, <1>8
<1> QED BY <1>5, <1>9

(* What AtPositions returns.                                               *)
THEOREM AtPositionsIsSubsequence ==
  ASSUME NEW S, NEW s \in Seq(S), NEW P \in SUBSET DOMAIN s
  PROVE  /\ IsFiniteSet(P) /\ Cardinality(P) \in Nat /\ Cardinality(P) <= Len(s)
         /\ AtPositions(s, P) \in Seq(S)
         /\ Len(AtPositions(s, P)) = Cardinality(P)
         /\ \A i \in 1 .. Cardinality(P) : Nth(P, i) \in P /\ AtPositions(s, P)[i] = s[Nth(P, i)]
         /\ \A i, j \in 1 .. Cardinality(P) : i < j => Nth(P, i) < Nth(P, j)
         /\ \A n \in P : \E i \in 1 .. Cardinality(P) : Nth(P, i) = n
<1>0. DOMAIN s = 1 .. Len(s) /\ Len(s) \in Nat
  OBVIOUS
<1>1. /\ DOMAIN s = 1 .. Len(s) /\ Len(s) \in Nat
      /\ IsFiniteSet(1 .. Len(s)) /\ Cardinality(1 .. Len(s)) = Len(s)
  <2> DEFINE n == Len(s)
  <2>1. n \in Nat
    OBVIOUS
  <2> HIDE DEF n
  <2>2. IsFiniteSet(1 .. n) /\ Cardinality(1 .. n) = n
    BY <2>1, FS_Interval
  <2> QED BY <1>0, <2>2 DEF n
<1>2. IsFiniteSet(P) /\ P \in SUBSET Nat /\ Cardinality(P) <= Len(s)
  BY <1>1, FS_Subset
<1>3. Cardinality(P) \in Nat
  BY <1>2, FS_CardinalityType
<1>4. \A i \in 1 .. Cardinality(P) : Nth(P, i) \in P
  BY <1>2, NthIsElement
<1>5. \A i \in 1 .. Cardinality(P) : s[Nth(P, i)] \in S
  BY <1>1, <1>4
<1>6. \A i, j \in 1 .. Cardinality(P) : i < j => Nth(P, i) < Nth(P, j)
  BY <1>2, NthIsIncreasing
<1>7. \A n \in P : \E i \in 1 .. Cardinality(P) : Nth(P, i) = n
  BY <1>2, NthIsOnto
<1> QED BY <1>2, <1>3, <1>4, <1>5, <1>6, <1>7 DEF AtPositions

-----------------------------------------------------------------------------
(* f[i] is the value of a loop after i of its n turns.                     *)
IsLoop(f, n, base, step) == f[0] = base /\ \A i \in 1 .. n : f[i] = step[i][f[i - 1]]

(* The function that gives the value of a loop after each number of turns  *)
(* exists, so that the CHOOSE behind its recursive definition has a value. *)
THEOREM LoopIsDefined ==
  ASSUME NEW n \in Nat, NEW S, NEW base \in S, NEW step \in [1 .. n -> [S -> S]]
  PROVE  \E f \in [0 .. n -> S] : IsLoop(f, n, base, step)
<1> DEFINE Loops(m, f) == f[0] = base /\ \A i \in 1 .. m : f[i] = step[i][f[i - 1]]
           T == {m \in 0 .. n : ~ \E f \in [0 .. m -> S] : Loops(m, f)}
<1>1. ASSUME T # {} PROVE FALSE
  <2>1. T \in SUBSET Nat
    OBVIOUS
  <2> HIDE DEF T
  <2>2. PICK m \in T : \A k \in T : m <= k
    BY <1>1, <2>1, LeastNatural, Zenon
  <2> USE DEF T
  <2>3. m \in 0 .. n /\ ~ \E f \in [0 .. m -> S] : Loops(m, f)
    BY <2>2
  <2>4. CASE m = 0
    <3>1. [i \in 0 .. 0 |-> base] \in [0 .. m -> S]
      BY <2>4
    <3>2. Loops(m, [i \in 0 .. 0 |-> base])
      BY <2>4
    <3> QED BY <2>3, <3>1, <3>2
  <2>5. CASE m # 0
    <3>1. m - 1 \in 0 .. n /\ m \in 1 .. n /\ ~ (m <= m - 1)
      BY <2>3, <2>5
    <3>2. PICK f \in [0 .. m - 1 -> S] : Loops(m - 1, f)
      BY <2>2, <3>1
    <3> DEFINE g == [i \in 0 .. m |-> IF i = m THEN step[m][f[m - 1]] ELSE f[i]]
    <3>3. step[m] \in [S -> S] /\ f[m - 1] \in S
      BY <3>1, <3>2
    <3>4. g \in [0 .. m -> S]
      <4>1. \A i \in 0 .. m : i # m => i \in 0 .. m - 1
        BY <2>3
      <4> QED BY <3>2, <3>3, <4>1
    <3>5. g[m] = step[m][g[m - 1]] /\ g[0] = base
      BY <2>3, <2>5, <3>2
    <3>6. \A i \in 1 .. m : i # m => g[i] = step[i][g[i - 1]]
      <4>1. ASSUME NEW i \in 1 .. m, i # m
            PROVE  /\ i \in 0 .. m /\ i - 1 \in 0 .. m /\ i - 1 # m /\ i \in 1 .. m - 1
        BY <2>3, <4>1
      <4> QED BY <3>2, <4>1
    <3>7. Loops(m, g)
      BY <3>5, <3>6
    <3> QED BY <2>3, <3>4, <3>7
  <2> QED BY <2>4, <2>5
<1>2. n \in 0 .. n
  OBVIOUS
<1> QED BY <1>1, <1>2 DEF IsLoop

-----------------------------------------------------------------------------
(* A finite set in a strict order, given as the set of its pairs.          *)
Preceding(S, R, x) == {y \in S : <<y, x>> \in R}
Sorted(S, R) ==
  [k \in 1 .. Cardinality(S) |-> CHOOSE x \in S : Cardinality(Preceding(S, R, x)) = k - 1]

IsStrictOrder(S, R) ==
  /\ \A x \in S : <<x, x>> \notin R
  /\ \A x, y \in S : x # y => <<x, y>> \in R \/ <<y, x>> \in R
  /\ \A x, y, z \in S : <<x, y>> \in R /\ <<y, z>> \in R => <<x, z>> \in R

(* More elements precede a later one.                                      *)
LEMMA PrecedingGrows ==
  ASSUME NEW S, IsFiniteSet(S), NEW R, IsStrictOrder(S, R), NEW x \in S, NEW y \in S, <<x, y>> \in R
  PROVE  /\ Cardinality(Preceding(S, R, x)) \in Nat
         /\ Cardinality(Preceding(S, R, x)) < Cardinality(Preceding(S, R, y))
<1> DEFINE A == Preceding(S, R, x)
           B == Preceding(S, R, y)
<1>1. IsFiniteSet(A) /\ IsFiniteSet(B)
  BY FS_Subset DEF Preceding
<1>2. x \notin A /\ A \cup {x} \in SUBSET B
  BY DEF Preceding, IsStrictOrder
<1>3. Cardinality(A \cup {x}) = Cardinality(A) + 1
  BY <1>1, <1>2, FS_AddElement
<1>4. Cardinality(A \cup {x}) <= Cardinality(B)
  BY <1>1, <1>2, FS_Subset
<1>5. Cardinality(A) \in Nat /\ Cardinality(B) \in Nat
  BY <1>1, FS_CardinalityType
<1> QED BY <1>3, <1>4, <1>5

(* Sorting lists every element of the set once, each before all those that *)
(* come after it in the order.                                             *)
THEOREM SortedListsTheSet ==
  ASSUME NEW S, IsFiniteSet(S), NEW R, IsStrictOrder(S, R)
  PROVE  /\ Cardinality(S) \in Nat /\ Sorted(S, R) \in Seq(S) /\ Len(Sorted(S, R)) = Cardinality(S)
         /\ \A x \in S : \E k \in 1 .. Cardinality(S) : Sorted(S, R)[k] = x
         /\ \A j, k \in 1 .. Cardinality(S) : j < k => <<Sorted(S, R)[j], Sorted(S, R)[k]>> \in R
<1> DEFINE n == Cardinality(S)
           C(x) == Cardinality(Preceding(S, R, x))
           place == [x \in S |-> C(x) + 1]
           s == Sorted(S, R)
<1>1. n \in Nat /\ IsFiniteSet(1 .. n) /\ Cardinality(1 .. n) = n
  BY FS_CardinalityType, FS_Interval
<1>2. ASSUME NEW x \in S
      PROVE  C(x) \in Nat /\ C(x) < n
  <2>1. IsFiniteSet(S \ {x}) /\ Cardinality(S \ {x}) = n - 1
    BY FS_RemoveElement
  <2>2. Preceding(S, R, x) \in SUBSET (S \ {x})
    BY DEF Preceding, IsStrictOrder
  <2>3. C(x) <= n - 1 /\ IsFiniteSet(Preceding(S, R, x))
    BY <2>1, <2>2, FS_Subset
  <2> QED BY <1>1, <2>3, FS_CardinalityType
<1>3. place \in [S -> 1 .. n]
  BY <1>1, <1>2
<1>4. ASSUME NEW x \in S, NEW y \in S, x # y PROVE place[x] # place[y]
  <2>1. <<x, y>> \in R \/ <<y, x>> \in R
    BY <1>4 DEF IsStrictOrder
  <2> QED BY <1>2, <2>1, PrecedingGrows
<1>5. place \in Injection(S, 1 .. n)
  BY <1>3, <1>4 DEF Injection, IsInjective
<1>6. place \in Surjection(S, 1 .. n)
  BY <1>1, <1>5, FS_Injection
<1>7. ASSUME NEW k \in 1 .. n
      PROVE  s[k] \in S /\ C(s[k]) = k - 1
  <2>1. PICK x \in S : place[x] = k
    BY <1>6 DEF Surjection
  <2>2. C(x) = k - 1
    BY <1>2, <2>1
  <2>3. s[k] = CHOOSE y \in S : C(y) = k - 1
    BY DEF Sorted
  <2> QED BY <2>2, <2>3
<1>8. s \in Seq(S) /\ Len(s) = n
  <2>1. s = [k \in 1 .. n |-> s[k]]
    BY DEF Sorted
  <2> HIDE DEF s, n
  <2> QED BY <1>1, <1>7, <2>1
<1>9. ASSUME NEW j \in 1 .. n, NEW k \in 1 .. n, j < k
      PROVE  <<s[j], s[k]>> \in R
  <2>1. s[j] \in S /\ s[k] \in S /\ C(s[j]) < C(s[k]) /\ C(s[j]) \in Nat /\ C(s[k]) \in Nat
    BY <1>1, <1>2, <1>7, <1>9
  <2>2. s[j] # s[k] /\ ~ (<<s[k], s[j]>> \in R)
    <3> HIDE DEF s
    <3> QED BY <2>1, PrecedingGrows
  <2> HIDE DEF s
  <2> QED BY <2>1, <2>2 DEF IsStrictOrder
<1>10. ASSUME NEW x \in S
       PROVE  \E k \in 1 .. n : s[k] = x
  <2> DEFINE k == place[x]
  <2>1. k \in 1 .. n /\ C(x) = k - 1
    BY <1>2, <1>3
  <2>2. s[k] \in S /\ C(s[k]) = C(x)
    BY <1>7, <2>1
  <2>3. ~ (<<s[k], x>> \in R) /\ ~ (<<x, s[k]>> \in R)
    <3> HIDE DEF s, k
    <3> QED BY <1>2, <2>2, PrecedingGrows
  <2>4. s[k] = x
    <3> HIDE DEF s, k
    <3> QED BY <2>2, <2>3 DEF IsStrictOrder
  <2> QED BY <2>1, <2>4
<1> QED BY <1>1, <1>8, <1>9, <1>10
=============================================================================
