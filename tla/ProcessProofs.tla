--------------------------- MODULE ProcessProofs ----------------------------
(***************************************************************************)
(* Proofs about run_bounded, for any limit, block and pipe sizes, and any  *)
(* child, descendants and interleaving of the readers; and about the       *)
(* sessions that share a vector index, for any number of them, any         *)
(* machines and sources, wherever they die.                                *)
(***************************************************************************)
EXTENDS RunBounded, VectorIndex, SequenceTheorems, TLAPS

Finished == {"close", "joinAgain", "done"}

(* A reader ends, before the caller closes its stream under it, only when  *)
(* it has taken everything and nobody is left to write more.               *)
EndsAreFinal ==
  \A s \in Streams :
    pc \notin Finished =>
      /\ s \in closed => reader[s] = "ended"
      /\ reader[s] = "ended" => /\ total[s] = taken[s] /\ taken[s] = written[s]
                                /\ \A p \in Processes : process[p] # "running"

ChildWasStarted == process["child"] # "none"

BInv ==
  TypeOK /\ KeptIsHeadAndTail /\ EndsAreFinal /\ ChildWasStarted /\ GroupIsKilled

-----------------------------------------------------------------------------
(* The n numbers that follow a.                                            *)
After(a, n) == [i \in 1 .. n |-> a + i]

(* Successive bytes are a sequence of numbers.                             *)
LEMMA AfterIsSequence ==
  ASSUME NEW a \in Nat, NEW n \in Nat
  PROVE  /\ After(a, n) \in Seq(Nat) /\ Len(After(a, n)) = n
         /\ \A m \in Nat : a + n <= m => After(a, n) \in Seq(1 .. m)
<1>1. After(a, n) \in [1 .. n -> Nat]
  BY DEF After
<1>2. \A m \in Nat : a + n <= m => After(a, n) \in [1 .. n -> 1 .. m]
  BY DEF After
<1> QED BY <1>1, <1>2

(* Two successive runs of bytes are one run.                               *)
LEMMA AfterAppended ==
  ASSUME NEW a \in Nat, NEW n \in Nat, NEW m \in Nat
  PROVE  After(a, n) \o After(a + n, m) = After(a, n + m)
<1> DEFINE b == a + n
           k == n + m
           left == After(a, n)
           right == After(b, m)
<1>1. b \in Nat /\ k \in Nat
  OBVIOUS
<1>2. \A i \in 1 .. n : left[i] = a + i
  BY DEF After
<1>3. \A i \in 1 .. m : right[i] = a + n + i
  BY DEF After
<1>4. \A i \in 1 .. k : After(a, k)[i] = a + i
  BY DEF After
<1>5. k = n + m
  OBVIOUS
<1> HIDE DEF b, k
<1>6. /\ left \in Seq(Nat) /\ Len(left) = n
      /\ right \in Seq(Nat) /\ Len(right) = m
      /\ After(a, k) \in Seq(Nat) /\ Len(After(a, k)) = k
  BY <1>1, AfterIsSequence
<1> HIDE DEF left, right
<1>7. /\ left \o right \in Seq(Nat) /\ Len(left \o right) = n + m
      /\ \A i \in 1 .. n + m :
           (left \o right)[i] = IF i <= n THEN left[i] ELSE right[i - n]
  BY <1>6, ConcatProperties, Zenon
<1>8. ASSUME NEW i \in 1 .. k
      PROVE  (left \o right)[i] = After(a, k)[i]
  <2>1. i \in Nat /\ i \in 1 .. n + m
    BY <1>1, <1>5
  <2>2. CASE i <= n
    <3>1. (left \o right)[i] = left[i] /\ i \in 1 .. n
      BY <1>7, <2>1, <2>2
    <3> QED BY <1>2, <1>4, <3>1
  <2>3. CASE i > n
    <3>1. (left \o right)[i] = right[i - n]
      BY <1>7, <2>1, <2>3
    <3>2. i - n \in 1 .. m
      BY <2>1, <2>3
    <3>3. right[i - n] = a + n + (i - n)
      BY <1>3, <3>2
    <3> QED BY <1>4, <2>1, <3>1, <3>3
  <2>4. i <= n \/ i > n
    BY <2>1
  <2> QED BY <2>2, <2>3, <2>4, Zenon
<1>9. left \o right = After(a, k)
  BY <1>5, <1>6, <1>7, <1>8, SeqEqual, Zenon
<1> QED BY <1>9 DEF left, right, b, k

(* A part of successive bytes is a run of its own.                         *)
LEMMA AfterCut ==
  ASSUME NEW a \in Nat, NEW n \in Nat, NEW i \in 1 .. n + 1, NEW j \in 0 .. n, i <= j + 1
  PROVE  SubSeq(After(a, n), i, j) = After(a + i - 1, j - i + 1)
<1>1. /\ After(a, n) \in Seq(Nat) /\ Len(After(a, n)) = n
      /\ j - i + 1 \in Nat /\ a + i - 1 \in Nat
  BY AfterIsSequence
<1>2. SubSeq(After(a, n), i, j) = [k \in 1 .. j - i + 1 |-> After(a, n)[i + k - 1]]
  BY <1>1
<1>3. \A k \in 1 .. j - i + 1 : After(a, n)[i + k - 1] = a + i - 1 + k
  BY <1>1 DEF After
<1> QED BY <1>2, <1>3 DEF After

(* The last of successive bytes.                                           *)
LEMMA AfterLast ==
  ASSUME NEW a \in Nat, NEW n \in Nat, NEW k \in Nat
  PROVE  Last(After(a, n), k) = After(a + n - Least(n, k), Least(n, k))
<1>1. Len(After(a, n)) = n
  BY AfterIsSequence
<1>2. CASE n > k
  <2>1. Last(After(a, n), k) = SubSeq(After(a, n), n - k + 1, n) /\ Least(n, k) = k
    BY <1>1, <1>2 DEF Last, Least
  <2>2. n - k + 1 \in 1 .. n + 1 /\ n \in 0 .. n /\ n - k + 1 <= n + 1
    BY <1>2
  <2>3. SubSeq(After(a, n), n - k + 1, n) = After(a + (n - k + 1) - 1, n - (n - k + 1) + 1)
    BY <2>2, AfterCut
  <2>4. a + (n - k + 1) - 1 = a + n - k /\ n - (n - k + 1) + 1 = k
    OBVIOUS
  <2> QED BY <2>1, <2>3, <2>4
<1>3. CASE ~ (n > k)
  <2>1. Last(After(a, n), k) = After(a, n) /\ Least(n, k) = n
    BY <1>1, <1>3 DEF Last, Least
  <2>2. a + n - n = a
    OBVIOUS
  <2> QED BY <2>1, <2>2
<1> QED BY <1>2, <1>3

-----------------------------------------------------------------------------
(* The head takes at least one byte.                                       *)
LEMMA LimitsAreNumbers == HeadLimit \in Nat \ {0} /\ TailLimit \in Nat
<1>1. Limit \in Nat \ {0}
  BY RunAssumption
<1>2. (Limit * 3) \div 4 \in Nat
  BY <1>1
<1>3. HeadLimit \in Nat \ {0}
  BY <1>2 DEF HeadLimit
<1> QED BY <1>1, <1>3 DEF TailLimit

(* What is kept of the first T bytes.                                      *)
HeadOf(T) == After(0, Least(T, HeadLimit))
Ends(T)   == Least(T - Least(T, HeadLimit), TailLimit)
TailOf(T) == After(T - Ends(T), Ends(T))

(* The head, as a function of the bytes read.                              *)
LEMMA HeadForm == \A T \in Nat : HeadOf(T) = [i \in 1 .. Least(T, HeadLimit) |-> i]
<1> TAKE T \in Nat
<1>1. Least(T, HeadLimit) \in Nat
  BY LimitsAreNumbers DEF Least
<1>2. \A i \in 1 .. Least(T, HeadLimit) : 0 + i = i
  BY <1>1
<1> QED BY <1>2 DEF HeadOf, After

(* What the parts that are kept add up to.                                 *)
Kept(T)    == Least(T, HeadLimit)
Room(T, N) == Least(HeadLimit - Kept(T), N - T)

(* What more bytes add to the parts that are kept.                         *)
LEMMA KeptCounts ==
  ASSUME NEW T \in Nat, NEW N \in Nat, T <= N
  PROVE  /\ Kept(T) \in Nat /\ Ends(T) \in Nat /\ Room(T, N) \in Nat
         /\ Room(T, N) <= N - T /\ Ends(T) <= T
         /\ Kept(T) + Room(T, N) = Kept(N)
         /\ Room(T, N) > 0 => Kept(T) = T /\ Ends(T) = 0
         /\ Least(Ends(T) + (N - T - Room(T, N)), TailLimit) = Ends(N)
<1>1. HeadLimit \in Nat /\ TailLimit \in Nat
  BY LimitsAreNumbers
<1> QED BY <1>1 DEF Kept, Ends, Room, Least

(* There is one way to read nothing.                                       *)
LEMMA AfterNothing == \A a, b : After(a, 0) = After(b, 0)
BY DEF After

(* A block that ends at byte N is added to the head and tail of the first T.*)
LEMMA BlockIsKept ==
  ASSUME NEW T \in Nat, NEW N \in Nat, T <= N,
         NEW g, g = Least(HeadLimit - Len(HeadOf(T)), N - T)
  PROVE  /\ HeadOf(T) \o SubSeq(After(T, N - T), 1, g) = HeadOf(N)
         /\ Last(TailOf(T) \o SubSeq(After(T, N - T), g + 1, N - T), TailLimit) = TailOf(N)
<1> DEFINE h == Kept(T)
           e == Ends(T)
           n == N - T
<1>1. HeadLimit \in Nat /\ TailLimit \in Nat
  BY LimitsAreNumbers
<1>2. Kept(T) \in Nat /\ 0 \in Nat
  BY KeptCounts
<1>3. HeadOf(T) = After(0, Kept(T)) /\ Len(HeadOf(T)) = Kept(T)
  BY <1>2, AfterIsSequence, Zenon DEF HeadOf, Kept
<1>4. g = Room(T, N)
  BY <1>3 DEF Room
<1>5. /\ h \in Nat /\ e \in Nat /\ g \in Nat /\ n \in Nat /\ g <= n /\ e <= T
      /\ h + g = Kept(N)
      /\ g > 0 => h = T /\ e = 0
      /\ Least(e + (n - g), TailLimit) = Ends(N)
  BY <1>4, KeptCounts
<1>6. HeadOf(T) = After(0, h) /\ TailOf(T) = After(T - e, e)
  BY <1>3 DEF TailOf
<1> HIDE DEF h, e, n
<1>7. n - g \in Nat /\ T + g \in Nat /\ T - e \in Nat /\ e + (n - g) \in Nat
  BY <1>5
<1>8. /\ SubSeq(After(T, n), 1, g) = After(T, g)
      /\ SubSeq(After(T, n), g + 1, n) = After(T + g, n - g)
  <2>1. /\ 1 \in 1 .. n + 1 /\ g \in 0 .. n /\ 1 <= g + 1
        /\ g + 1 \in 1 .. n + 1 /\ n \in 0 .. n /\ g + 1 <= n + 1
    BY <1>5
  <2>2. SubSeq(After(T, n), 1, g) = After(T + 1 - 1, g - 1 + 1)
    BY <1>5, <2>1, AfterCut, Zenon
  <2>3. SubSeq(After(T, n), g + 1, n) = After(T + (g + 1) - 1, n - (g + 1) + 1)
    BY <1>5, <2>1, AfterCut, Zenon
  <2>4. T + 1 - 1 = T /\ g - 1 + 1 = g /\ T + (g + 1) - 1 = T + g /\ n - (g + 1) + 1 = n - g
    BY <1>5
  <2> QED BY <2>2, <2>3, <2>4, Zenon
<1>9. After(0, h) \o After(T, g) = HeadOf(N)
  <2>1. After(T, g) = After(0 + h, g)
    <3>1. CASE g = 0
      BY <3>1, AfterNothing
    <3>2. CASE g > 0
      <4>1. 0 + h = T
        BY <1>5, <3>2
      <4> QED BY <4>1
    <3> QED BY <1>5, <3>1, <3>2
  <2>2. After(0, h) \o After(0 + h, g) = After(0, h + g)
    <3>1. 0 \in Nat
      OBVIOUS
    <3> QED BY <1>5, <3>1, AfterAppended, Zenon
  <2> QED BY <1>5, <2>1, <2>2 DEF HeadOf, Kept
<1>10. After(T - e, e) \o After(T + g, n - g) = After(T + g - e, e + (n - g))
  <2>1. After(T - e, e) = After(T + g - e, e) /\ T + g - e \in Nat
    <3>1. CASE g = 0
      <4>1. T - e = T + g - e
        BY <1>5, <3>1
      <4> QED BY <1>7, <4>1
    <3>2. CASE g > 0
      BY <1>5, <3>2, AfterNothing
    <3> QED BY <1>5, <3>1, <3>2
  <2>2. T + g - e + e = T + g
    BY <1>5
  <2> DEFINE b == T + g - e
             k == n - g
  <2>3. After(b, e) \o After(b + e, k) = After(b, e + k)
    <3>1. b \in Nat /\ k \in Nat /\ e \in Nat
      BY <1>5, <1>7, <2>1
    <3> HIDE DEF b, k
    <3> QED BY <3>1, AfterAppended, Zenon
  <2> QED BY <2>1, <2>2, <2>3
<1>11. Last(After(T + g - e, e + (n - g)), TailLimit) = TailOf(N)
  <2> DEFINE b == T + g - e
             k == e + (n - g)
  <2>1. b \in Nat /\ k \in Nat /\ b + k = N
    <3>1. /\ e \in Nat /\ g \in Nat /\ n \in Nat /\ g <= n /\ e <= T /\ N = T + n
      BY <1>5 DEF n
    <3> HIDE DEF n
    <3> QED BY <3>1
  <2> HIDE DEF b, k
  <2>2. Last(After(b, k), TailLimit) = After(b + k - Least(k, TailLimit), Least(k, TailLimit))
    BY <1>1, <2>1, AfterLast
  <2>3. Least(k, TailLimit) = Ends(N)
    BY <1>5 DEF k
  <2>4. b + k - Least(k, TailLimit) = N - Ends(N)
    <3>1. N <= N
      OBVIOUS
    <3>2. Ends(N) \in Nat
      BY <3>1, KeptCounts, Zenon
    <3> QED BY <2>1, <2>3, <3>2
  <2>5. Last(After(b, k), TailLimit) = After(N - Ends(N), Ends(N))
    BY <2>2, <2>3, <2>4, Zenon
  <2> QED BY <2>5 DEF b, k, TailOf
<1> QED BY <1>6, <1>8, <1>9, <1>10, <1>11 DEF n

-----------------------------------------------------------------------------
(* The control variables have their types.                                 *)
ControlOK ==
  /\ timeout \in BOOLEAN /\ hangs \in BOOLEAN /\ denied \in BOOLEAN
  /\ process \in [Processes -> {"none", "running", "gone"}]
  /\ reader \in [Streams -> {"between", "reading", "ended"}]
  /\ closed \subseteq Streams
  /\ pc \in {"wait", "kill", "reap", "join", "close", "joinAgain", "done"}
  /\ timedOut \in BOOLEAN

(* The type invariant of the module in three parts.                        *)
LEMMA TypeParts == TypeOK <=> ControlOK /\ CountsOK /\ OutputOK
BY DEF TypeOK, ControlOK

(* Head and tail of T bytes are as long as they may be.                    *)
LEMMA KeptIsBounded ==
  ASSUME NEW T \in Nat, NEW M \in Nat, T <= M
  PROVE  /\ HeadOf(T) \in Seq(Nat) /\ TailOf(T) \in Seq(Nat)
         /\ HeadOf(T) \in Seq(1 .. M) /\ Len(HeadOf(T)) <= HeadLimit
         /\ TailOf(T) \in Seq(1 .. M) /\ Len(TailOf(T)) <= TailLimit
<1>1. /\ Kept(T) \in Nat /\ Kept(T) <= T /\ Kept(T) <= HeadLimit
      /\ Ends(T) \in Nat /\ Ends(T) <= T /\ Ends(T) <= TailLimit
  BY LimitsAreNumbers DEF Kept, Ends, Least
<1>2. 0 \in Nat /\ T - Ends(T) \in Nat /\ 0 + Kept(T) <= M /\ T - Ends(T) + Ends(T) <= M
  BY <1>1
<1>3. HeadOf(T) \in Seq(Nat) /\ Len(HeadOf(T)) = Kept(T) /\ HeadOf(T) \in Seq(1 .. M)
  BY <1>1, <1>2, AfterIsSequence, Zenon DEF HeadOf, Kept
<1>4. TailOf(T) \in Seq(Nat) /\ Len(TailOf(T)) = Ends(T) /\ TailOf(T) \in Seq(1 .. M)
  BY <1>1, <1>2, AfterIsSequence, Zenon DEF TailOf
<1> QED BY <1>1, <1>3, <1>4

(* Bytes are written before they are taken, and taken before they count.   *)
LEMMA CountsAreBounded ==
  CountsOK => \A s \in Streams :
    /\ total[s] \in Nat /\ taken[s] \in Nat /\ written[s] \in Nat /\ MaxBytes[s] \in Nat
    /\ total[s] <= taken[s] /\ taken[s] <= written[s] /\ taken[s] <= MaxBytes[s]
<1> SUFFICES ASSUME CountsOK, NEW s \in Streams
    PROVE  /\ total[s] \in Nat /\ taken[s] \in Nat /\ written[s] \in Nat /\ MaxBytes[s] \in Nat
           /\ total[s] <= taken[s] /\ taken[s] <= written[s] /\ taken[s] <= MaxBytes[s]
  OBVIOUS
<1>1. total[s] \in Nat /\ taken[s] \in Nat /\ written[s] \in Nat
  BY DEF CountsOK
<1>2. MaxBytes[s] \in Nat
  BY RunAssumption
<1>3. total[s] <= taken[s] /\ taken[s] <= written[s] /\ written[s] <= MaxBytes[s]
  BY DEF CountsOK
<1> QED BY <1>1, <1>2, <1>3

(* A reader's block leaves the head and tail of all it has read.           *)
LEMMA BlockIsRead ==
  ASSUME CountsOK, OutputOK, KeptIsHeadAndTail, NEW s \in Streams, Keep(s)
  PROVE  KeptIsHeadAndTail' /\ OutputOK' /\ total' = [total EXCEPT ![s] = taken[s]]
<1>1. /\ total \in [Streams -> Nat] /\ taken \in [Streams -> Nat]
      /\ head \in [Streams -> Seq(Nat)] /\ tail \in [Streams -> Seq(Nat)]
  BY DEF CountsOK, OutputOK
<1> DEFINE T == total[s]
           N == taken[s]
           block == [i \in 1 .. N - T |-> T + i]
           g == Least(HeadLimit - Len(head[s]), Len(block))
<1>2. /\ total' = [total EXCEPT ![s] = N]
      /\ head' = [head EXCEPT ![s] = head[s] \o SubSeq(block, 1, g)]
      /\ tail' = [tail EXCEPT ![s] = Last(tail[s] \o SubSeq(block, g + 1, Len(block)), TailLimit)]
  BY DEF Keep
<1>3. T \in Nat /\ N \in Nat /\ T <= N /\ N - T \in Nat
  BY CountsAreBounded
<1>4. \A t \in Streams : head[t] = HeadOf(total[t]) /\ tail[t] = TailOf(total[t])
  BY <1>1, HeadForm DEF KeptIsHeadAndTail, TailOf, Ends, After
<1>5. block = After(T, N - T) /\ Len(block) = N - T
  BY <1>3 DEF After
<1>6. g = Least(HeadLimit - Len(HeadOf(T)), N - T)
  BY <1>4, <1>5
<1>7. \A t \in Streams : t # s => head'[t] = head[t] /\ tail'[t] = tail[t] /\ total'[t] = total[t]
  BY <1>1, <1>2
<1>8. head'[s] = HeadOf(T) \o SubSeq(After(T, N - T), 1, g)
  BY <1>1, <1>2, <1>4, <1>5, Zenon
<1>9. tail'[s] = Last(TailOf(T) \o SubSeq(After(T, N - T), g + 1, N - T), TailLimit)
  BY <1>1, <1>2, <1>4, <1>5, Zenon
<1>10. total'[s] = N /\ total' \in [Streams -> Nat]
  BY <1>1, <1>2
<1>11. head' = [t \in Streams |-> head'[t]] /\ tail' = [t \in Streams |-> tail'[t]]
  BY <1>1, <1>2
<1>12. total' = [total EXCEPT ![s] = taken[s]]
  BY <1>2
<1>13. \A t \in Streams : total'[t] \in Nat /\ MaxBytes[t] \in Nat /\ total'[t] <= MaxBytes[t]
  BY <1>1, <1>12, CountsAreBounded
<1> HIDE DEF T, N, block, g
<1>14. head'[s] = HeadOf(N) /\ tail'[s] = TailOf(N)
  BY <1>3, <1>6, <1>8, <1>9, BlockIsKept, Zenon
<1>15. \A t \in Streams : head'[t] = HeadOf(total'[t]) /\ tail'[t] = TailOf(total'[t])
  BY <1>4, <1>7, <1>10, <1>14
<1>16. KeptIsHeadAndTail'
  BY <1>10, <1>15, HeadForm DEF KeptIsHeadAndTail, TailOf, Ends, After
<1>17. OutputOK'
  <2>1. \A t \in Streams :
          /\ head'[t] \in Seq(Nat) /\ tail'[t] \in Seq(Nat)
          /\ head'[t] \in Seq(1 .. MaxBytes[t]) /\ Len(head'[t]) <= HeadLimit
          /\ tail'[t] \in Seq(1 .. MaxBytes[t]) /\ Len(tail'[t]) <= TailLimit
    BY <1>13, <1>15, KeptIsBounded, Zenon
  <2>2. head' \in [Streams -> Seq(Nat)] /\ tail' \in [Streams -> Seq(Nat)]
    BY <1>11, <2>1, Zenon
  <2> QED BY <2>1, <2>2 DEF OutputOK
<1> QED BY <1>12, <1>16, <1>17

-----------------------------------------------------------------------------
(* When the child has started, nothing was read.                           *)
LEMMA RunStart == Init => BInv
<1> SUFFICES ASSUME Init PROVE BInv
  OBVIOUS
<1>1. ControlOK
  BY DEF Init, ControlOK, Processes, Descendants
<1>2. CountsOK
  <2>1. /\ MaxBytes \in [Streams -> Nat] /\ PipeSize \in Nat /\ Block \in Nat
        /\ MaxBytes["stdout"] \in Nat /\ MaxBytes["stderr"] \in Nat
    BY RunAssumption DEF Streams
  <2>2. quota \in [Streams -> Nat] /\ \A s \in Streams : quota[s] <= MaxBytes[s]
    BY <2>1 DEF Init
  <2>3. /\ written = [s \in Streams |-> 0] /\ taken = [s \in Streams |-> 0]
        /\ total = [s \in Streams |-> 0]
    BY DEF Init
  <2> QED BY <2>1, <2>2, <2>3 DEF CountsOK
<1>3. /\ head = [s \in Streams |-> <<>>] /\ tail = [s \in Streams |-> <<>>]
      /\ total = [s \in Streams |-> 0]
  BY DEF Init
<1>4. OutputOK
  <2>1. \A M : <<>> \in Seq(M) /\ Len(<<>>) = 0
    BY EmptySeq
  <2> QED BY <1>3, <2>1, LimitsAreNumbers DEF OutputOK
<1>5. KeptIsHeadAndTail
  <2>1. Least(0, HeadLimit) = 0 /\ Least(0 - 0, TailLimit) = 0
    BY LimitsAreNumbers DEF Least
  <2>2. \A a : [i \in 1 .. 0 |-> a + i] = <<>> /\ [i \in 1 .. 0 |-> i] = <<>>
    OBVIOUS
  <2> QED BY <1>3, <2>1, <2>2 DEF KeptIsHeadAndTail
<1>6. EndsAreFinal
  BY DEF Init, EndsAreFinal
<1>7. GroupIsKilled
  BY DEF Init, GroupIsKilled
<1>8. ChildWasStarted
  BY DEF Init, ChildWasStarted, Processes
<1> QED BY <1>1, <1>2, <1>4, <1>5, <1>6, <1>7, <1>8, TypeParts DEF BInv

(* What a step that keeps no block leaves alone.                           *)
LEMMA OutputStays ==
  OutputOK /\ KeptIsHeadAndTail /\ UNCHANGED output => OutputOK' /\ KeptIsHeadAndTail'
BY DEF OutputOK, KeptIsHeadAndTail, output

(* A step that moves no byte keeps the counts.                             *)
LEMMA CountsStay ==
  CountsOK /\ UNCHANGED <<quota, written, taken, total>> /\ closed \subseteq closed' => CountsOK'
BY DEF CountsOK

(* The parts of the invariant.                                             *)
LEMMA InvParts ==
  BInv => /\ ControlOK /\ CountsOK /\ OutputOK
          /\ KeptIsHeadAndTail /\ EndsAreFinal /\ ChildWasStarted /\ GroupIsKilled
BY TypeParts DEF BInv

(* The invariant from its parts.                                           *)
LEMMA PartsInv ==
  /\ ControlOK' /\ CountsOK' /\ OutputOK'
  /\ KeptIsHeadAndTail' /\ EndsAreFinal' /\ ChildWasStarted' /\ GroupIsKilled'
  => BInv'
BY DEF BInv, TypeOK, ControlOK

(* A process writes a byte to a pipe.                                      *)
LEMMA WriteStep ==
  ASSUME BInv, NEW p \in Processes, NEW s \in Streams, Writes(p, s)
  PROVE  BInv'
<1>1. /\ process[p] = "running" /\ written' = [written EXCEPT ![s] = written[s] + 1]
      /\ UNCHANGED <<choices, process, taken, output, reader, closed, pc, timedOut>>
  BY DEF Writes
<1>2. ControlOK' /\ ChildWasStarted' /\ GroupIsKilled'
  BY <1>1, InvParts DEF ControlOK, ChildWasStarted, GroupIsKilled, choices
<1>3. OutputOK' /\ KeptIsHeadAndTail'
  BY <1>1, InvParts, OutputStays
<1>4. EndsAreFinal'
  BY <1>1, InvParts DEF EndsAreFinal, output
<1>5. CountsOK'
  <2>1. /\ quota \in [Streams -> Nat] /\ written \in [Streams -> Nat]
        /\ taken \in [Streams -> Nat] /\ total \in [Streams -> Nat]
    BY InvParts DEF CountsOK
  <2>2. PipeSize \in Nat /\ \A t \in Streams : MaxBytes[t] \in Nat
    BY RunAssumption
  <2>3. written[s] + 1 <= MaxBytes[s] /\ (s \in closed \/ written[s] + 1 - taken[s] <= PipeSize)
    <3>1. written[s] < MaxBytes[s]
      <4>1. quota[s] <= MaxBytes[s]
        BY InvParts DEF CountsOK
      <4> QED BY <2>1, <2>2, <4>1 DEF Writes
    <3>2. s \in closed \/ written[s] - taken[s] < PipeSize
      BY DEF Writes
    <3> QED BY <2>1, <2>2, <3>1, <3>2
  <2>4. written' \in [Streams -> Nat] /\ \A t \in Streams : t # s => written'[t] = written[t]
    BY <1>1, <2>1
  <2>5. written'[s] = written[s] + 1
    BY <1>1, <2>1
  <2>6. /\ UNCHANGED <<quota, taken, total, closed>>
    BY <1>1 DEF choices, output
  <2>7. \A t \in Streams :
          /\ quota[t] <= MaxBytes[t] /\ written'[t] <= MaxBytes[t]
          /\ total[t] <= taken[t] /\ taken[t] <= written'[t]
          /\ (t \in closed \/ written'[t] - taken[t] <= PipeSize) /\ taken[t] - total[t] <= Block
    <3> TAKE t \in Streams
    <3>1. /\ quota[t] <= MaxBytes[t] /\ written[t] <= MaxBytes[t]
          /\ total[t] <= taken[t] /\ taken[t] <= written[t]
          /\ (t \in closed \/ written[t] - taken[t] <= PipeSize) /\ taken[t] - total[t] <= Block
      BY InvParts DEF CountsOK
    <3>2. CASE t = s
      BY <2>1, <2>3, <2>5, <3>1, <3>2
    <3>3. CASE t # s
      BY <2>4, <3>1, <3>3
    <3> QED BY <3>2, <3>3
  <2> QED BY <2>1, <2>4, <2>6, <2>7 DEF CountsOK
<1> QED BY <1>2, <1>3, <1>4, <1>5, PartsInv

(* Processes come and go, and the group is killed.                         *)
LEMMA ProcessStep ==
  ASSUME BInv,
         \/ \E d \in Descendants : Forks(d)
         \/ \E p \in Processes : Exits(p)
         \/ Kills
  PROVE  BInv'
<1>1. UNCHANGED <<choices, written, taken, output, reader, closed, timedOut>>
  BY DEF Forks, Exits, Kills
<1>2. /\ process' \in [Processes -> {"none", "running", "gone"}]
      /\ \A p \in Processes : process'[p] = "running" =>
           process[p] = "running" \/ process["child"] = "running"
      /\ process["child"] # "running" => process'["child"] = process["child"]
  <2>1. process \in [Processes -> {"none", "running", "gone"}]
    BY InvParts DEF ControlOK
  <2>2. "child" \in Processes /\ Descendants \subseteq Processes /\ "child" \notin Descendants
    BY DEF Processes, Descendants
  <2>3. CASE \E d \in Descendants : Forks(d)
    BY <2>1, <2>2, <2>3 DEF Forks
  <2>4. CASE \E p \in Processes : Exits(p)
    BY <2>1, <2>2, <2>4 DEF Exits
  <2>5. CASE Kills
    BY <2>1, <2>2, <2>5 DEF Kills
  <2> QED BY <2>3, <2>4, <2>5
<1>3. pc' = pc \/ (pc = "kill" /\ pc' = "reap")
  BY DEF Forks, Exits, Kills
<1>4. ControlOK'
  BY <1>1, <1>2, <1>3, InvParts DEF ControlOK, choices
<1>5. CountsOK' /\ OutputOK' /\ KeptIsHeadAndTail'
  <2>1. UNCHANGED <<quota, written, taken, total>> /\ closed \subseteq closed'
    BY <1>1 DEF choices, output
  <2> QED BY <1>1, <2>1, InvParts, CountsStay, OutputStays
<1>6. EndsAreFinal'
  BY <1>1, <1>2, <1>3, InvParts DEF EndsAreFinal, Finished, output, Processes
<1>7. ChildWasStarted' /\ GroupIsKilled'
  <2>1. /\ process \in [Processes -> {"none", "running", "gone"}]
        /\ "child" \in Processes /\ "group" \in Processes /\ process["child"] # "none"
    BY InvParts DEF ControlOK, Processes, Descendants, ChildWasStarted
  <2>2. process["child"] \in {"running", "gone"} /\ UNCHANGED <<denied, timedOut>>
    BY <1>1, <2>1 DEF choices
  <2>3. CASE \E d \in Descendants : Forks(d)
    <3>1. process["child"] = "running" /\ pc' = pc /\ process'["child"] = "running"
      BY <2>1, <2>3 DEF Forks, Descendants
    <3> QED BY <2>2, <3>1, InvParts DEF GroupIsKilled, ChildWasStarted
  <2>4. CASE \E p \in Processes : Exits(p)
    <3>1. /\ pc' = pc
          /\ \A q \in Processes : process'[q] \in {process[q], "gone"}
      BY <2>1, <2>4 DEF Exits
    <3> QED BY <2>1, <2>2, <3>1, InvParts DEF GroupIsKilled, ChildWasStarted
  <2>5. CASE Kills
    <3>1. /\ process'["child"] = "gone"
          /\ ~denied => process'["group"] # "running"
      BY <2>1, <2>2, <2>5 DEF Kills
    <3> QED BY <2>2, <3>1 DEF GroupIsKilled, ChildWasStarted
  <2> QED BY <2>3, <2>4, <2>5
<1> QED BY <1>4, <1>5, <1>6, <1>7, PartsInv

(* A reader takes a block, keeps a part of it, or ends.                    *)
LEMMA ReaderStep ==
  ASSUME BInv, NEW s \in Streams, Reader(s)
  PROVE  BInv'
<1>0. /\ ControlOK /\ CountsOK /\ OutputOK /\ KeptIsHeadAndTail
      /\ EndsAreFinal /\ ChildWasStarted /\ GroupIsKilled
  BY InvParts
<1>1. UNCHANGED <<choices, process, written, pc, timedOut>>
  BY DEF Reader, Reads, Drains, Consumes, ReaderEnds
<1>2. ChildWasStarted' /\ GroupIsKilled'
  BY <1>0, <1>1 DEF ChildWasStarted, GroupIsKilled, choices
<1>3. CASE Reads(s)
  <2>1. /\ reader[s] = "between" /\ s \notin closed
        /\ reader' = [reader EXCEPT ![s] = "reading"]
        /\ UNCHANGED <<choices, process, written, taken, output, closed, pc, timedOut>>
    BY <1>3 DEF Reads
  <2>2. reader \in [Streams -> {"between", "reading", "ended"}]
    BY <1>0 DEF ControlOK
  <2>3. ControlOK'
    BY <1>0, <2>1, <2>2 DEF ControlOK, choices
  <2>4. CountsOK' /\ OutputOK' /\ KeptIsHeadAndTail'
    <3>1. UNCHANGED <<quota, written, taken, total>> /\ closed \subseteq closed'
      BY <2>1 DEF choices, output
    <3> QED BY <1>0, <2>1, <3>1, CountsStay, OutputStays
  <2>5. EndsAreFinal'
    BY <1>0, <2>1, <2>2 DEF EndsAreFinal, output
  <2> QED BY <1>2, <2>3, <2>4, <2>5, PartsInv
<1>4. CASE Drains(s)
  <2>1. /\ reader[s] = "reading"
        /\ taken[s] < written[s] /\ taken[s] - total[s] < Block
        /\ taken' = [taken EXCEPT ![s] = taken[s] + 1]
        /\ UNCHANGED <<choices, process, written, total, head, tail, reader, closed, pc, timedOut>>
    BY <1>4 DEF Drains
  <2>2. ControlOK'
    BY <1>0, <2>1 DEF ControlOK, choices
  <2>3. OutputOK' /\ KeptIsHeadAndTail'
    BY <1>0, <2>1, OutputStays DEF output
  <2>4. taken \in [Streams -> Nat]
    BY <1>0 DEF CountsOK
  <2>5. EndsAreFinal'
    BY <1>0, <2>1, <2>4 DEF EndsAreFinal
  <2>6. CountsOK'
    <3>1. /\ quota \in [Streams -> Nat] /\ written \in [Streams -> Nat]
          /\ total \in [Streams -> Nat]
      BY <1>0 DEF CountsOK
    <3>2. PipeSize \in Nat /\ Block \in Nat
      BY RunAssumption
    <3>3. /\ taken' \in [Streams -> Nat] /\ taken'[s] = taken[s] + 1
          /\ \A t \in Streams : t # s => taken'[t] = taken[t]
      BY <2>1, <2>4
    <3>4. \A t \in Streams :
            /\ quota[t] <= MaxBytes[t] /\ written[t] <= MaxBytes[t]
            /\ total[t] <= taken'[t] /\ taken'[t] <= written[t]
            /\ (t \in closed \/ written[t] - taken'[t] <= PipeSize)
            /\ taken'[t] - total[t] <= Block
      <4> TAKE t \in Streams
      <4>1. /\ quota[t] <= MaxBytes[t] /\ written[t] <= MaxBytes[t]
            /\ total[t] <= taken[t] /\ taken[t] <= written[t]
            /\ (t \in closed \/ written[t] - taken[t] <= PipeSize) /\ taken[t] - total[t] <= Block
        BY <1>0 DEF CountsOK
      <4>2. CASE t = s
        BY <2>1, <2>4, <3>1, <3>2, <3>3, <4>1, <4>2
      <4>3. CASE t # s
        BY <3>3, <4>1, <4>3
      <4> QED BY <4>2, <4>3
    <3>5. UNCHANGED <<quota, written, total, closed>>
      BY <2>1 DEF choices
    <3> QED BY <3>1, <3>3, <3>4, <3>5 DEF CountsOK
  <2> QED BY <1>2, <2>2, <2>3, <2>5, <2>6, PartsInv
<1>5. CASE Consumes(s)
  <2>1. /\ reader[s] = "reading" /\ Keep(s)
        /\ reader' = [reader EXCEPT ![s] = "between"]
        /\ UNCHANGED <<choices, process, written, taken, closed, pc, timedOut>>
    BY <1>5 DEF Consumes
  <2>2. reader \in [Streams -> {"between", "reading", "ended"}]
    BY <1>0 DEF ControlOK
  <2>3. ControlOK'
    BY <1>0, <2>1, <2>2 DEF ControlOK, choices
  <2>4. KeptIsHeadAndTail' /\ OutputOK' /\ total' = [total EXCEPT ![s] = taken[s]]
    BY <1>0, <2>1, BlockIsRead
  <2>5. /\ quota \in [Streams -> Nat] /\ written \in [Streams -> Nat]
        /\ taken \in [Streams -> Nat] /\ total \in [Streams -> Nat]
    BY <1>0 DEF CountsOK
  <2>6. EndsAreFinal'
    BY <1>0, <2>1, <2>2, <2>4, <2>5 DEF EndsAreFinal
  <2>7. CountsOK'
    <3>1. Block \in Nat
      BY RunAssumption
    <3>2. \A t \in Streams :
            /\ quota[t] <= MaxBytes[t] /\ written[t] <= MaxBytes[t]
            /\ total[t] <= taken[t] /\ taken[t] <= written[t]
            /\ (t \in closed \/ written[t] - taken[t] <= PipeSize) /\ taken[t] - total[t] <= Block
      BY <1>0 DEF CountsOK
    <3>3. /\ total' \in [Streams -> Nat]
          /\ \A t \in Streams : total'[t] <= taken[t] /\ taken[t] - total'[t] <= Block
      BY <2>4, <2>5, <3>1, <3>2
    <3> QED BY <2>1, <2>5, <3>2, <3>3 DEF CountsOK, choices
  <2> QED BY <1>2, <2>3, <2>4, <2>6, <2>7, PartsInv
<1>6. CASE ReaderEnds(s)
  <2>1. /\ \/ reader[s] = "reading" /\ taken[s] = total[s] /\ Eof(s)
           \/ reader[s] = "between" /\ s \in closed
        /\ reader' = [reader EXCEPT ![s] = "ended"]
        /\ closed' = closed \cup {s}
        /\ UNCHANGED <<choices, process, written, taken, output, pc, timedOut>>
    BY <1>6 DEF ReaderEnds
  <2>2. reader \in [Streams -> {"between", "reading", "ended"}] /\ closed \subseteq Streams
    BY <1>0 DEF ControlOK
  <2>3. ControlOK'
    BY <1>0, <2>1, <2>2 DEF ControlOK, choices
  <2>4. CountsOK' /\ OutputOK' /\ KeptIsHeadAndTail'
    <3>1. UNCHANGED <<quota, written, taken, total>> /\ closed \subseteq closed'
      BY <2>1 DEF choices, output
    <3> QED BY <1>0, <2>1, <3>1, CountsStay, OutputStays
  <2>5. EndsAreFinal'
    BY <1>0, <2>1, <2>2 DEF EndsAreFinal, output, Eof
  <2> QED BY <1>2, <2>3, <2>4, <2>5, PartsInv
<1> QED BY <1>3, <1>4, <1>5, <1>6 DEF Reader

(* The caller waits, joins the readers and closes the pipes.               *)
LEMMA CallerStep ==
  ASSUME BInv, ChildIsReaped \/ TimesOut \/ Joins \/ Closes \/ StreamsAreClosed
  PROVE  BInv'
<1>0. /\ ControlOK /\ CountsOK /\ OutputOK /\ KeptIsHeadAndTail
      /\ EndsAreFinal /\ ChildWasStarted /\ GroupIsKilled
  BY InvParts
<1>1. /\ UNCHANGED <<choices, process, written, taken, output, reader>>
      /\ closed \subseteq closed' /\ closed' \subseteq Streams
      /\ pc \notin Finished => closed' = closed
      /\ pc \in Finished => pc' \in Finished
      /\ pc' \in {"kill", "join", "close", "joinAgain", "done"}
      /\ pc' # "kill" => pc # "kill" /\ timedOut' = timedOut
      /\ timedOut' \in BOOLEAN
  BY <1>0 DEF ChildIsReaped, TimesOut, Joins, Closes, StreamsAreClosed, Finished, ControlOK
<1>2. ControlOK'
  BY <1>0, <1>1 DEF ControlOK, choices
<1>3. CountsOK' /\ OutputOK' /\ KeptIsHeadAndTail'
  <2>1. UNCHANGED <<quota, written, taken, total>> /\ closed \subseteq closed'
    BY <1>1 DEF choices, output
  <2> QED BY <1>0, <1>1, <2>1, CountsStay, OutputStays
<1>4. EndsAreFinal'
  BY <1>0, <1>1 DEF EndsAreFinal, output
<1>5. ChildWasStarted' /\ GroupIsKilled'
  BY <1>0, <1>1 DEF ChildWasStarted, GroupIsKilled, choices
<1> QED BY <1>2, <1>3, <1>4, <1>5, PartsInv

(* Every step keeps the invariant.                                         *)
LEMMA RunStep == BInv /\ [Next]_vars => BInv'
<1> SUFFICES ASSUME BInv, [Next]_vars PROVE BInv'
  OBVIOUS
<1>1. CASE Caller
  BY <1>1, CallerStep, ProcessStep DEF Caller
<1>2. CASE \E s \in Streams : Reader(s) \/ \E p \in Processes : Writes(p, s)
  BY <1>2, ReaderStep, WriteStep
<1>3. CASE \E d \in Descendants : Forks(d)
  BY <1>3, ProcessStep
<1>4. CASE \E p \in Processes : Exits(p)
  BY <1>4, ProcessStep
<1>5. CASE UNCHANGED vars
  <2>1. UNCHANGED <<choices, process, written, taken, output, reader, closed, pc, timedOut>>
    BY <1>5 DEF vars
  <2>2. /\ ControlOK /\ CountsOK /\ OutputOK /\ KeptIsHeadAndTail
        /\ EndsAreFinal /\ ChildWasStarted /\ GroupIsKilled
    BY InvParts
  <2>3. CountsOK' /\ OutputOK' /\ KeptIsHeadAndTail'
    <3>1. UNCHANGED <<quota, written, taken, total>> /\ closed \subseteq closed'
      BY <2>1 DEF choices, output
    <3> QED BY <2>1, <2>2, <3>1, CountsStay, OutputStays
  <2>4. ControlOK'
    BY <2>1, <2>2 DEF ControlOK, choices
  <2>5. EndsAreFinal' /\ ChildWasStarted' /\ GroupIsKilled'
    BY <2>1, <2>2 DEF EndsAreFinal, ChildWasStarted, GroupIsKilled, choices, output
  <2> QED BY <2>3, <2>4, <2>5, PartsInv
<1> QED BY <1>1, <1>2, <1>3, <1>4, <1>5 DEF Next

(* Whatever the sizes, the child and its descendants: run_bounded keeps    *)
(* the beginning and the end of each stream, a reader that ended before    *)
(* the caller closed its stream had read all that was written, and a       *)
(* timeout leaves nothing of the group running (subprocess_utils.py).      *)
THEOREM RunIsAlwaysClean == Spec => []RunIsClean
<1>1. BInv => RunIsClean
  <2> SUFFICES ASSUME BInv PROVE RunIsClean
    OBVIOUS
  <2>1. \A s \in Streams : total[s] \in Nat /\ ~ (total[s] < total[s])
    BY InvParts, CountsAreBounded
  <2>2. NothingIsLost
    BY <2>1, InvParts DEF NothingIsLost, EndsAreFinal, Finished
  <2> QED BY <2>2 DEF BInv, RunIsClean, OutputIsKept
<1>2. BInv /\ [Next]_vars => BInv'
  BY RunStep
<1> QED BY <1>1, <1>2, RunStart, PTL DEF Spec

-----------------------------------------------------------------------------
Models  == {"e5", "mini", "tfidf", "hash"}
IndexFiles   == {"vectors", "meta", "vocab", "state"}

(* What texts are embedded with when the mode is named in the state: the   *)
(* model, or zeros where the model failed.                                 *)
Embedded(mode) == {mode} \cup (IF mode \in {"e5", "mini"} THEN {"zero"} ELSE {})

(* Vectors or metadata that a state file describes.                        *)
Describes(state, content) ==
  /\ content.is = "whole"
  /\ content.version = state.version \/ editedBetween
  /\ content.mode \in Embedded(state.mode)

(* An index that is not being written: a state stands only for the other   *)
(* files of its build, or for none.                                        *)
StateComesLast ==
  files["state"] # Absent =>
    /\ files["state"].mode \in Models
    /\ files["state"].model = (IF files["state"].mode = "mini" THEN "mini" ELSE "e5")
    /\ \A f \in {"vectors", "meta"} : files[f] # Absent => Describes(files["state"], files[f])
    /\ files["vectors"] # Absent /\ files["meta"] # Absent => files["vectors"] = files["meta"]
    /\ files["vocab"] # Absent => files["state"].mode = "tfidf"

(* The files a session has removed so far, and those it has written.       *)
Removed(s) ==
  CASE at[s] = "clear meta" -> {"vectors"}
    [] at[s] = "clear vocab" -> {"vectors", "meta"}
    [] at[s] = "clear state" -> {"vectors", "meta", "vocab"}
    [] at[s] = "write vectors" -> IndexFiles
    [] at[s] \in {"finish vectors", "write meta"} -> IndexFiles \ {"vectors"}
    [] at[s] = "finish meta" -> {"vocab", "state"}
    [] at[s] = "save" -> {"vocab", "state"}
    [] at[s] = "save state" -> {"state"}
    [] OTHER -> {}
Written(s) ==
  CASE at[s] \in {"write meta", "finish meta"} -> {"vectors"}
    [] at[s] \in {"save", "save state"} -> {"vectors", "meta"}
    [] OTHER -> {}

Chunking == {"clear vectors", "clear meta", "clear vocab", "clear state", "write vectors", "finish vectors"}
Saving   == {"write meta", "finish meta", "save", "save state"}

(* A session that builds the index has what it will describe.              *)
BuildsSoundly(s) ==
  /\ at[s] = "chunk" => hashed[s] = source \/ editedBetween
  /\ at[s] \in Chunking \cup Saving => chunks[s] = hashed[s] \/ editedBetween
  /\ at[s] \in Saving =>
       /\ loaded[s].query = Mode("e5", machine[s])
       /\ loaded[s].vectors = loaded[s].meta
       /\ Describes([version |-> hashed[s], mode |-> loaded[s].query], loaded[s].vectors)
  /\ \A f \in Removed(s) : files[f] = Absent
  /\ \A f \in Written(s) : files[f] = loaded[s].vectors
  /\ at[s] = "save state" /\ files["vocab"] # Absent => loaded[s].query = "tfidf"

(* A session that reads the index has read what is there.                  *)
ReadsSoundly(s) ==
  /\ at[s] \in {"load", "check", "restore"} => loaded[s].vectors = files["vectors"]
  /\ at[s] \in {"check", "restore"} =>
       loaded[s].meta = files["meta"] /\ loaded[s].vectors.is = "whole" /\ loaded[s].meta.is = "whole"
  /\ at[s] = "restore" => files["state"] # Absent /\ files["state"].version = hashed[s]

(* A session that serves the index can compare its queries with it.        *)
Comparable(query, mode, can) ==
  \/ mode \in {query, "zero"}
  \/ Dimension(query) # Dimension(mode)
  \/ mode = "e5" /\ "e5" \notin can
ServesSoundly(s) ==
  at[s] = "served" =>
    /\ loaded[s].vectors = loaded[s].meta
    /\ loaded[s].vectors.version = hashed[s] \/ editedBetween
    /\ Comparable(loaded[s].query, loaded[s].vectors.mode, machine[s])

Shaped ==
  /\ DOMAIN files = IndexFiles
  /\ DOMAIN at = Sessions /\ DOMAIN machine = Sessions /\ DOMAIN hashed = Sessions
  /\ DOMAIN chunks = Sessions /\ DOMAIN loaded = Sessions
  /\ \A s \in Sessions : DOMAIN loaded[s] = {"vectors", "meta", "query"}

VInv ==
  /\ Shaped
  /\ ~overlapped =>
       StateComesLast /\ \A s \in Sessions : BuildsSoundly(s) /\ ReadsSoundly(s) /\ ServesSoundly(s)

-----------------------------------------------------------------------------
(* What a machine embeds with.                                             *)
LEMMA ModesOfMachines ==
  ASSUME NEW can, NEW named \in {"e5", "mini"}
  PROVE  /\ Mode(named, can) \in Models
         /\ Mode(named, can) = "e5" => named = "e5"
         /\ named \in can => Mode(named, can) = named
  BY DEF Mode, Models

(* A query of a session that reuses an index suits the vectors, unless a   *)
(* smaller model of the same dimension stands in.                          *)
LEMMA QueriesSuitTheState ==
  ASSUME NEW can, NEW state, NEW mode \in Embedded(state.mode), state.mode \in Models,
         state.model = (IF state.mode = "mini" THEN "mini" ELSE "e5")
  PROVE  Comparable(QueryMode(state, can), mode, can)
<1>1. CASE state.mode \in {"tfidf", "hash"}
  <2>1. QueryMode(state, can) = state.mode
    BY <1>1 DEF QueryMode
  <2> QED BY <1>1, <2>1 DEF Comparable, Embedded
<1>2. CASE state.mode \in {"e5", "mini"}
  <2>1. state.model = state.mode /\ mode \in {"e5", "mini", "zero"} /\ mode \in {state.mode, "zero"}
    BY <1>2 DEF Embedded
  <2> DEFINE m == Mode(state.model, can)
  <2>2. m \in Models /\ (m = "e5" => state.model = "e5") /\ (state.model \in can => m = state.model)
    BY <1>2, <2>1, ModesOfMachines
  <2>3. QueryMode(state, can) = IF m = "tfidf" THEN "hash" ELSE m
    BY <1>2 DEF QueryMode
  <2> HIDE DEF m
  <2> QED BY <1>2, <2>1, <2>2, <2>3 DEF Comparable, Models, Dimension
<1> QED BY <1>1, <1>2 DEF Models

(* No one else is active when a session touches a file and still none      *)
(* overlap.                                                                *)
LEMMA TouchingAlone ==
  ASSUME NEW s \in Sessions, Touch(s), ~overlapped'
  PROVE  ~overlapped /\ \A r \in Sessions \ {s} : at[r] \in Resting
  BY DEF Touch

(* Sessions at rest, and what they serve, do not depend on the files.      *)
LEMMA RestingIsSafe ==
  ASSUME VInv, NEW r \in Sessions, at[r] \in Resting, ~overlapped, at'[r] = at[r],
         machine'[r] = machine[r], hashed'[r] = hashed[r], chunks'[r] = chunks[r],
         loaded'[r] = loaded[r], editedBetween' = editedBetween
  PROVE  BuildsSoundly(r)' /\ ReadsSoundly(r)' /\ ServesSoundly(r)'
<1>1. ServesSoundly(r) /\ at'[r] \in Resting
  BY DEF VInv
<1>2. Removed(r)' = {} /\ Written(r)' = {}
  BY <1>1 DEF Resting, Removed, Written
<1>3. BuildsSoundly(r)' /\ ReadsSoundly(r)'
  BY <1>1, <1>2 DEF Resting, BuildsSoundly, ReadsSoundly, Chunking, Saving
<1> QED BY <1>1, <1>3 DEF ServesSoundly

-----------------------------------------------------------------------------
(* A step of one session leaves what the others hold.                      *)
Mine(s) ==
  \A r \in Sessions \ {s} :
    /\ at'[r] = at[r] /\ machine'[r] = machine[r] /\ hashed'[r] = hashed[r]
    /\ chunks'[r] = chunks[r] /\ loaded'[r] = loaded[r]
Suits(s) == BuildsSoundly(s) /\ ReadsSoundly(s) /\ ServesSoundly(s)

(* A step that writes no file.                                             *)
LEMMA ReadingKeeps ==
  ASSUME VInv, NEW s \in Sessions, Mine(s), Shaped', UNCHANGED <<source, files, overlapped, editedBetween>>,
         ~overlapped => Suits(s)'
  PROVE  VInv'
<1> SUFFICES ASSUME ~overlapped PROVE StateComesLast' /\ \A r \in Sessions : Suits(r)'
  BY DEF VInv, Suits
<1>1. StateComesLast'
  BY DEF VInv, StateComesLast, Describes
<1>2. ASSUME NEW r \in Sessions \ {s}
      PROVE  Suits(r)'
  <2>1. /\ at'[r] = at[r] /\ machine'[r] = machine[r] /\ hashed'[r] = hashed[r]
        /\ chunks'[r] = chunks[r] /\ loaded'[r] = loaded[r]
    BY DEF Mine
  <2>2. BuildsSoundly(r) /\ ReadsSoundly(r) /\ ServesSoundly(r)
    BY DEF VInv
  <2>3. Removed(r)' = Removed(r) /\ Written(r)' = Written(r)
    BY <2>1 DEF Removed, Written
  <2>4. BuildsSoundly(r)'
    BY <2>1, <2>2, <2>3 DEF BuildsSoundly, Describes
  <2>5. ReadsSoundly(r)'
    BY <2>1, <2>2 DEF ReadsSoundly
  <2>6. ServesSoundly(r)'
    BY <2>1, <2>2 DEF ServesSoundly
  <2> QED BY <2>4, <2>5, <2>6 DEF Suits
<1> QED BY <1>1, <1>2

(* A step that writes one.                                                 *)
LEMMA WritingKeeps ==
  ASSUME VInv, NEW s \in Sessions, Mine(s), Shaped', UNCHANGED <<source, editedBetween>>, Touch(s),
         ~overlapped /\ ~overlapped' => StateComesLast' /\ Suits(s)'
  PROVE  VInv'
<1> SUFFICES ASSUME ~overlapped' PROVE StateComesLast' /\ \A r \in Sessions : Suits(r)'
  BY DEF VInv, Suits
<1>1. ~overlapped /\ \A r \in Sessions \ {s} : at[r] \in Resting
  BY TouchingAlone
<1>2. ASSUME NEW r \in Sessions \ {s}
      PROVE  Suits(r)'
  <2>1. /\ at'[r] = at[r] /\ machine'[r] = machine[r] /\ hashed'[r] = hashed[r]
        /\ chunks'[r] = chunks[r] /\ loaded'[r] = loaded[r]
    BY DEF Mine
  <2> QED BY <1>1, <2>1, RestingIsSafe DEF Suits
<1> QED BY <1>1, <1>2

(* Before the first session there is no file.                              *)
LEMMA IndexStarts == IndexInit => VInv
<1> SUFFICES ASSUME IndexInit PROVE VInv
  OBVIOUS
<1>1. Shaped
  BY DEF IndexInit, Shaped, IndexFiles
<1>2. StateComesLast
  BY DEF IndexInit, StateComesLast
<1>3. ASSUME NEW s \in Sessions
      PROVE  BuildsSoundly(s) /\ ReadsSoundly(s) /\ ServesSoundly(s)
  <2>1. at[s] = "idle"
    BY DEF IndexInit
  <2>2. Removed(s) = {} /\ Written(s) = {}
    BY <2>1 DEF Removed, Written
  <2> QED BY <2>1, <2>2 DEF BuildsSoundly, ReadsSoundly, ServesSoundly, Chunking, Saving
<1> QED BY <1>1, <1>2, <1>3 DEF VInv

(* The owner's edit, and the end of a session.                             *)
LEMMA EditKeeps ==
  ASSUME VInv, EditSource
  PROVE  VInv'
<1>1. /\ UNCHANGED <<files, at, machine, hashed, chunks, loaded, overlapped>>
      /\ editedBetween => editedBetween'
      /\ (\E s \in Sessions : at[s] = "chunk") => editedBetween'
  BY DEF EditSource, own
<1>2. Shaped'
  BY <1>1 DEF VInv, Shaped
<1> SUFFICES ASSUME ~overlapped PROVE StateComesLast' /\ \A s \in Sessions : Suits(s)'
  BY <1>1, <1>2 DEF VInv, Suits
<1>3. StateComesLast'
  BY <1>1 DEF VInv, StateComesLast, Describes
<1>4. ASSUME NEW s \in Sessions
      PROVE  Suits(s)'
  <2>1. BuildsSoundly(s) /\ ReadsSoundly(s) /\ ServesSoundly(s)
    BY DEF VInv
  <2>2. Removed(s)' = Removed(s) /\ Written(s)' = Written(s)
    BY <1>1 DEF Removed, Written
  <2>3. BuildsSoundly(s)'
    BY <1>1, <2>1, <2>2 DEF BuildsSoundly, Describes
  <2>4. ReadsSoundly(s)'
    BY <1>1, <2>1 DEF ReadsSoundly
  <2>5. ServesSoundly(s)'
    BY <1>1, <2>1 DEF ServesSoundly
  <2> QED BY <2>3, <2>4, <2>5 DEF Suits
<1> QED BY <1>3, <1>4

(* A session that holds nothing of the index.                              *)
LEMMA AtRest ==
  ASSUME NEW s, at'[s] \in {"gone", "count", "hash", "skipped", "empty"}
  PROVE  Suits(s)'
<1>1. Removed(s)' = {} /\ Written(s)' = {}
  BY DEF Removed, Written
<1> QED BY <1>1 DEF Suits, BuildsSoundly, ReadsSoundly, ServesSoundly, Chunking, Saving

(* A session that ends leaves the files as they are.                       *)
LEMMA EndKeeps ==
  ASSUME VInv, NEW s \in Sessions, End(s)
  PROVE  VInv'
<1>1. at'[s] = "gone" /\ Mine(s) /\ Shaped' /\ UNCHANGED <<source, files, overlapped, editedBetween>>
  BY DEF VInv, Shaped, End, Goto, own, Mine
<1>2. Suits(s)'
  BY <1>1, AtRest
<1> QED BY <1>1, <1>2, ReadingKeeps

(* A session starts with nothing in its hands.                             *)
LEMMA StartKeeps ==
  ASSUME VInv, NEW s \in Sessions, Start(s)
  PROVE  VInv'
<1>1. /\ at'[s] \in {"hash", "count"} /\ Mine(s) /\ Shaped'
      /\ UNCHANGED <<source, files, overlapped, editedBetween>>
  BY DEF VInv, Shaped, Start, Goto, Mine
<1>2. Suits(s)'
  BY <1>1, AtRest
<1> QED BY <1>1, <1>2, ReadingKeeps

(* Reading the index in memory.                                            *)
LEMMA LoadVectorsKeeps ==
  ASSUME VInv, NEW s \in Sessions, LoadVectors(s)
  PROVE  VInv'
<1>1. /\ at'[s] = "load" /\ loaded'[s].vectors = files["vectors"] /\ Mine(s) /\ Shaped'
      /\ UNCHANGED <<source, files, overlapped, editedBetween>>
  BY DEF VInv, Shaped, LoadVectors, Goto, Mine
<1>2. Suits(s)'
  <2>1. Removed(s)' = {} /\ Written(s)' = {}
    BY <1>1 DEF Removed, Written
  <2> QED BY <1>1, <2>1 DEF Suits, BuildsSoundly, ReadsSoundly, ServesSoundly, Chunking, Saving
<1> QED BY <1>1, <1>2, ReadingKeeps

(* What was loaded is what is on disk, or it is dropped.                   *)
LEMMA LoadMetaKeeps ==
  ASSUME VInv, NEW s \in Sessions, LoadMeta(s)
  PROVE  VInv'
<1>1. /\ at[s] = "load" /\ loaded'[s].meta = files["meta"] /\ loaded'[s].vectors = loaded[s].vectors
      /\ at'[s] = "hash" \/ (at'[s] = "check" /\ Consistent(loaded[s].vectors, files["meta"]))
      /\ Mine(s) /\ Shaped' /\ UNCHANGED <<source, files, overlapped, editedBetween>>
  BY DEF VInv, Shaped, LoadMeta, Goto, Mine
<1>2. ~overlapped => Suits(s)'
  <2>1. CASE at'[s] = "hash"
    BY <2>1, AtRest
  <2>2. CASE at'[s] = "check" /\ Consistent(loaded[s].vectors, files["meta"]) /\ ~overlapped
    <3>1. Removed(s)' = {} /\ Written(s)' = {}
      BY <2>2 DEF Removed, Written
    <3>2. loaded[s].vectors = files["vectors"]
      BY <1>1, <2>2 DEF VInv, ReadsSoundly
    <3>3. ReadsSoundly(s)'
      BY <1>1, <2>2, <3>2 DEF ReadsSoundly, Consistent
    <3> QED BY <2>2, <3>1, <3>3 DEF Suits, BuildsSoundly, ServesSoundly, Chunking, Saving
  <2> QED BY <1>1, <2>1, <2>2
<1> QED BY <1>1, <1>2, ReadingKeeps

(* A session decides by the state file whether the index is its own.       *)
LEMMA CheckKeeps ==
  ASSUME VInv, NEW s \in Sessions, Check(s)
  PROVE  VInv'
<1>1. /\ at[s] = "check" /\ hashed'[s] = source /\ UNCHANGED loaded
      /\ at'[s] = "hash" \/ (at'[s] = "restore" /\ UpToDate(s))
      /\ Mine(s) /\ Shaped' /\ UNCHANGED <<source, files, overlapped, editedBetween>>
  BY DEF VInv, Shaped, Check, Goto, Mine
<1>2. ~overlapped => Suits(s)'
  <2>1. CASE at'[s] = "hash"
    BY <2>1, AtRest
  <2>2. CASE at'[s] = "restore" /\ UpToDate(s) /\ ~overlapped
    <3>1. Removed(s)' = {} /\ Written(s)' = {}
      BY <2>2 DEF Removed, Written
    <3>2. ReadsSoundly(s)
      BY <2>2 DEF VInv
    <3>3. ReadsSoundly(s)'
      BY <1>1, <2>2, <3>2 DEF ReadsSoundly, UpToDate
    <3> QED BY <2>2, <3>1, <3>3 DEF Suits, BuildsSoundly, ServesSoundly, Chunking, Saving
  <2> QED BY <1>1, <2>1, <2>2
<1> QED BY <1>1, <1>2, ReadingKeeps

(* The state that is read again is the one that was up to date.            *)
LEMMA RestoreKeeps ==
  ASSUME VInv, NEW s \in Sessions, Restore(s)
  PROVE  VInv'
<1> DEFINE state == files["state"]
           known == IF files["vocab"] # Absent THEN [state EXCEPT !.mode = "tfidf"] ELSE state
<1>1. /\ at[s] = "restore" /\ UNCHANGED <<hashed, machine>> /\ at'[s] \in {"skipped", "served"}
      /\ Mine(s) /\ Shaped' /\ UNCHANGED <<source, files, overlapped, editedBetween>>
  BY DEF VInv, Shaped, Restore, Goto, Mine
<1>2. at'[s] = "served" =>
        /\ loaded'[s].vectors = loaded[s].vectors /\ loaded'[s].meta = loaded[s].meta
        /\ state # Absent => loaded'[s].query = QueryMode(known, machine[s])
  BY DEF VInv, Shaped, Restore, Goto
<1>3. ~overlapped => Suits(s)'
  <2>1. CASE at'[s] = "skipped"
    BY <2>1, AtRest
  <2>2. CASE at'[s] = "served" /\ ~overlapped
    <3>1. Removed(s)' = {} /\ Written(s)' = {}
      BY <2>2 DEF Removed, Written
    <3>2. ReadsSoundly(s) /\ StateComesLast
      BY <2>2 DEF VInv
    <3>3. /\ state # Absent /\ state.version = hashed[s]
          /\ loaded[s].vectors = files["vectors"] /\ loaded[s].meta = files["meta"]
          /\ files["vectors"].is = "whole" /\ files["meta"].is = "whole"
      BY <1>1, <3>2 DEF ReadsSoundly
    <3>4. files["vectors"] # Absent /\ files["meta"] # Absent
      BY <3>3 DEF Absent
    <3>5. /\ Describes(state, files["vectors"]) /\ files["vectors"] = files["meta"]
          /\ state.mode \in Models /\ state.model = (IF state.mode = "mini" THEN "mini" ELSE "e5")
          /\ files["vocab"] # Absent => state.mode = "tfidf"
      BY <3>2, <3>3, <3>4 DEF StateComesLast
    <3>6. QueryMode(known, machine[s]) = QueryMode(state, machine[s])
      <4>1. CASE files["vocab"] = Absent
        BY <4>1
      <4>2. CASE files["vocab"] # Absent
        <5>1. state.mode = "tfidf"
          BY <3>5, <4>2
        <5>2. [state EXCEPT !.mode = "tfidf"].mode \in {"tfidf", "hash"} => 
                 QueryMode([state EXCEPT !.mode = "tfidf"], machine[s]) = [state EXCEPT !.mode = "tfidf"].mode
          BY DEF QueryMode
        <5> QED BY <4>2, <5>1, <5>2 DEF QueryMode
      <4> QED BY <4>1, <4>2
    <3>7. Comparable(QueryMode(state, machine[s]), files["vectors"].mode, machine[s])
      BY <3>5, QueriesSuitTheState DEF Describes
    <3>8. ServesSoundly(s)'
      BY <1>1, <1>2, <2>2, <3>3, <3>5, <3>6, <3>7 DEF ServesSoundly, Describes
    <3> QED BY <2>2, <3>1, <3>8 DEF Suits, BuildsSoundly, ReadsSoundly, Chunking, Saving
  <2> QED BY <1>1, <2>1, <2>2
<1> QED BY <1>1, <1>3, ReadingKeeps

-----------------------------------------------------------------------------
(* The source of an index that is built.                                   *)
LEMMA HashSourceKeeps ==
  ASSUME VInv, NEW s \in Sessions, HashSource(s)
  PROVE  VInv'
<1>1. /\ at'[s] = "chunk" /\ hashed'[s] = source /\ Mine(s) /\ Shaped'
      /\ UNCHANGED <<source, files, overlapped, editedBetween>>
  BY DEF VInv, Shaped, HashSource, Goto, Mine
<1>2. Suits(s)'
  <2>1. Removed(s)' = {} /\ Written(s)' = {}
    BY <1>1 DEF Removed, Written
  <2> QED BY <1>1, <2>1 DEF Suits, BuildsSoundly, ReadsSoundly, ServesSoundly, Chunking, Saving
<1> QED BY <1>1, <1>2, ReadingKeeps

(* A rebuild holds chunks of the source that it hashed.                    *)
LEMMA ChunkProjectKeeps ==
  ASSUME VInv, NEW s \in Sessions, ChunkProject(s)
  PROVE  VInv'
<1>1. /\ at[s] = "chunk" /\ at'[s] = "clear vectors" /\ chunks'[s] = source /\ UNCHANGED hashed
      /\ Mine(s) /\ Shaped' /\ UNCHANGED <<source, files, overlapped, editedBetween>>
  BY DEF VInv, Shaped, ChunkProject, Goto, Mine
<1>2. ~overlapped => Suits(s)'
  <2> SUFFICES ASSUME ~overlapped PROVE Suits(s)'
    OBVIOUS
  <2>1. Removed(s)' = {} /\ Written(s)' = {}
    BY <1>1 DEF Removed, Written
  <2>2. hashed[s] = source \/ editedBetween
    BY <1>1 DEF VInv, BuildsSoundly
  <2>3. BuildsSoundly(s)'
    BY <1>1, <2>1, <2>2 DEF BuildsSoundly, Chunking, Saving
  <2> QED BY <1>1, <2>3 DEF Suits, ReadsSoundly, ServesSoundly
<1> QED BY <1>1, <1>2, ReadingKeeps

(* A file that is removed, or torn, describes nothing.                     *)
LEMMA ClearFileKeeps ==
  ASSUME VInv, NEW s \in Sessions, ClearFile(s)
  PROVE  VInv'
<1>1. PICK file \in IndexFiles :
        /\ at[s] = Clearing[file] /\ files' = [files EXCEPT ![file] = Absent]
        /\ at'[s] = (IF file = "state" /\ Chunked[chunks[s]] = 0 THEN "empty" ELSE Cleared(file))
  BY DEF VInv, Shaped, ClearFile, Goto
<1>2. /\ Mine(s) /\ Shaped' /\ Touch(s)
      /\ UNCHANGED <<source, editedBetween, machine, hashed, chunks, loaded>>
  BY DEF VInv, Shaped, ClearFile, Goto, own, Mine, IndexFiles
<1>3. files'[file] = Absent /\ \A f \in IndexFiles \ {file} : files'[f] = files[f]
  BY <1>1 DEF VInv, Shaped
<1>4. ASSUME ~overlapped, ~overlapped'
      PROVE  StateComesLast' /\ Suits(s)'
  <2>1. StateComesLast /\ BuildsSoundly(s)
    BY <1>4 DEF VInv
  <2>2. StateComesLast'
    BY <1>2, <1>3, <2>1 DEF StateComesLast, Describes, IndexFiles
  <2>3. CASE file = "vectors"
    <3>1. at[s] = "clear vectors" /\ at'[s] = "clear meta"
      BY <1>1, <2>3 DEF Clearing, Cleared
    <3>2. Removed(s)' = {"vectors"} /\ Written(s)' = {}
      BY <3>1 DEF Removed, Written
    <3>3. BuildsSoundly(s)'
      BY <1>2, <1>3, <2>1, <2>3, <3>1, <3>2 DEF BuildsSoundly, Chunking, Saving
    <3> QED BY <2>2, <3>1, <3>3 DEF Suits, ReadsSoundly, ServesSoundly
  <2>4. CASE file = "meta"
    <3>1. at[s] = "clear meta" /\ at'[s] = "clear vocab"
      BY <1>1, <2>4 DEF Clearing, Cleared
    <3>2. Removed(s) = {"vectors"} /\ Removed(s)' = {"vectors", "meta"} /\ Written(s)' = {}
      BY <3>1 DEF Removed, Written
    <3>3. BuildsSoundly(s)'
      BY <1>2, <1>3, <2>1, <2>4, <3>1, <3>2 DEF BuildsSoundly, Chunking, Saving, IndexFiles
    <3> QED BY <2>2, <3>1, <3>3 DEF Suits, ReadsSoundly, ServesSoundly
  <2>5. CASE file = "vocab"
    <3>1. at[s] = "clear vocab" /\ at'[s] = "clear state"
      BY <1>1, <2>5 DEF Clearing, Cleared
    <3>2. Removed(s) = {"vectors", "meta"} /\ Removed(s)' = {"vectors", "meta", "vocab"} /\ Written(s)' = {}
      BY <3>1 DEF Removed, Written
    <3>3. BuildsSoundly(s)'
      BY <1>2, <1>3, <2>1, <2>5, <3>1, <3>2 DEF BuildsSoundly, Chunking, Saving, IndexFiles
    <3> QED BY <2>2, <3>1, <3>3 DEF Suits, ReadsSoundly, ServesSoundly
  <2>6. CASE file = "state" /\ at'[s] = "empty"
    BY <2>2, <2>6, AtRest
  <2>7. CASE file = "state" /\ at'[s] # "empty"
    <3>1. at[s] = "clear state" /\ at'[s] = "write vectors"
      BY <1>1, <2>7 DEF Clearing, Cleared
    <3>2. Removed(s) = {"vectors", "meta", "vocab"} /\ Removed(s)' = IndexFiles /\ Written(s)' = {}
      BY <3>1 DEF Removed, Written
    <3>3. BuildsSoundly(s)'
      BY <1>2, <1>3, <2>1, <2>7, <3>1, <3>2 DEF BuildsSoundly, Chunking, Saving, IndexFiles
    <3> QED BY <2>2, <3>1, <3>3 DEF Suits, ReadsSoundly, ServesSoundly
  <2> QED BY <2>3, <2>4, <2>5, <2>6, <2>7 DEF IndexFiles
<1> QED BY <1>2, <1>4, WritingKeeps

(* A file that is opened for writing is cut, and no state file vouches for *)
(* it.                                                                     *)
LEMMA OpenFileKeeps ==
  ASSUME VInv, NEW s \in Sessions, OpenFile(s)
  PROVE  VInv'
<1>1. PICK file \in {"vectors", "meta"} :
        at[s] = Opening[file] /\ files' = [files EXCEPT ![file] = Torn] /\ at'[s] = Finishing[file]
  BY DEF VInv, Shaped, OpenFile, Opening, Goto
<1>2. /\ Mine(s) /\ Shaped' /\ Touch(s)
      /\ UNCHANGED <<source, editedBetween, machine, hashed, chunks, loaded>>
  BY DEF VInv, Shaped, OpenFile, Goto, own, Mine, IndexFiles, Opening
<1>3. files'[file] = Torn /\ \A f \in IndexFiles \ {file} : files'[f] = files[f]
  BY <1>1 DEF VInv, Shaped, IndexFiles
<1>4. ASSUME ~overlapped, ~overlapped'
      PROVE  StateComesLast' /\ Suits(s)'
  <2>1. BuildsSoundly(s)
    BY <1>4 DEF VInv
  <2>2. CASE file = "vectors"
    <3>1. at[s] = "write vectors" /\ at'[s] = "finish vectors"
      BY <1>1, <2>2 DEF Opening, Finishing
    <3>2. Removed(s) = IndexFiles /\ Removed(s)' = IndexFiles \ {"vectors"} /\ Written(s)' = {}
      BY <3>1 DEF Removed, Written
    <3>3. BuildsSoundly(s)' /\ files'["state"] = Absent
      BY <1>2, <1>3, <2>1, <2>2, <3>1, <3>2 DEF BuildsSoundly, Chunking, Saving, IndexFiles
    <3> QED BY <3>1, <3>3 DEF Suits, ReadsSoundly, ServesSoundly, StateComesLast
  <2>3. CASE file = "meta"
    <3>1. at[s] = "write meta" /\ at'[s] = "finish meta"
      BY <1>1, <2>3 DEF Opening, Finishing
    <3>2. /\ Removed(s) = IndexFiles \ {"vectors"} /\ Removed(s)' = {"vocab", "state"}
          /\ Written(s) = {"vectors"} /\ Written(s)' = {"vectors"}
      BY <3>1 DEF Removed, Written
    <3>3. BuildsSoundly(s)' /\ files'["state"] = Absent
      BY <1>2, <1>3, <2>1, <2>3, <3>1, <3>2 DEF BuildsSoundly, Describes, Chunking, Saving, IndexFiles
    <3> QED BY <3>1, <3>3 DEF Suits, ReadsSoundly, ServesSoundly, StateComesLast
  <2> QED BY <2>2, <2>3
<1> QED BY <1>2, <1>4, WritingKeeps

(* What is embedded is what the state will describe.                       *)
LEMMA FinishVectorsKeeps ==
  ASSUME VInv, NEW s \in Sessions, FinishVectors(s)
  PROVE  VInv'
<1> DEFINE named == Mode("e5", machine[s])
<1>1. PICK mode \in Embeddings(s) :
        /\ files' = [files EXCEPT !["vectors"] = Whole(s, chunks[s], mode)]
        /\ loaded' = [loaded EXCEPT ![s] = [vectors |-> Whole(s, chunks[s], mode),
                                            meta |-> Whole(s, chunks[s], mode), query |-> named]]
  BY DEF FinishVectors
<1> DEFINE content == Whole(s, chunks[s], mode)
<1>2. /\ at[s] = "finish vectors" /\ at'[s] = "write meta" /\ Mine(s) /\ Shaped' /\ Touch(s)
      /\ UNCHANGED <<source, editedBetween, machine, hashed, chunks>>
      /\ loaded'[s].vectors = content /\ loaded'[s].meta = content /\ loaded'[s].query = named
  <2>1. /\ at'[s] = "write meta" /\ at[s] = "finish vectors" /\ Touch(s)
        /\ UNCHANGED <<source, editedBetween, machine, hashed, chunks>>
        /\ at' = [at EXCEPT ![s] = "write meta"]
    BY DEF VInv, Shaped, FinishVectors, Goto
  <2>2. /\ loaded'[s] = [vectors |-> content, meta |-> content, query |-> named]
        /\ DOMAIN loaded' = Sessions /\ \A r \in Sessions \ {s} : loaded'[r] = loaded[r]
    BY <1>1 DEF VInv, Shaped
  <2>3. Mine(s)
    BY <2>1, <2>2 DEF VInv, Shaped, Mine
  <2> HIDE DEF content, named
  <2>4. DOMAIN files' = IndexFiles
    BY <1>1 DEF VInv, Shaped
  <2>5. /\ loaded'[s].vectors = content /\ loaded'[s].meta = content /\ loaded'[s].query = named
        /\ DOMAIN loaded'[s] = {"vectors", "meta", "query"}
    BY <2>2
  <2>6. Shaped'
    BY <2>1, <2>2, <2>4, <2>5 DEF VInv, Shaped
  <2> QED BY <2>1, <2>3, <2>5, <2>6
<1>3. files'["vectors"] = content /\ \A f \in IndexFiles \ {"vectors"} : files'[f] = files[f]
  BY <1>1 DEF VInv, Shaped, IndexFiles
<1>4. mode \in Embedded(named)
  BY DEF Embeddings, Embedded
<1>5. content.is = "whole" /\ content.version = chunks[s] /\ content.mode = mode
  BY DEF Whole
<1>6. ASSUME ~overlapped, ~overlapped'
      PROVE  StateComesLast' /\ Suits(s)'
  <2>1. BuildsSoundly(s)
    BY <1>6 DEF VInv
  <2>2. /\ Removed(s) = IndexFiles \ {"vectors"} /\ Removed(s)' = IndexFiles \ {"vectors"}
        /\ Written(s)' = {"vectors"}
    BY <1>2 DEF Removed, Written
  <2>3. chunks[s] = hashed[s] \/ editedBetween
    BY <1>2, <2>1 DEF BuildsSoundly, Chunking
  <2> HIDE DEF content, named
  <2> DEFINE build == [version |-> hashed[s], mode |-> loaded[s].query]
  <2>4. Describes(build, loaded[s].vectors)'
    <3>1. build'.version = hashed[s] /\ build'.mode = named
      BY <1>2
    <3> HIDE DEF build
    <3> QED BY <1>2, <1>4, <1>5, <2>3, <3>1 DEF Describes
  <2>5. \A f \in Removed(s)' : files'[f] = Absent
    BY <1>3, <2>1, <2>2 DEF BuildsSoundly
  <2>6. \A f \in Written(s)' : files'[f] = loaded'[s].vectors
    BY <1>2, <1>3, <2>2
  <2>7. BuildsSoundly(s)'
    <3>1. at'[s] \in Chunking \cup Saving => chunks'[s] = hashed'[s] \/ editedBetween'
      BY <1>2, <2>3
    <3>2. loaded'[s].query = Mode("e5", machine'[s]) /\ loaded'[s].vectors = loaded'[s].meta
      BY <1>2 DEF named
    <3> QED BY <1>2, <2>4, <2>5, <2>6, <3>1, <3>2 DEF BuildsSoundly
  <2>8. files'["state"] = Absent
    BY <2>2, <2>5 DEF IndexFiles
  <2> QED BY <1>2, <2>7, <2>8 DEF Suits, ReadsSoundly, ServesSoundly, StateComesLast
<1> QED BY <1>2, <1>6, WritingKeeps

(* The metadata are written from the chunks the vectors were made of.      *)
LEMMA FinishMetaKeeps ==
  ASSUME VInv, NEW s \in Sessions, FinishMeta(s)
  PROVE  VInv'
<1>1. /\ at[s] = "finish meta" /\ at'[s] = "save" /\ Mine(s) /\ Shaped' /\ Touch(s)
      /\ UNCHANGED <<source, editedBetween, machine, hashed, chunks, loaded>>
      /\ files'["meta"] = loaded[s].meta /\ \A f \in IndexFiles \ {"meta"} : files'[f] = files[f]
  BY DEF VInv, Shaped, FinishMeta, Goto, own, Mine, IndexFiles
<1>2. ASSUME ~overlapped, ~overlapped'
      PROVE  StateComesLast' /\ Suits(s)'
  <2>1. BuildsSoundly(s)
    BY <1>2 DEF VInv
  <2>2. /\ Removed(s) = {"vocab", "state"} /\ Removed(s)' = {"vocab", "state"}
        /\ Written(s) = {"vectors"} /\ Written(s)' = {"vectors", "meta"}
    BY <1>1 DEF Removed, Written
  <2>3. BuildsSoundly(s)' /\ files'["state"] = Absent
    BY <1>1, <2>1, <2>2 DEF BuildsSoundly, Describes, Chunking, Saving, IndexFiles
  <2> QED BY <1>1, <2>3 DEF Suits, ReadsSoundly, ServesSoundly, StateComesLast
<1> QED BY <1>1, <1>2, WritingKeeps

(* The vocabulary is saved between the vectors and the state.              *)
LEMMA SaveVocabKeeps ==
  ASSUME VInv, NEW s \in Sessions, SaveVocab(s)
  PROVE  VInv'
<1>1. /\ at[s] = "save" /\ at'[s] = "save state" /\ Mine(s) /\ Shaped' /\ Touch(s)
      /\ UNCHANGED <<source, editedBetween, machine, hashed, chunks, loaded>>
      /\ \A f \in IndexFiles \ {"vocab"} : files'[f] = files[f]
      /\ files'["vocab"] = files["vocab"] \/ loaded[s].query = "tfidf"
  BY DEF VInv, Shaped, SaveVocab, Goto, own, Mine, IndexFiles
<1>2. ASSUME ~overlapped, ~overlapped'
      PROVE  StateComesLast' /\ Suits(s)'
  <2>1. BuildsSoundly(s)
    BY <1>2 DEF VInv
  <2>2. /\ Removed(s) = {"vocab", "state"} /\ Removed(s)' = {"state"}
        /\ Written(s) = {"vectors", "meta"} /\ Written(s)' = {"vectors", "meta"}
    BY <1>1 DEF Removed, Written
  <2>3. BuildsSoundly(s)' /\ files'["state"] = Absent
    BY <1>1, <2>1, <2>2 DEF BuildsSoundly, Describes, Chunking, Saving, IndexFiles
  <2> QED BY <1>1, <2>3 DEF Suits, ReadsSoundly, ServesSoundly, StateComesLast
<1> QED BY <1>1, <1>2, WritingKeeps

(* The state says of which source and by which model the other files are.  *)
LEMMA SaveStateKeeps ==
  ASSUME VInv, NEW s \in Sessions, SaveState(s)
  PROVE  VInv'
<1> DEFINE state == [is |-> "whole", version |-> hashed[s], mode |-> loaded[s].query,
                     model |-> IF loaded[s].query = "mini" THEN "mini" ELSE "e5"]
<1>1. /\ at[s] = "save state" /\ at'[s] = "served" /\ Mine(s) /\ Shaped' /\ Touch(s)
      /\ UNCHANGED <<source, editedBetween, machine, hashed, chunks, loaded>>
      /\ files'["state"] = state /\ \A f \in IndexFiles \ {"state"} : files'[f] = files[f]
  BY DEF VInv, Shaped, SaveState, Recorded, Goto, own, Mine, IndexFiles
<1>2. /\ state.version = hashed[s] /\ state.mode = loaded[s].query
      /\ state.model = (IF state.mode = "mini" THEN "mini" ELSE "e5")
  OBVIOUS
<1> HIDE DEF state
<1>3. ASSUME ~overlapped, ~overlapped'
      PROVE  StateComesLast' /\ Suits(s)'
  <2> DEFINE build == [version |-> hashed[s], mode |-> loaded[s].query]
             content == loaded[s].vectors
  <2>1. BuildsSoundly(s)
    BY <1>3 DEF VInv
  <2>2. Removed(s)' = {} /\ Written(s) = {"vectors", "meta"} /\ Written(s)' = {}
    BY <1>1 DEF Removed, Written
  <2>3. /\ loaded[s].query = Mode("e5", machine[s]) /\ loaded[s].meta = content /\ Describes(build, content)
        /\ files["vectors"] = content /\ files["meta"] = content
        /\ files["vocab"] # Absent => loaded[s].query = "tfidf"
    BY <1>1, <2>1, <2>2 DEF BuildsSoundly, Saving
  <2>4. build.version = hashed[s] /\ build.mode = loaded[s].query /\ build.mode \in Models
    BY <2>3, ModesOfMachines
  <2> HIDE DEF build, content
  <2>5. Describes(state, content)
    BY <1>2, <2>3, <2>4 DEF Describes
  <2>6. Describes(state, content)'
    BY <1>1, <2>5 DEF Describes, state, content
  <2>7. StateComesLast'
    BY <1>1, <1>2, <2>3, <2>4, <2>6 DEF StateComesLast, IndexFiles, state, content
  <2>8. content.version = hashed[s] \/ editedBetween
    BY <1>2, <2>5 DEF Describes
  <2>9. Comparable(loaded[s].query, content.mode, machine[s])
    BY <1>2, <2>5 DEF Describes, Embedded, Comparable
  <2>10. ServesSoundly(s)'
    BY <1>1, <2>3, <2>8, <2>9 DEF ServesSoundly, content
  <2>11. BuildsSoundly(s)' /\ ReadsSoundly(s)'
    BY <1>1, <2>2 DEF BuildsSoundly, ReadsSoundly, Chunking, Saving
  <2> QED BY <2>7, <2>10, <2>11 DEF Suits
<1> QED BY <1>1, <1>3, WritingKeeps

(* Every step of a session, and every edit, keeps the invariant.           *)
LEMMA IndexStepKeeps == VInv /\ [IndexNext]_indexVars => VInv'
<1> SUFFICES ASSUME VInv, [IndexNext]_indexVars PROVE VInv'
  OBVIOUS
<1>1. CASE EditSource
  BY <1>1, EditKeeps
<1>2. ASSUME NEW s \in Sessions, IndexStep(s) \/ End(s)
      PROVE  VInv'
  BY <1>2, StartKeeps, LoadVectorsKeeps, LoadMetaKeeps, CheckKeeps, RestoreKeeps, HashSourceKeeps,
     ChunkProjectKeeps, ClearFileKeeps, OpenFileKeeps, FinishVectorsKeeps, FinishMetaKeeps, SaveVocabKeeps,
     SaveStateKeeps, EndKeeps, Zenon DEF IndexStep
<1>3. CASE UNCHANGED indexVars
  <2>1. UNCHANGED <<source, files, at, machine, hashed, chunks, loaded, overlapped, editedBetween>>
    BY <1>3 DEF indexVars
  <2>2. Shaped' /\ (~overlapped => StateComesLast')
    BY <2>1 DEF VInv, Shaped, StateComesLast, Describes
  <2>3. ASSUME NEW s \in Sessions, ~overlapped
        PROVE  BuildsSoundly(s)' /\ ReadsSoundly(s)' /\ ServesSoundly(s)'
    <3>1. BuildsSoundly(s) /\ ReadsSoundly(s) /\ ServesSoundly(s)
      BY <2>3 DEF VInv
    <3>2. Removed(s)' = Removed(s) /\ Written(s)' = Written(s)
      BY <2>1 DEF Removed, Written
    <3>3. BuildsSoundly(s)'
      BY <2>1, <3>1, <3>2 DEF BuildsSoundly, Describes
    <3> QED BY <2>1, <3>1, <3>3 DEF ReadsSoundly, ServesSoundly
  <2> QED BY <2>1, <2>2, <2>3 DEF VInv
<1> QED BY <1>1, <1>2, <1>3 DEF IndexNext

(* A session serves the vectors and the metadata of one build, of the      *)
(* source whose digest it took, with queries that can be compared with     *)
(* them (index_if_needed, rag/indexer.py), unless builds overlapped, the   *)
(* source was edited between digest and chunks, or a model is missing.     *)
THEOREM ServedIndexIsAlwaysSound == IndexSpec => []ServedIndexIsSound
<1>1. VInv => ServedIndexIsSound
  BY DEF VInv, ServesSoundly, Comparable, ServedIndexIsSound
<1> QED BY <1>1, IndexStarts, IndexStepKeeps, PTL DEF IndexSpec
=============================================================================
