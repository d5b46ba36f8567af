------------------------ MODULE ShardedReviewProofs -------------------------
(***************************************************************************)
(* Proofs about the sharded review, for any number of shards, workers and  *)
(* findings, and whatever the threads and the deadline do; and about the   *)
(* plan it is given, for any files, directories and bounds.                *)
(***************************************************************************)
EXTENDS ShardedReview, ShardPlan

OutcomeRecord == [shard : Shards, status : {"completed", "error", "skipped_budget"}]

(* What has been dispatched is below next; what was collected has one      *)
(* outcome, which says what became of the shard.                           *)
ShardsAreTracked ==
  /\ outcomes \in Seq(OutcomeRecord)
  /\ \A s \in Shards : state[s] = "undispatched" <=> Turn[s] >= next
  /\ \A s \in Shards : s \in Collected <=> state[s] \in {"collected", "skipped"}
  /\ \A i, j \in 1 .. Len(outcomes) : outcomes[i].shard = outcomes[j].shard => i = j
  /\ \A i \in 1 .. Len(outcomes) :
       outcomes[i].status = "completed" => result[outcomes[i].shard] # NoResult

ReportIsMerged == Reported => Collected = Shards /\ review = MergedReport

(* A counter is never ahead of what was reported.                          *)
CountersAreBehind ==
  tokens <= reportedUsages /\ \A s \in Shards : read[s] <= reportedUsages

(* One worker: shards run one after the other, so at most one increment is *)
(* under way, and the counter it has read is the current one.              *)
OneAtATime ==
  workers = 1 =>
    /\ \A s \in Shards : state[s] # "queued" /\ (Turn[s] < next - 1 => s \in Collected)
    /\ \A s \in Shards :
         state[s] = "adding" => read[s] = reportedUsages /\ reportedUsages = tokens + 1
    /\ tokens = reportedUsages \/ \E s \in Shards : state[s] = "adding"

RInv == ReviewTypeOK /\ ShardsAreTracked /\ ReportIsMerged /\ CountersAreBehind /\ OneAtATime

-----------------------------------------------------------------------------
(* The order of the merge is that of the shards.                           *)
LEMMA OrderIsOfShards ==
  ASSUME Collected = Shards
  PROVE  Len(Ordered) = NumShards /\ \A k \in 1 .. NumShards : Ordered[k] = k
<1>0. NumShards \in Nat \ {0}
  BY ShardedReviewAssumption
<1>1. Shards \in SUBSET Nat /\ IsFiniteSet(Shards) /\ Cardinality(Shards) = NumShards
  BY <1>0, FS_Interval DEF Shards
<1>2. ASSUME NEW k \in 1 .. NumShards
      PROVE  Nth(Shards, k) = k
  <2> DEFINE m == Nth(Shards, k)
  <2>1. m \in Shards /\ Cardinality(Before(Shards, m)) = k - 1
    BY <1>1, <1>2, NthIsElement
  <2> HIDE DEF m
  <2>2. m \in Nat \ {0} /\ m <= NumShards
    BY <1>0, <2>1 DEF Shards
  <2>3. Before(Shards, m) = 1 .. m - 1
    BY <1>0, <2>2 DEF Before, Shards
  <2>4. Cardinality(1 .. m - 1) = m - 1
    <3> DEFINE n == m - 1
    <3>1. n \in Nat
      BY <2>2
    <3> HIDE DEF n
    <3>2. Cardinality(1 .. n) = n
      BY <3>1, FS_Interval
    <3> QED BY <3>2 DEF n
  <2>5. m = k
    BY <1>0, <2>1, <2>2, <2>3, <2>4
  <2> QED BY <2>5 DEF m
<1>3. Ordered = [k \in 1 .. NumShards |-> Nth(Shards, k)]
  BY <1>1 DEF Ordered
<1> QED BY <1>0, <1>2, <1>3

(* What the merge has kept of the findings F it has seen: of each key one, *)
(* the one that beats the others.                                          *)
Summarizes(best, F) ==
  /\ best \subseteq F
  /\ \A g \in F : \E h \in best : h.key = g.key /\ Beats(h, g)
  /\ \A g, h \in best : g.key = h.key => g = h

(* The fields of a finding with its shard.                                 *)
LEMMA TaggedFields ==
  ASSUME NEW g \in TaggedFinding
  PROVE  /\ g.key \in Keys /\ g.shard \in Shards /\ g.strength \in Strengths
         /\ g.shard \in Nat /\ g.strength \in Nat
         /\ g = [key |-> g.key, shard |-> g.shard, strength |-> g.strength]
<1>1. /\ g.key \in Keys /\ g.shard \in Shards /\ g.strength \in Strengths
      /\ g = [key |-> g.key, shard |-> g.shard, strength |-> g.strength]
  BY DEF TaggedFinding
<1>2. Strengths \subseteq Nat /\ Shards \subseteq Nat
  BY ShardedReviewAssumption DEF Shards
<1> QED BY <1>1, <1>2

(* One more finding is added to a summary of those before.                 *)
LEMMA StrongestAreKept ==
  ASSUME NEW F \in SUBSET TaggedFinding, NEW best, Summarizes(best, F),
         NEW f \in TaggedFinding, \A g \in F : g.shard <= f.shard
  PROVE  Summarizes(KeepStronger(best, f), F \cup {f})
<1> DEFINE rivals == {g \in best : g.key = f.key}
<1>0. /\ \A g \in F \cup {f} : g.strength \in Nat /\ g.shard \in Nat
      /\ best \subseteq F
      /\ \A g \in F : \E h \in best : h.key = g.key /\ Beats(h, g)
      /\ \A g, h \in best : g.key = h.key => g = h
  BY TaggedFields DEF Summarizes
<1>1. \A g, h, k \in F \cup {f} : Beats(g, h) /\ Beats(h, k) => Beats(g, k)
  BY <1>0 DEF Beats
<1>2. Beats(f, f)
  BY <1>0 DEF Beats
<1>3. CASE rivals = {}
  <2>1. KeepStronger(best, f) = best \cup {f}
    BY <1>3 DEF KeepStronger
  <2>2. \A g \in best : g.key # f.key
    BY <1>3
  <2> QED BY <1>0, <1>2, <2>1, <2>2 DEF Summarizes
<1>4. CASE rivals # {} /\ \E g \in rivals : f.strength > g.strength
  <2>1. KeepStronger(best, f) = (best \ rivals) \cup {f}
    BY <1>4 DEF KeepStronger
  <2>2. PICK r \in rivals : f.strength > r.strength
    BY <1>4
  <2>3. rivals = {r} /\ r \in best /\ r.key = f.key
    BY <1>0, <2>2
  <2> HIDE DEF rivals
  <2>4. Beats(f, r)
    BY <2>2 DEF Beats
  <2>5. ASSUME NEW g \in F \cup {f}
        PROVE  \E h \in (best \ {r}) \cup {f} : h.key = g.key /\ Beats(h, g)
    <3>1. CASE g = f
      BY <1>2, <3>1
    <3>2. CASE g # f
      <4>1. PICK h \in best : h.key = g.key /\ Beats(h, g)
        BY <1>0, <3>2
      <4>2. CASE h # r
        BY <4>1, <4>2
      <4>3. CASE h = r
        BY <1>0, <1>1, <2>3, <2>4, <4>1, <4>3
      <4> QED BY <4>2, <4>3
    <3> QED BY <3>1, <3>2
  <2>6. \A g, h \in (best \ {r}) \cup {f} : g.key = h.key => g = h
    BY <1>0, <2>3
  <2>7. (best \ {r}) \cup {f} \subseteq F \cup {f}
    BY <1>0
  <2> QED BY <2>1, <2>3, <2>5, <2>6, <2>7 DEF Summarizes
<1>5. CASE rivals # {} /\ ~ \E g \in rivals : f.strength > g.strength
  <2>1. KeepStronger(best, f) = best
    BY <1>5 DEF KeepStronger
  <2>2. PICK r \in best : r.key = f.key /\ ~ (f.strength > r.strength)
    BY <1>5
  <2>3. Beats(r, f)
    BY <1>0, <2>2 DEF Beats
  <2> QED BY <1>0, <2>1, <2>2, <2>3 DEF Summarizes
<1> QED BY <1>3, <1>4, <1>5

(* A summary holds the strongest finding of each key, and no other.        *)
LEMMA SummaryIsStrongest ==
  ASSUME NEW F \in SUBSET TaggedFinding, NEW best, Summarizes(best, F)
  PROVE  best = {f \in F : \A g \in F : g.key = f.key => Beats(f, g)}
<1>0. /\ \A g \in F : /\ g.strength \in Nat /\ g.shard \in Nat
                      /\ g = [key |-> g.key, shard |-> g.shard, strength |-> g.strength]
      /\ best \subseteq F
      /\ \A g \in F : \E h \in best : h.key = g.key /\ Beats(h, g)
      /\ \A g, h \in best : g.key = h.key => g = h
  BY TaggedFields DEF Summarizes
<1>1. ASSUME NEW f \in best, NEW g \in F, g.key = f.key
      PROVE  Beats(f, g)
  BY <1>0, <1>1
<1>2. ASSUME NEW f \in F, \A g \in F : g.key = f.key => Beats(f, g)
      PROVE  f \in best
  <2>1. PICK h \in best : h.key = f.key /\ Beats(h, f)
    BY <1>0
  <2>2. Beats(f, h)
    BY <1>0, <1>2, <2>1
  <2>3. h.strength = f.strength /\ h.shard = f.shard
    BY <1>0, <2>1, <2>2 DEF Beats
  <2>4. h = f
    BY <1>0, <2>1, <2>3
  <2> QED BY <2>4
<1> QED BY <1>0, <1>1, <1>2

-----------------------------------------------------------------------------
(* The two loops of the merge.                                             *)
ResultsTyped == result \in [Shards -> DebateResults \cup {NoResult}]

(* The fields of a result.                                                 *)
LEMMA ResultFields ==
  ASSUME ResultsTyped, NEW s \in Shards
  PROVE  /\ result[s].findings \in Seq(Finding)
         /\ Len(result[s].findings) \in 0 .. MaxFindings
         /\ \A i \in 1 .. Len(result[s].findings) : Tagged(s, i) \in TaggedFinding /\ Tagged(s, i).shard = s
         /\ result[s].hypotheses = IF result[s].status = "partial" THEN 1 ELSE 0
<1>1. result[s] \in DebateResults \cup {NoResult}
  BY DEF ResultsTyped
<1>2. /\ result[s].findings \in (UNION {[1 .. n -> Finding] : n \in 0 .. MaxFindings}) \cup {<<>>}
      /\ result[s].hypotheses = IF result[s].status = "partial" THEN 1 ELSE 0
  <2> DEFINE L == UNION {[1 .. n -> Finding] : n \in 0 .. MaxFindings}
  <2>1. \/ result[s] \in [status : {"complete"}, findings : L, hypotheses : {0}]
        \/ result[s] \in [status : {"partial"}, findings : {<<>>}, hypotheses : {1}]
        \/ result[s] \in [status : {"failed", "skipped_no_evidence"}, findings : {<<>>}, hypotheses : {0}]
        \/ result[s] = [status |-> "none", findings |-> <<>>, hypotheses |-> 0]
    BY <1>1 DEF DebateResults, NoResult
  <2> HIDE DEF L
  <2>2. CASE result[s] \in [status : {"complete"}, findings : L, hypotheses : {0}]
    BY <2>2 DEF L
  <2>3. CASE result[s] \in [status : {"partial"}, findings : {<<>>}, hypotheses : {1}]
    BY <2>3
  <2>4. CASE result[s] \in [status : {"failed", "skipped_no_evidence"}, findings : {<<>>}, hypotheses : {0}]
    BY <2>4
  <2>5. CASE result[s] = [status |-> "none", findings |-> <<>>, hypotheses |-> 0]
    BY <2>5
  <2> QED BY <2>1, <2>2, <2>3, <2>4, <2>5
<1>3. result[s].findings \in Seq(Finding) /\ Len(result[s].findings) \in 0 .. MaxFindings
  <2>1. CASE result[s].findings = <<>>
    <3>1. <<>> \in Seq(Finding) /\ Len(<<>>) = 0
      OBVIOUS
    <3>2. 0 \in 0 .. MaxFindings
      BY ShardedReviewAssumption
    <3> QED BY <2>1, <3>1, <3>2
  <2>2. ASSUME NEW n \in 0 .. MaxFindings, result[s].findings \in [1 .. n -> Finding]
        PROVE  result[s].findings \in Seq(Finding) /\ Len(result[s].findings) = n
    <3>1. n \in Nat
      BY ShardedReviewAssumption
    <3> QED BY <2>2, <3>1
  <2>3. result[s].findings = <<>> \/ \E n \in 0 .. MaxFindings : result[s].findings \in [1 .. n -> Finding]
    BY <1>2
  <2> QED BY <2>1, <2>2, <2>3, Zenon
<1>4. ASSUME NEW i \in 1 .. Len(result[s].findings)
      PROVE  Tagged(s, i) \in TaggedFinding /\ Tagged(s, i).shard = s
  <2>1. result[s].findings[i] \in Finding
    BY <1>3
  <2>2. result[s].findings[i].key \in Keys /\ result[s].findings[i].strength \in Strengths
    BY <2>1 DEF Finding
  <2> QED BY <2>2 DEF Tagged, TaggedFinding
<1> QED BY <1>2, <1>3, <1>4

(* The findings seen after i turns in the outcome of shard s.              *)
SeenAt(s, i) ==
  {f \in TaggedFinding :
     \E t \in Shards : \E j \in 1 .. Len(result[t].findings) :
       f = Tagged(t, j) /\ (t < s \/ (t = s /\ j <= i))}

(* The loop over the findings of one shard.                                *)
LEMMA FindingsLoop ==
  ASSUME ResultsTyped, NEW s \in Shards, NEW best \in SUBSET TaggedFinding
  PROVE  /\ WithFindingsOf(s, best) \in SUBSET TaggedFinding
         /\ Summarizes(best, SeenAt(s, 0)) =>
              Summarizes(WithFindingsOf(s, best), SeenAt(s, Len(result[s].findings)))
<1> DEFINE n == Len(result[s].findings)
           S == SUBSET TaggedFinding
           step == [i \in 1 .. n |-> [b \in S |-> KeepStronger(b, Tagged(s, i))]]
           Value(f) == f = [i \in 0 .. n |-> IF i = 0 THEN best ELSE KeepStronger(f[i - 1], Tagged(s, i))]
<1>1. n \in Nat /\ \A i \in 1 .. n : Tagged(s, i) \in TaggedFinding /\ Tagged(s, i).shard = s
  BY ResultFields, ShardedReviewAssumption
<1>2. \A i \in 1 .. n : \A b \in S : KeepStronger(b, Tagged(s, i)) \in S
  BY <1>1 DEF KeepStronger
<1> HIDE DEF n, S
<1>3. step \in [1 .. n -> [S -> S]]
  BY <1>2
<1>4. best \in S
  BY DEF S
<1> HIDE DEF step
<1>5. PICK g \in [0 .. n -> S] : g[0] = best /\ \A i \in 1 .. n : g[i] = step[i][g[i - 1]]
  <2>1. n \in Nat
    BY <1>1
  <2>2. \E g \in [0 .. n -> S] : IsLoop(g, n, best, step)
    BY <2>1, <1>3, <1>4, LoopIsDefined, Zenon
  <2> QED BY <2>2 DEF IsLoop
<1>6. Value(g)
  <2>1. \A i \in 0 .. n : i # 0 => i \in 1 .. n /\ i - 1 \in 0 .. n
    BY <1>1
  <2>2. \A i \in 0 .. n : g[i] = IF i = 0 THEN best ELSE KeepStronger(g[i - 1], Tagged(s, i))
    BY <1>5, <2>1 DEF step
  <2>3. g = [i \in 0 .. n |-> g[i]]
    BY <1>5
  <2> QED BY <2>2, <2>3
<1> DEFINE upTo == CHOOSE f : Value(f)
<1>7. Value(upTo)
  BY <1>6
<1>8. WithFindingsOf(s, best) = upTo[n]
  BY DEF WithFindingsOf, n
<1> HIDE DEF upTo
<1>9. /\ upTo[0] = best
      /\ \A i \in 1 .. n : upTo[i] = KeepStronger(upTo[i - 1], Tagged(s, i))
  <2>1. 0 \in 0 .. n /\ \A i \in 1 .. n : i \in 0 .. n /\ i # 0
    BY <1>1
  <2> QED BY <1>7, <2>1
<1> DEFINE Starts == Summarizes(best, SeenAt(s, 0))
           T == {i \in 0 .. n : ~ (upTo[i] \in S /\ (Starts => Summarizes(upTo[i], SeenAt(s, i))))}
<1>10. ASSUME T # {} PROVE FALSE
  <2>1. T \in SUBSET Nat
    BY <1>1
  <2> HIDE DEF T
  <2>2. PICK m \in T : \A k \in T : m <= k
    BY <1>10, <2>1, LeastNatural, Zenon
  <2> USE DEF T
  <2>3. m \in 0 .. n /\ ~ (upTo[m] \in S /\ (Starts => Summarizes(upTo[m], SeenAt(s, m))))
    BY <2>2
  <2>4. m # 0
    BY <1>4, <1>9, <2>3
  <2>5. m \in 1 .. n /\ m - 1 \in 0 .. n /\ ~ (m <= m - 1)
    BY <1>1, <2>3, <2>4
  <2>6. upTo[m - 1] \in S /\ (Starts => Summarizes(upTo[m - 1], SeenAt(s, m - 1)))
    BY <2>2, <2>5
  <2>7. SeenAt(s, m) = SeenAt(s, m - 1) \cup {Tagged(s, m)}
    <3>1. s \in Nat /\ \A t \in Shards : \A j \in 1 .. Len(result[t].findings) : j \in Nat
      BY DEF Shards
    <3>2. \A j \in Nat : j <= m <=> j <= m - 1 \/ j = m
      BY <1>1, <2>5
    <3> QED BY <1>1, <2>5, <3>1, <3>2 DEF SeenAt, n
  <2>8. \A g1 \in SeenAt(s, m - 1) : g1.shard <= Tagged(s, m).shard
    <3>1. \A t \in Shards : t \in Nat
      BY DEF Shards
    <3>2. \A g1 \in SeenAt(s, m - 1) : g1.shard \in Shards /\ (g1.shard < s \/ g1.shard = s)
      BY ResultFields DEF SeenAt
    <3> QED BY <1>1, <2>5, <3>1, <3>2
  <2>9. SeenAt(s, m - 1) \in SUBSET TaggedFinding
    BY DEF SeenAt
  <2>10. Starts => Summarizes(upTo[m], SeenAt(s, m))
    BY <1>1, <1>9, <2>5, <2>6, <2>7, <2>8, <2>9, StrongestAreKept
  <2>11. upTo[m] \in S
    BY <1>2, <1>9, <2>5, <2>6
  <2> QED BY <2>3, <2>10, <2>11
<1>11. n \in 0 .. n
  BY <1>1
<1>12. upTo[n] \in S /\ (Starts => Summarizes(upTo[n], SeenAt(s, n)))
  BY <1>10, <1>11
<1> QED BY <1>8, <1>12 DEF S, n

(* The findings of the first k shards.                                     *)
SeenBy(k) ==
  {f \in TaggedFinding :
     \E t \in Shards : \E j \in 1 .. Len(result[t].findings) : f = Tagged(t, j) /\ t <= k}

(* What was seen before a shard and after it.                              *)
LEMMA SeenShardByShard ==
  ASSUME ResultsTyped
  PROVE  /\ SeenBy(0) = {} /\ SeenBy(NumShards) = Found
         /\ \A s \in Shards : /\ SeenAt(s, 0) = SeenBy(s - 1)
                              /\ SeenAt(s, Len(result[s].findings)) = SeenBy(s)
<1>0. NumShards \in Nat \ {0} /\ \A t \in Shards : t \in Nat /\ 1 <= t /\ t <= NumShards
  BY ShardedReviewAssumption DEF Shards
<1>1. \A t \in Shards : /\ Len(result[t].findings) \in 0 .. MaxFindings
                        /\ DOMAIN result[t].findings = 1 .. Len(result[t].findings)
                        /\ \A j \in 1 .. Len(result[t].findings) : Tagged(t, j) \in TaggedFinding
  BY ResultFields
<1>2. \A t \in Shards : Len(result[t].findings) \in Nat
  BY <1>1, ShardedReviewAssumption
<1>3. SeenBy(0) = {}
  BY <1>0 DEF SeenBy
<1>4. ASSUME NEW s \in Shards
      PROVE  SeenAt(s, 0) = SeenBy(s - 1) /\ SeenAt(s, Len(result[s].findings)) = SeenBy(s)
  <2>1. \A t \in Shards : /\ t < s <=> t <= s - 1
                          /\ (t < s \/ t = s) <=> t <= s
    BY <1>0
  <2>2. \A t \in Shards : \A j \in 1 .. Len(result[t].findings) :
          ~ (j <= 0) /\ j <= Len(result[t].findings)
    BY <1>2
  <2>3. SeenAt(s, 0) = SeenBy(s - 1)
    BY <2>1, <2>2 DEF SeenAt, SeenBy
  <2>4. SeenAt(s, Len(result[s].findings)) = SeenBy(s)
    BY <2>1, <2>2 DEF SeenAt, SeenBy
  <2> QED BY <2>3, <2>4
<1>5. SeenBy(NumShards) = Found
  <2>1. ASSUME NEW f \in SeenBy(NumShards) PROVE f \in Found
    <3>1. PICK t \in Shards : \E j \in 1 .. Len(result[t].findings) : f = Tagged(t, j)
      BY DEF SeenBy
    <3>4. PICK j \in 1 .. Len(result[t].findings) : f = Tagged(t, j)
      BY <3>1
    <3>2. j \in 1 .. MaxFindings /\ j \in DOMAIN result[t].findings
      BY <1>1, <1>2, ShardedReviewAssumption
    <3>3. <<t, j>> \in {p \in Shards \X (1 .. MaxFindings) : p[2] \in DOMAIN result[p[1]].findings}
      BY <3>2
    <3> QED BY <3>3, <3>4 DEF Found
  <2>2. ASSUME NEW f \in Found PROVE f \in SeenBy(NumShards)
    <3>1. PICK p \in Shards \X (1 .. MaxFindings) :
                 p[2] \in DOMAIN result[p[1]].findings /\ f = Tagged(p[1], p[2])
      BY DEF Found
    <3>2. p[1] \in Shards /\ p[2] \in 1 .. Len(result[p[1]].findings)
      BY <1>1, <3>1
    <3> QED BY <1>0, <1>1, <3>1, <3>2 DEF SeenBy
  <2> QED BY <2>1, <2>2
<1> QED BY <1>3, <1>4, <1>5

(* The loop over all shards.                                               *)
LEMMA MergeLoop ==
  ASSUME ResultsTyped, Collected = Shards
  PROVE  MergedFindings \in SUBSET TaggedFinding /\ Summarizes(MergedFindings, Found)
<1> DEFINE n == Len(Ordered)
           S == SUBSET TaggedFinding
           step == [k \in 1 .. n |-> [b \in S |-> WithFindingsOf(k, b)]]
           Value(f) == f = [k \in 0 .. n |-> IF k = 0 THEN {} ELSE WithFindingsOf(Ordered[k], f[k - 1])]
<1>1. n = NumShards /\ n \in Nat /\ Shards = 1 .. n /\ \A k \in 1 .. n : Ordered[k] = k
  BY OrderIsOfShards, ShardedReviewAssumption DEF Shards
<1>2. \A k \in 1 .. n : \A b \in S : WithFindingsOf(k, b) \in S
  BY <1>1, FindingsLoop
<1> HIDE DEF n
<1>3. {} \in S
  OBVIOUS
<1> HIDE DEF S
<1>4. step \in [1 .. n -> [S -> S]]
  BY <1>2
<1> HIDE DEF step
<1>5. PICK g \in [0 .. n -> S] : g[0] = {} /\ \A i \in 1 .. n : g[i] = step[i][g[i - 1]]
  <2>1. n \in Nat
    BY <1>1
  <2>2. \E g \in [0 .. n -> S] : IsLoop(g, n, {}, step)
    BY <2>1, <1>3, <1>4, LoopIsDefined, Zenon
  <2> QED BY <2>2 DEF IsLoop
<1>6. Value(g)
  <2>1. \A i \in 0 .. n : i # 0 => i \in 1 .. n /\ i - 1 \in 0 .. n
    BY <1>1
  <2>2. \A i \in 0 .. n : g[i] = IF i = 0 THEN {} ELSE WithFindingsOf(Ordered[i], g[i - 1])
    BY <1>1, <1>5, <2>1 DEF step
  <2>3. g = [i \in 0 .. n |-> g[i]]
    BY <1>5
  <2> QED BY <2>2, <2>3
<1> DEFINE upTo == CHOOSE f : Value(f)
<1>7. Value(upTo)
  BY <1>6
<1>8. MergedFindings = upTo[n]
  BY DEF MergedFindings, n
<1> HIDE DEF upTo
<1>9. /\ upTo[0] = {}
      /\ \A i \in 1 .. n : upTo[i] = WithFindingsOf(i, upTo[i - 1])
  <2>1. 0 \in 0 .. n /\ \A i \in 1 .. n : i \in 0 .. n /\ i # 0
    BY <1>1
  <2> QED BY <1>1, <1>7, <2>1
<1> DEFINE T == {i \in 0 .. n : ~ (upTo[i] \in S /\ Summarizes(upTo[i], SeenBy(i)))}
<1>10. ASSUME T # {} PROVE FALSE
  <2>1. T \in SUBSET Nat
    BY <1>1
  <2> HIDE DEF T
  <2>2. PICK m \in T : \A k \in T : m <= k
    BY <1>10, <2>1, LeastNatural, Zenon
  <2> USE DEF T
  <2>3. m \in 0 .. n /\ ~ (upTo[m] \in S /\ Summarizes(upTo[m], SeenBy(m)))
    BY <2>2
  <2>4. m # 0
    <3>1. SeenBy(0) = {}
      BY SeenShardByShard
    <3>2. Summarizes({}, {})
      BY DEF Summarizes
    <3> QED BY <1>3, <1>9, <2>3, <3>1, <3>2
  <2>5. m \in 1 .. n /\ m - 1 \in 0 .. n /\ ~ (m <= m - 1)
    BY <1>1, <2>3, <2>4
  <2>6. upTo[m - 1] \in S /\ Summarizes(upTo[m - 1], SeenBy(m - 1))
    BY <2>2, <2>5
  <2>7. m \in Shards
    BY <1>1, <2>5
  <2>8. upTo[m] = WithFindingsOf(m, upTo[m - 1])
    BY <1>9, <2>5
  <2>9. upTo[m] \in S /\ Summarizes(upTo[m], SeenBy(m))
    BY <2>6, <2>7, <2>8, FindingsLoop, SeenShardByShard DEF S
  <2> QED BY <2>3, <2>9
<1>11. n \in 0 .. n
  BY <1>1
<1>12. upTo[n] \in S /\ Summarizes(upTo[n], SeenBy(n))
  BY <1>10, <1>11
<1> QED BY <1>1, <1>8, <1>12, SeenShardByShard DEF S

(* Every hypothesis that no debate promoted is counted.                    *)
PartialBy(k) == {s \in Shards : s <= k /\ result[s].status = "partial"}

(* Partial results, counted shard by shard.                                *)
LEMMA PartialShardByShard ==
  /\ Cardinality(PartialBy(0)) = 0
  /\ \A m \in Shards :
       /\ Cardinality(PartialBy(m - 1)) \in Nat
       /\ Cardinality(PartialBy(m)) =
            Cardinality(PartialBy(m - 1)) + IF result[m].status = "partial" THEN 1 ELSE 0
<1>0. NumShards \in Nat \ {0} /\ IsFiniteSet(Shards) /\ \A s \in Shards : s \in Nat \ {0}
  BY ShardedReviewAssumption, FS_Interval DEF Shards
<1>1. Cardinality(PartialBy(0)) = 0
  <2>1. PartialBy(0) = {}
    BY <1>0 DEF PartialBy
  <2> QED BY <2>1, FS_EmptySet
<1>2. ASSUME NEW m \in Shards
      PROVE  /\ Cardinality(PartialBy(m - 1)) \in Nat
             /\ Cardinality(PartialBy(m)) =
                  Cardinality(PartialBy(m - 1)) + IF result[m].status = "partial" THEN 1 ELSE 0
  <2>1. IsFiniteSet(PartialBy(m - 1))
    BY <1>0, FS_Subset DEF PartialBy
  <2>2. Cardinality(PartialBy(m - 1)) \in Nat
    BY <2>1, FS_CardinalityType
  <2>3. m \notin PartialBy(m - 1) /\ \A s \in Shards : s <= m <=> s <= m - 1 \/ s = m
    BY <1>0 DEF PartialBy
  <2>4. CASE result[m].status = "partial"
    <3>1. PartialBy(m) = PartialBy(m - 1) \cup {m}
      BY <2>3, <2>4 DEF PartialBy
    <3>2. Cardinality(PartialBy(m)) = Cardinality(PartialBy(m - 1)) + 1
      BY <2>1, <2>3, <3>1, FS_AddElement
    <3> QED BY <2>2, <2>4, <3>2
  <2>5. CASE result[m].status # "partial"
    <3>1. PartialBy(m) = PartialBy(m - 1)
      BY <2>3, <2>5 DEF PartialBy
    <3> QED BY <2>2, <2>5, <3>1
  <2> QED BY <2>2, <2>4, <2>5
<1> QED BY <1>1, <1>2

(* The loop that adds up the hypotheses counts the partial results.        *)
LEMMA HypothesesLoop ==
  ASSUME ResultsTyped, Collected = Shards
  PROVE  Hypotheses = Cardinality({s \in Shards : result[s].status = "partial"})
<1> DEFINE n == Len(Ordered)
           more(k) == IF result[k].status = "partial" THEN 1 ELSE 0
           step == [k \in 1 .. n |-> [b \in Nat |-> b + more(k)]]
           Value(f) == f = [k \in 0 .. n |->
                              IF k = 0 THEN 0 ELSE f[k - 1] + result[Ordered[k]].hypotheses]
<1>1. n = NumShards /\ n \in Nat /\ Shards = 1 .. n /\ \A k \in 1 .. n : Ordered[k] = k
  BY OrderIsOfShards, ShardedReviewAssumption DEF Shards
<1>2. \A k \in 1 .. n : result[k].hypotheses = more(k) /\ more(k) \in Nat
  BY <1>1, ResultFields
<1> HIDE DEF n, more
<1>4. step \in [1 .. n -> [Nat -> Nat]]
  BY <1>2
<1> HIDE DEF step
<1>5. PICK g \in [0 .. n -> Nat] : g[0] = 0 /\ \A i \in 1 .. n : g[i] = step[i][g[i - 1]]
  <2>1. n \in Nat /\ 0 \in Nat
    BY <1>1
  <2>2. \E g \in [0 .. n -> Nat] : IsLoop(g, n, 0, step)
    BY <2>1, <1>4, LoopIsDefined, Zenon
  <2> QED BY <2>2 DEF IsLoop
<1>6. Value(g)
  <2>1. \A i \in 0 .. n : i # 0 => i \in 1 .. n /\ i - 1 \in 0 .. n
    BY <1>1
  <2>2. \A i \in 0 .. n : g[i] = IF i = 0 THEN 0 ELSE g[i - 1] + result[Ordered[i]].hypotheses
    <3>1. \A i \in 1 .. n : g[i - 1] \in Nat
      BY <1>1, <1>5
    <3>2. \A i \in 1 .. n : step[i][g[i - 1]] = g[i - 1] + more(i)
      BY <3>1 DEF step
    <3>3. \A i \in 1 .. n : g[i] = g[i - 1] + result[Ordered[i]].hypotheses
      BY <1>1, <1>2, <1>5, <3>2
    <3> QED BY <1>5, <2>1, <3>3
  <2>3. g = [i \in 0 .. n |-> g[i]]
    BY <1>5
  <2> QED BY <2>2, <2>3
<1> DEFINE upTo == CHOOSE f : Value(f)
<1>7. Value(upTo)
  BY <1>6
<1>8. Hypotheses = upTo[n]
  BY DEF Hypotheses, n
<1> HIDE DEF upTo
<1>9. /\ upTo[0] = 0
      /\ \A i \in 1 .. n : upTo[i] = upTo[i - 1] + more(i)
  <2>1. 0 \in 0 .. n /\ \A i \in 1 .. n : i \in 0 .. n /\ i # 0
    BY <1>1
  <2> QED BY <1>1, <1>2, <1>7, <2>1
<1> DEFINE T == {i \in 0 .. n : ~ (upTo[i] = Cardinality(PartialBy(i)))}
<1>10. ASSUME T # {} PROVE FALSE
  <2>1. T \in SUBSET Nat
    BY <1>1
  <2> HIDE DEF T
  <2>2. PICK m \in T : \A k \in T : m <= k
    BY <1>10, <2>1, LeastNatural, Zenon
  <2> USE DEF T
  <2>3. m \in 0 .. n /\ ~ (upTo[m] = Cardinality(PartialBy(m)))
    BY <2>2
  <2>4. m # 0
    BY <1>9, <2>3, PartialShardByShard
  <2>5. m \in 1 .. n /\ m - 1 \in 0 .. n /\ ~ (m <= m - 1)
    BY <1>1, <2>3, <2>4
  <2>6. upTo[m - 1] = Cardinality(PartialBy(m - 1))
    BY <2>2, <2>5
  <2>7. m \in Shards
    BY <1>1, <2>5
  <2>8. Cardinality(PartialBy(m)) = Cardinality(PartialBy(m - 1)) + more(m)
    BY <2>7, PartialShardByShard DEF more
  <2> QED BY <1>9, <2>3, <2>5, <2>6, <2>8
<1>11. n \in 0 .. n /\ \A s \in Shards : s <= n
  BY <1>1
<1>12. upTo[n] = Cardinality(PartialBy(n))
  BY <1>10, <1>11
<1>13. PartialBy(n) = {s \in Shards : result[s].status = "partial"}
  BY <1>11 DEF PartialBy
<1> QED BY <1>8, <1>12, <1>13

-----------------------------------------------------------------------------
(* The invariant is inductive.                                             *)
LEMMA ReviewInitEstablishes == ReviewInit => RInv
<1> SUFFICES ASSUME ReviewInit PROVE RInv
  OBVIOUS
<1>1. /\ NumShards \in Nat \ {0} /\ WorkerCounts \subseteq Nat \ {0}
      /\ next = 1 /\ late = FALSE /\ tokens = 0 /\ calls = 0 /\ reportedUsages = 0
      /\ state = [s \in Shards |-> "undispatched"] /\ read = [s \in Shards |-> 0]
      /\ result = [s \in Shards |-> NoResult] /\ review = NoReview
  BY ShardedReviewAssumption DEF ReviewInit
<1>2. /\ outcomes = <<>> /\ outcomes \in Seq(OutcomeRecord)
      /\ DOMAIN outcomes = {} /\ 1 .. Len(outcomes) = {} /\ Collected = {}
  <2>1. outcomes = <<>>
    BY DEF ReviewInit
  <2> QED BY <2>1 DEF Collected
<1>3. workers \in 1 .. NumShards
  <2>1. PICK w \in WorkerCounts : workers = IF w < NumShards THEN w ELSE NumShards
    BY DEF ReviewInit
  <2> QED BY <1>1, <2>1
<1>4. next \in 1 .. NumShards + 1 /\ \A s \in Shards : Turn[s] >= next
  BY <1>1, ShardedReviewAssumption DEF Shards
<1>5. ReviewTypeOK
  <2>1. review.status = "none" /\ review.findings = {}
    BY <1>1 DEF NoReview
  <2>2. /\ state \in [Shards -> {"undispatched", "queued", "debating", "adding",
                                "returned", "collected", "skipped"}]
        /\ read \in [Shards -> Nat]
        /\ result \in [Shards -> DebateResults \cup {NoResult}]
    BY <1>1
  <2>3. late \in BOOLEAN /\ tokens \in Nat /\ calls \in Nat /\ reportedUsages \in Nat
    BY <1>1
  <2> QED BY <1>2, <1>3, <1>4, <2>1, <2>2, <2>3 DEF ReviewTypeOK
<1>6. ShardsAreTracked
  <2>1. \A s \in Shards : state[s] = "undispatched"
    BY <1>1
  <2> QED BY <1>2, <1>4, <2>1 DEF ShardsAreTracked
<1>7. ReportIsMerged
  BY <1>1 DEF ReportIsMerged, Reported
<1>8. CountersAreBehind /\ OneAtATime
  <2>1. \A s \in Shards : state[s] = "undispatched" /\ read[s] = 0
    BY <1>1
  <2>2. \A s \in Shards : ~ (Turn[s] < next - 1)
    BY <1>1, ShardedReviewAssumption DEF Shards
  <2> QED BY <1>1, <2>1, <2>2 DEF CountersAreBehind, OneAtATime
<1> QED BY <1>5, <1>6, <1>7, <1>8 DEF RInv

(* The types of what the review counts with.                               *)
LEMMA NumbersOfReview ==
  ASSUME ReviewTypeOK
  PROVE  /\ NumShards \in Nat /\ workers \in 1 .. NumShards /\ next \in 1 .. NumShards + 1
         /\ \A s \in Shards : s \in Nat /\ 1 <= s /\ s <= NumShards
         /\ \A s \in Shards : Turn[s] \in Nat /\ 1 <= Turn[s] /\ Turn[s] <= NumShards
         /\ \A s, t \in Shards : Turn[s] = Turn[t] => s = t
         /\ \A s \in 1 .. NumShards : s \in Shards
         /\ tokens \in Nat /\ calls \in Nat /\ reportedUsages \in Nat /\ late \in BOOLEAN
         /\ read \in [Shards -> Nat] /\ ResultsTyped
         /\ state \in [Shards -> {"undispatched", "queued", "debating", "adding",
                                  "returned", "collected", "skipped"}]
BY ShardedReviewAssumption DEF ReviewTypeOK, ResultsTyped, Shards

(* Before the last outcome there is no report.                             *)
LEMMA NotYetReported ==
  ASSUME RInv, NEW s \in Shards, s \notin Collected
  PROVE  review = NoReview
BY DEF RInv, ReportIsMerged, Reported

(* With one worker one shard at most is dispatched and not collected.      *)
LEMMA OneRunning ==
  ASSUME RInv, workers = 1, NEW s \in Shards, NEW t \in Shards,
         state[s] \notin {"undispatched", "collected", "skipped"},
         state[t] \notin {"undispatched", "collected", "skipped"}
  PROVE  s = t
<1>1. next \in Nat /\ Turn[s] \in Nat /\ Turn[t] \in Nat /\ (Turn[s] = Turn[t] => s = t)
  BY NumbersOfReview DEF RInv
<1>2. s \notin Collected /\ t \notin Collected /\ ~ (Turn[s] >= next) /\ ~ (Turn[t] >= next)
  BY DEF RInv, ShardsAreTracked
<1>3. ~ (Turn[s] < next - 1) /\ ~ (Turn[t] < next - 1)
  BY <1>2 DEF RInv, OneAtATime
<1> QED BY <1>1, <1>2, <1>3

(* An outcome is appended.                                                 *)
LEMMA OutcomeAppended ==
  ASSUME RInv, NEW s \in Shards, s \notin Collected,
         NEW st \in {"completed", "error", "skipped_budget"},
         outcomes' = Append(outcomes, Outcome(s, st))
  PROVE  /\ outcomes' \in Seq(OutcomeRecord) /\ Len(outcomes') = Len(outcomes) + 1
         /\ Len(outcomes) \in Nat
         /\ \A i \in 1 .. Len(outcomes) : outcomes'[i] = outcomes[i]
         /\ outcomes'[Len(outcomes) + 1] = Outcome(s, st)
         /\ Collected' = Collected \cup {s}
         /\ \A i, j \in 1 .. Len(outcomes') : outcomes'[i].shard = outcomes'[j].shard => i = j
         /\ \A i \in DOMAIN outcomes' :
              outcomes'[i] \in [shard : Shards, status : {"completed", "error", "skipped_budget"}]
<1> DEFINE o == Outcome(s, st)  n == Len(outcomes)
<1>1. o \in OutcomeRecord /\ o.shard = s /\ o.status = st
  BY DEF Outcome, OutcomeRecord
<1>2. outcomes \in Seq(OutcomeRecord) /\ n \in Nat /\ DOMAIN outcomes = 1 .. n
  BY DEF RInv, ShardsAreTracked
<1> HIDE DEF o
<1>3. /\ outcomes' \in Seq(OutcomeRecord) /\ Len(outcomes') = n + 1
      /\ \A i \in 1 .. n : outcomes'[i] = outcomes[i]
      /\ outcomes'[n + 1] = o /\ DOMAIN outcomes' = 1 .. n + 1
  BY <1>1, <1>2 DEF o
<1>4. \A i \in 1 .. n : outcomes[i].shard # s
  BY <1>2 DEF Collected
<1>5. \A i, j \in 1 .. n : outcomes[i].shard = outcomes[j].shard => i = j
  BY DEF RInv, ShardsAreTracked
<1> HIDE DEF n
<1>6. \A i \in 1 .. n + 1 : i \in 1 .. n \/ i = n + 1
  BY <1>2
<1>7. \A i, j \in 1 .. n + 1 : outcomes'[i].shard = outcomes'[j].shard => i = j
  BY <1>1, <1>3, <1>4, <1>5, <1>6
<1>8. Collected' = Collected \cup {s}
  <2>1. \A i \in 1 .. n : i \in 1 .. n + 1
    BY <1>2
  <2>2. n + 1 \in 1 .. n + 1
    BY <1>2
  <2>3. \A x : x \in Collected' <=> x \in Collected \cup {s}
    BY <1>1, <1>2, <1>3, <1>6, <2>1, <2>2 DEF Collected
  <2> QED BY <2>3
<1>9. \A i \in DOMAIN outcomes' : outcomes'[i] \in OutcomeRecord
  BY <1>3
<1> QED BY <1>2, <1>3, <1>7, <1>8, <1>9 DEF n, o, OutcomeRecord

(* A shard moves on towards its outcome; nothing else is affected.         *)
Moves(s, to) ==
  /\ to \in {"queued", "debating", "adding", "returned"}
  /\ state' = [state EXCEPT ![s] = to]
  /\ (Turn[s] < next /\ next' = next) \/ (Turn[s] = next /\ next' = next + 1)
  /\ \A t \in Shards : t # s => result'[t] = result[t]
  /\ UNCHANGED <<outcomes, review>>

(* A shard that goes on before it is collected.                            *)
LEMMA MovingShardsAreTracked ==
  ASSUME RInv, NEW s \in Shards, s \notin Collected, NEW to, Moves(s, to)
  PROVE  /\ ShardsAreTracked' /\ ReportIsMerged' /\ Collected' = Collected
         /\ state' \in [Shards -> {"undispatched", "queued", "debating", "adding",
                                  "returned", "collected", "skipped"}]
         /\ state'[s] = to /\ \A t \in Shards : t # s => state'[t] = state[t]
         /\ next' \in 1 .. NumShards + 1
<1>1. /\ next \in Nat /\ NumShards \in Nat /\ next \in 1 .. NumShards + 1
      /\ \A t \in Shards : Turn[t] \in Nat /\ Turn[t] <= NumShards /\ (Turn[t] = Turn[s] => t = s)
      /\ state \in [Shards -> {"undispatched", "queued", "debating", "adding",
                               "returned", "collected", "skipped"}]
  BY NumbersOfReview DEF RInv
<1>2. /\ state' \in [Shards -> {"undispatched", "queued", "debating", "adding",
                                "returned", "collected", "skipped"}]
      /\ state'[s] = to /\ \A t \in Shards : t # s => state'[t] = state[t]
      /\ to \notin {"undispatched", "collected", "skipped"}
  BY <1>1 DEF Moves
<1>3. Collected' = Collected /\ outcomes' = outcomes
  BY DEF Collected, Moves
<1>4. next' \in 1 .. NumShards + 1 /\ \A t \in Shards : t # s => (Turn[t] >= next' <=> Turn[t] >= next)
  BY <1>1 DEF Moves
<1>5. ~ (Turn[s] >= next')
  BY <1>1 DEF Moves
<1>6. /\ outcomes \in Seq(OutcomeRecord)
      /\ \A t \in Shards : state[t] = "undispatched" <=> Turn[t] >= next
      /\ \A t \in Shards : t \in Collected <=> state[t] \in {"collected", "skipped"}
      /\ \A i, j \in 1 .. Len(outcomes) : outcomes[i].shard = outcomes[j].shard => i = j
      /\ \A i \in 1 .. Len(outcomes) :
           outcomes[i].status = "completed" => result[outcomes[i].shard] # NoResult
  BY DEF RInv, ShardsAreTracked
<1>7. \A t \in Shards : state'[t] = "undispatched" <=> Turn[t] >= next'
  BY <1>2, <1>4, <1>5, <1>6
<1>8. \A t \in Shards : t \in Collected <=> state'[t] \in {"collected", "skipped"}
  BY <1>2, <1>6
<1>9. \A i \in 1 .. Len(outcomes) : result'[outcomes[i].shard] = result[outcomes[i].shard]
  <2>1. \A i \in 1 .. Len(outcomes) : outcomes[i].shard \in Shards /\ outcomes[i].shard # s
    <3>1. DOMAIN outcomes = 1 .. Len(outcomes) /\ \A i \in 1 .. Len(outcomes) : outcomes[i] \in OutcomeRecord
      BY <1>6
    <3> QED BY <3>1 DEF Collected, OutcomeRecord
  <2> QED BY <2>1 DEF Moves
<1>10. ShardsAreTracked'
  BY <1>3, <1>6, <1>7, <1>8, <1>9 DEF ShardsAreTracked
<1>11. ReportIsMerged'
  BY NotYetReported DEF ReportIsMerged, Reported, Moves
<1> QED BY <1>2, <1>3, <1>4, <1>10, <1>11

(* The type invariant, when plan and report are left alone.                *)
LEMMA TypesStay ==
  ASSUME RInv, UNCHANGED <<workers, outcomes, review>>,
         late' \in BOOLEAN, next' \in 1 .. NumShards + 1,
         state' \in [Shards -> {"undispatched", "queued", "debating", "adding",
                               "returned", "collected", "skipped"}],
         result' \in [Shards -> DebateResults \cup {NoResult}],
         tokens' \in Nat, calls' \in Nat, reportedUsages' \in Nat, read' \in [Shards -> Nat]
  PROVE  ReviewTypeOK'
BY DEF RInv, ReviewTypeOK

(* The caller hands out the next shard, or runs it itself.                 *)
LEMMA DispatchKeeps ==
  ASSUME RInv, NEW s \in Shards, RunInline(s) \/ Submit(s)
  PROVE  RInv'
<1>1. /\ Turn[s] = next /\ next \in Nat /\ NumShards \in Nat
      /\ tokens \in Nat /\ calls \in Nat /\ reportedUsages \in Nat /\ late \in BOOLEAN
      /\ read \in [Shards -> Nat] /\ result \in [Shards -> DebateResults \cup {NoResult}]
      /\ \A t \in Shards : Turn[t] \in Nat
  BY NumbersOfReview DEF RInv, RunInline, Submit, IsNext, ResultsTyped
<1>2. /\ UNCHANGED <<workers, late, result, outcomes, review, tokens, calls, read, reportedUsages>>
      /\ next' = next + 1
  BY DEF RunInline, Submit, usageVars
<1>3. PICK to \in {"queued", "debating"} : Moves(s, to) /\ (to = "queued" => workers > 1)
  <2>1. CASE RunInline(s)
    BY <1>2, <2>1 DEF RunInline, IsNext, Moves
  <2>2. CASE Submit(s)
    BY <1>2, <2>2 DEF Submit, IsNext, Moves
  <2> QED BY <2>1, <2>2
<1>4. s \notin Collected
  BY <1>1 DEF RInv, ShardsAreTracked
<1>5. /\ ShardsAreTracked' /\ ReportIsMerged' /\ Collected' = Collected
      /\ state' \in [Shards -> {"undispatched", "queued", "debating", "adding",
                               "returned", "collected", "skipped"}]
      /\ state'[s] = to /\ \A t \in Shards : t # s => state'[t] = state[t]
      /\ next' \in 1 .. NumShards + 1
  BY <1>1, <1>3, <1>4, MovingShardsAreTracked
<1>6. ReviewTypeOK'
  BY <1>1, <1>2, <1>5, TypesStay
<1>7. CountersAreBehind'
  BY <1>2 DEF RInv, CountersAreBehind
<1>8. OneAtATime'
  <2> SUFFICES ASSUME workers = 1 PROVE OneAtATime'
    BY <1>2 DEF OneAtATime
  <2>1. to = "debating" /\ Collected = {t \in Shards : Turn[t] < next}
    BY <1>3 DEF RunInline, Submit, IsNext
  <2>2. \A t \in Shards : state'[t] # "queued" /\ (Turn[t] < next' - 1 => t \in Collected')
    BY <1>1, <1>2, <1>5, <2>1 DEF RInv, OneAtATime
  <2>3. state[s] = "undispatched"
    BY <1>1 DEF RInv, ShardsAreTracked
  <2>4. \A t \in Shards : state'[t] = "adding" <=> state[t] = "adding"
    BY <1>5, <2>1, <2>3
  <2> QED BY <1>2, <2>2, <2>4 DEF RInv, OneAtATime
<1> QED BY <1>5, <1>6, <1>7, <1>8 DEF RInv

(* A worker takes a shard.                                                 *)
LEMMA TakeKeeps ==
  ASSUME RInv, NEW s \in Shards, Take(s)
  PROVE  RInv'
<1>1. /\ next \in Nat /\ NumShards \in Nat
      /\ tokens \in Nat /\ calls \in Nat /\ reportedUsages \in Nat /\ late \in BOOLEAN
      /\ read \in [Shards -> Nat] /\ result \in [Shards -> DebateResults \cup {NoResult}]
      /\ \A t \in Shards : Turn[t] \in Nat
  BY NumbersOfReview DEF RInv, ResultsTyped
<1>2. /\ UNCHANGED <<workers, late, next, result, outcomes, review, tokens, calls, read, reportedUsages>>
      /\ state[s] = "queued" /\ state' = [state EXCEPT ![s] = "debating"]
  BY DEF Take, usageVars, Queued
<1>3. s \notin Collected /\ Turn[s] < next
  <2>1. state[s] # "undispatched" /\ state[s] \notin {"collected", "skipped"}
    BY <1>2
  <2>2. s \notin Collected /\ ~ (Turn[s] >= next)
    BY <2>1 DEF RInv, ShardsAreTracked
  <2> QED BY <1>1, <2>2
<1>4. Moves(s, "debating")
  <2>1. "debating" \in {"queued", "debating", "adding", "returned"}
    OBVIOUS
  <2>2. Turn[s] < next /\ next' = next
    BY <1>2, <1>3
  <2>3. \A t \in Shards : t # s => result'[t] = result[t]
    BY <1>2
  <2>4. UNCHANGED <<outcomes, review>> /\ state' = [state EXCEPT ![s] = "debating"]
    BY <1>2
  <2> QED BY <2>1, <2>2, <2>3, <2>4, Zenon DEF Moves
<1>5. /\ ShardsAreTracked' /\ ReportIsMerged' /\ Collected' = Collected
      /\ state' \in [Shards -> {"undispatched", "queued", "debating", "adding",
                               "returned", "collected", "skipped"}]
      /\ next' \in 1 .. NumShards + 1
  BY <1>3, <1>4, MovingShardsAreTracked
<1>6. ReviewTypeOK'
  BY <1>1, <1>2, <1>5, TypesStay
<1>7. CountersAreBehind' /\ OneAtATime'
  BY <1>2 DEF RInv, CountersAreBehind, OneAtATime
<1> QED BY <1>5, <1>6, <1>7 DEF RInv

(* A worker reads the counter.                                             *)
LEMMA ReadUsageKeeps ==
  ASSUME RInv, NEW s \in Shards, ReadUsage(s)
  PROVE  RInv'
<1>1. /\ next \in Nat /\ NumShards \in Nat
      /\ tokens \in Nat /\ calls \in Nat /\ reportedUsages \in Nat /\ late \in BOOLEAN
      /\ read \in [Shards -> Nat] /\ result \in [Shards -> DebateResults \cup {NoResult}]
      /\ \A t \in Shards : Turn[t] \in Nat
  BY NumbersOfReview DEF RInv, ResultsTyped
<1>2. /\ UNCHANGED <<workers, late, next, result, outcomes, review, tokens, calls>>
      /\ state[s] = "debating" /\ state' = [state EXCEPT ![s] = "adding"]
      /\ read' = [read EXCEPT ![s] = tokens + 1] /\ reportedUsages' = reportedUsages + 1
  BY DEF ReadUsage
<1>3. s \notin Collected /\ Turn[s] < next
  BY <1>1, <1>2 DEF RInv, ShardsAreTracked
<1>4. Moves(s, "adding")
  BY <1>2, <1>3 DEF Moves
<1>5. /\ ShardsAreTracked' /\ ReportIsMerged' /\ Collected' = Collected
      /\ state' \in [Shards -> {"undispatched", "queued", "debating", "adding",
                               "returned", "collected", "skipped"}]
      /\ state'[s] = "adding" /\ \A t \in Shards : t # s => state'[t] = state[t]
      /\ next' \in 1 .. NumShards + 1
  BY <1>3, <1>4, MovingShardsAreTracked
<1>6. reportedUsages' \in Nat /\ read' \in [Shards -> Nat]
  BY <1>1, <1>2
<1>7. ReviewTypeOK'
  BY <1>1, <1>2, <1>5, <1>6, TypesStay
<1>8. CountersAreBehind'
  <2>1. tokens <= reportedUsages /\ \A t \in Shards : read[t] <= reportedUsages
    BY DEF RInv, CountersAreBehind
  <2>2. read'[s] = tokens + 1 /\ \A t \in Shards : t # s => read'[t] = read[t]
    BY <1>1, <1>2
  <2>3. \A t \in Shards : read[t] \in Nat
    BY <1>1
  <2>4. \A t \in Shards : read'[t] <= reportedUsages'
    BY <1>1, <1>2, <2>1, <2>2, <2>3
  <2>5. tokens' <= reportedUsages'
    BY <1>1, <1>2, <2>1
  <2> QED BY <2>4, <2>5 DEF CountersAreBehind
<1>9. OneAtATime'
  <2> SUFFICES ASSUME workers = 1 PROVE OneAtATime'
    BY <1>2 DEF OneAtATime
  <2>1. \A t \in Shards : state[t] # "adding"
    BY <1>2, OneRunning
  <2>2. tokens = reportedUsages /\ \A t \in Shards : state[t] # "queued" /\ (Turn[t] < next - 1 => t \in Collected)
    BY <2>1 DEF RInv, OneAtATime
  <2>3. read'[s] = reportedUsages' /\ reportedUsages' = tokens' + 1
    BY <1>1, <1>2, <2>2
  <2>4. \A t \in Shards : state'[t] = "adding" => t = s
    BY <1>5, <2>1
  <2> QED BY <1>2, <1>5, <2>2, <2>3, <2>4 DEF OneAtATime
<1> QED BY <1>5, <1>7, <1>8, <1>9 DEF RInv

(* A worker writes the counter it read, and its own use.                   *)
LEMMA AddUsageKeeps ==
  ASSUME RInv, NEW s \in Shards, AddUsage(s)
  PROVE  RInv'
<1>1. /\ next \in Nat /\ NumShards \in Nat
      /\ tokens \in Nat /\ calls \in Nat /\ reportedUsages \in Nat /\ late \in BOOLEAN
      /\ read \in [Shards -> Nat] /\ result \in [Shards -> DebateResults \cup {NoResult}]
      /\ \A t \in Shards : Turn[t] \in Nat
  BY NumbersOfReview DEF RInv, ResultsTyped
<1>2. /\ UNCHANGED <<workers, late, next, result, outcomes, review, read, reportedUsages>>
      /\ state[s] = "adding" /\ state' = [state EXCEPT ![s] = "debating"]
      /\ tokens' = read[s] /\ calls' = calls + 1
  BY DEF AddUsage
<1>3. s \notin Collected /\ Turn[s] < next
  BY <1>1, <1>2 DEF RInv, ShardsAreTracked
<1>4. Moves(s, "debating")
  BY <1>2, <1>3 DEF Moves
<1>5. /\ ShardsAreTracked' /\ ReportIsMerged' /\ Collected' = Collected
      /\ state' \in [Shards -> {"undispatched", "queued", "debating", "adding",
                               "returned", "collected", "skipped"}]
      /\ state'[s] = "debating" /\ \A t \in Shards : t # s => state'[t] = state[t]
      /\ next' \in 1 .. NumShards + 1
  BY <1>3, <1>4, MovingShardsAreTracked
<1>6. tokens' \in Nat /\ calls' \in Nat
  BY <1>1, <1>2
<1>7. ReviewTypeOK'
  BY <1>1, <1>2, <1>5, <1>6, TypesStay
<1>8. CountersAreBehind'
  BY <1>2 DEF RInv, CountersAreBehind
<1>9. OneAtATime'
  <2> SUFFICES ASSUME workers = 1 PROVE OneAtATime'
    BY <1>2 DEF OneAtATime
  <2>1. \A t \in Shards : t # s => state[t] # "adding"
    BY <1>2, OneRunning
  <2>2. tokens' = reportedUsages' /\ \A t \in Shards : state[t] # "queued" /\ (Turn[t] < next - 1 => t \in Collected)
    BY <1>2 DEF RInv, OneAtATime
  <2> QED BY <1>2, <1>5, <2>1, <2>2 DEF OneAtATime
<1> QED BY <1>5, <1>7, <1>8, <1>9 DEF RInv

(* A debate returns or raises.                                             *)
LEMMA ShardReturnsKeeps ==
  ASSUME RInv, NEW s \in Shards, ShardReturns(s)
  PROVE  RInv'
<1>1. /\ next \in Nat /\ NumShards \in Nat
      /\ tokens \in Nat /\ calls \in Nat /\ reportedUsages \in Nat /\ late \in BOOLEAN
      /\ read \in [Shards -> Nat] /\ result \in [Shards -> DebateResults \cup {NoResult}]
      /\ \A t \in Shards : Turn[t] \in Nat
  BY NumbersOfReview DEF RInv, ResultsTyped
<1>2. /\ UNCHANGED <<workers, late, next, outcomes, review, tokens, calls, read, reportedUsages>>
      /\ state[s] = "debating" /\ state' = [state EXCEPT ![s] = "returned"]
  BY DEF ShardReturns, usageVars
<1>3. PICK r \in DebateResults \cup {NoResult} : result' = [result EXCEPT ![s] = r]
  BY DEF ShardReturns
<1>4. s \notin Collected /\ Turn[s] < next
  BY <1>1, <1>2 DEF RInv, ShardsAreTracked
<1>5. /\ result' \in [Shards -> DebateResults \cup {NoResult}]
      /\ \A t \in Shards : t # s => result'[t] = result[t]
  BY <1>1, <1>3
<1>6. Moves(s, "returned")
  BY <1>2, <1>4, <1>5 DEF Moves
<1>7. /\ ShardsAreTracked' /\ ReportIsMerged' /\ Collected' = Collected
      /\ state' \in [Shards -> {"undispatched", "queued", "debating", "adding",
                               "returned", "collected", "skipped"}]
      /\ state'[s] = "returned" /\ \A t \in Shards : t # s => state'[t] = state[t]
      /\ next' \in 1 .. NumShards + 1
  BY <1>4, <1>6, MovingShardsAreTracked
<1>8. ReviewTypeOK'
  BY <1>1, <1>2, <1>5, <1>7, TypesStay
<1>9. CountersAreBehind'
  BY <1>2 DEF RInv, CountersAreBehind
<1>10. OneAtATime'
  <2>1. \A t \in Shards : state'[t] = "adding" <=> state[t] = "adding"
    BY <1>2, <1>7
  <2>2. \A t \in Shards : state[t] # "queued" => state'[t] # "queued"
    BY <1>2, <1>7
  <2> QED BY <1>2, <1>7, <2>1, <2>2 DEF RInv, OneAtATime
<1> QED BY <1>7, <1>8, <1>9, <1>10 DEF RInv

(* A shard gets its outcome.                                               *)
LEMMA SettledShardsAreTracked ==
  ASSUME RInv, NEW s \in Shards, s \notin Collected,
         NEW st \in {"completed", "error", "skipped_budget"},
         outcomes' = Append(outcomes, Outcome(s, st)),
         st = "completed" => result[s] # NoResult,
         NEW to \in {"collected", "skipped"}, state' = [state EXCEPT ![s] = to],
         (Turn[s] < next /\ next' = next) \/ (Turn[s] = next /\ next' = next + 1),
         UNCHANGED <<result, review>>
  PROVE  /\ ShardsAreTracked' /\ ReportIsMerged' /\ Collected' = Collected \cup {s}
         /\ state' \in [Shards -> {"undispatched", "queued", "debating", "adding",
                                  "returned", "collected", "skipped"}]
         /\ state'[s] = to /\ \A t \in Shards : t # s => state'[t] = state[t]
         /\ next' \in 1 .. NumShards + 1
         /\ \A i \in DOMAIN outcomes' :
              outcomes'[i] \in [shard : Shards, status : {"completed", "error", "skipped_budget"}]
<1>1. /\ next \in Nat /\ NumShards \in Nat /\ next \in 1 .. NumShards + 1
      /\ \A t \in Shards : Turn[t] \in Nat /\ Turn[t] <= NumShards /\ (Turn[t] = Turn[s] => t = s)
      /\ state \in [Shards -> {"undispatched", "queued", "debating", "adding",
                               "returned", "collected", "skipped"}]
  BY NumbersOfReview DEF RInv
<1>2. /\ state' \in [Shards -> {"undispatched", "queued", "debating", "adding",
                                "returned", "collected", "skipped"}]
      /\ state'[s] = to /\ \A t \in Shards : t # s => state'[t] = state[t]
      /\ to # "undispatched"
  BY <1>1
<1>3. /\ outcomes' \in Seq(OutcomeRecord) /\ Len(outcomes') = Len(outcomes) + 1
      /\ Len(outcomes) \in Nat
      /\ \A i \in 1 .. Len(outcomes) : outcomes'[i] = outcomes[i]
      /\ outcomes'[Len(outcomes) + 1] = Outcome(s, st)
      /\ Collected' = Collected \cup {s}
      /\ \A i, j \in 1 .. Len(outcomes') : outcomes'[i].shard = outcomes'[j].shard => i = j
      /\ \A i \in DOMAIN outcomes' :
           outcomes'[i] \in [shard : Shards, status : {"completed", "error", "skipped_budget"}]
  BY OutcomeAppended
<1>4. next' \in 1 .. NumShards + 1 /\ \A t \in Shards : t # s => (Turn[t] >= next' <=> Turn[t] >= next)
  BY <1>1
<1>5. ~ (Turn[s] >= next')
  BY <1>1
<1>6. /\ \A t \in Shards : state[t] = "undispatched" <=> Turn[t] >= next
      /\ \A t \in Shards : t \in Collected <=> state[t] \in {"collected", "skipped"}
      /\ \A i \in 1 .. Len(outcomes) :
           outcomes[i].status = "completed" => result[outcomes[i].shard] # NoResult
  BY DEF RInv, ShardsAreTracked
<1>7. \A t \in Shards : state'[t] = "undispatched" <=> Turn[t] >= next'
  BY <1>2, <1>4, <1>5, <1>6
<1>8. \A t \in Shards : t \in Collected' <=> state'[t] \in {"collected", "skipped"}
  BY <1>2, <1>3, <1>6
<1>9. \A i \in 1 .. Len(outcomes') :
        outcomes'[i].status = "completed" => result'[outcomes'[i].shard] # NoResult
  <2>1. \A i \in 1 .. Len(outcomes') : i \in 1 .. Len(outcomes) \/ i = Len(outcomes) + 1
    BY <1>3
  <2>2. Outcome(s, st).status = st /\ Outcome(s, st).shard = s
    BY DEF Outcome
  <2> QED BY <1>3, <1>6, <2>1, <2>2
<1>10. ShardsAreTracked'
  BY <1>3, <1>7, <1>8, <1>9 DEF ShardsAreTracked
<1>11. ReportIsMerged'
  BY NotYetReported DEF ReportIsMerged, Reported
<1> QED BY <1>2, <1>3, <1>4, <1>10, <1>11

(* The deadline has passed: a shard is not handed out.                     *)
LEMMA SkipKeeps ==
  ASSUME RInv, NEW s \in Shards, Skip(s)
  PROVE  RInv'
<1>1. /\ Turn[s] = next /\ next \in Nat
      /\ \A t \in Shards : Turn[t] \in Nat
  BY NumbersOfReview DEF RInv, Skip, IsNext
<1>2. /\ UNCHANGED <<workers, late, result, review, tokens, calls, read, reportedUsages>>
      /\ next' = next + 1 /\ state' = [state EXCEPT ![s] = "skipped"]
      /\ outcomes' = Append(outcomes, Outcome(s, "skipped_budget"))
      /\ workers = 1 => Collected = {t \in Shards : Turn[t] < next}
  BY DEF Skip, IsNext, usageVars
<1>3. s \notin Collected
  BY <1>1 DEF RInv, ShardsAreTracked
<1>4. /\ ShardsAreTracked' /\ ReportIsMerged' /\ Collected' = Collected \cup {s}
      /\ state' \in [Shards -> {"undispatched", "queued", "debating", "adding",
                               "returned", "collected", "skipped"}]
      /\ state'[s] = "skipped" /\ \A t \in Shards : t # s => state'[t] = state[t]
      /\ next' \in 1 .. NumShards + 1
      /\ \A i \in DOMAIN outcomes' :
           outcomes'[i] \in [shard : Shards, status : {"completed", "error", "skipped_budget"}]
  BY <1>1, <1>2, <1>3, SettledShardsAreTracked
<1>5. ReviewTypeOK'
  BY <1>2, <1>4 DEF RInv, ReviewTypeOK
<1>6. CountersAreBehind'
  BY <1>2 DEF RInv, CountersAreBehind
<1>7. OneAtATime'
  <2> SUFFICES ASSUME workers = 1 PROVE OneAtATime'
    BY <1>2 DEF OneAtATime
  <2>1. \A t \in Shards : state'[t] # "queued" /\ (Turn[t] < next' - 1 => t \in Collected')
    BY <1>1, <1>2, <1>4 DEF RInv, OneAtATime
  <2>2. state[s] = "undispatched"
    BY <1>1 DEF RInv, ShardsAreTracked
  <2>3. \A t \in Shards : state'[t] = "adding" <=> state[t] = "adding"
    BY <1>4, <2>2
  <2> QED BY <1>2, <2>1, <2>3 DEF RInv, OneAtATime
<1> QED BY <1>4, <1>5, <1>6, <1>7 DEF RInv

(* The caller collects a shard that returned.                              *)
LEMMA CollectKeeps ==
  ASSUME RInv, NEW s \in Shards, Collect(s)
  PROVE  RInv'
<1>1. next \in Nat /\ \A t \in Shards : Turn[t] \in Nat
  BY NumbersOfReview DEF RInv
<1> DEFINE st == IF result[s] = NoResult THEN "error" ELSE "completed"
<1>2. /\ UNCHANGED <<workers, late, next, result, review, tokens, calls, read, reportedUsages>>
      /\ state[s] = "returned" /\ state' = [state EXCEPT ![s] = "collected"]
      /\ outcomes' = Append(outcomes, Outcome(s, st))
  BY DEF Collect, usageVars
<1>3. st \in {"completed", "error", "skipped_budget"} /\ (st = "completed" => result[s] # NoResult)
  OBVIOUS
<1> HIDE DEF st
<1>4. s \notin Collected /\ Turn[s] < next
  <2>1. state[s] # "undispatched" /\ state[s] \notin {"collected", "skipped"}
    BY <1>2
  <2>2. s \notin Collected /\ ~ (Turn[s] >= next)
    BY <2>1 DEF RInv, ShardsAreTracked
  <2> QED BY <1>1, <2>2
<1>5. /\ ShardsAreTracked' /\ ReportIsMerged' /\ Collected' = Collected \cup {s}
      /\ state' \in [Shards -> {"undispatched", "queued", "debating", "adding",
                               "returned", "collected", "skipped"}]
      /\ state'[s] = "collected" /\ \A t \in Shards : t # s => state'[t] = state[t]
      /\ next' \in 1 .. NumShards + 1
      /\ \A i \in DOMAIN outcomes' :
           outcomes'[i] \in [shard : Shards, status : {"completed", "error", "skipped_budget"}]
  BY <1>2, <1>3, <1>4, SettledShardsAreTracked
<1>6. ReviewTypeOK'
  BY <1>2, <1>5 DEF RInv, ReviewTypeOK
<1>7. CountersAreBehind'
  BY <1>2 DEF RInv, CountersAreBehind
<1>8. OneAtATime'
  <2>1. \A t \in Shards : state'[t] = "adding" <=> state[t] = "adding"
    BY <1>2, <1>5
  <2>2. \A t \in Shards : state[t] # "queued" => state'[t] # "queued"
    BY <1>2, <1>5
  <2> QED BY <1>2, <1>5, <2>1, <2>2 DEF RInv, OneAtATime
<1> QED BY <1>5, <1>6, <1>7, <1>8 DEF RInv

(* The report depends on outcomes and results only.                        *)
LEMMA MergeStays ==
  ASSUME UNCHANGED <<outcomes, result>>
  PROVE  Collected' = Collected /\ MergedReport' = MergedReport
BY DEF Collected, MergedReport, ReviewStatus, MergedFindings, Hypotheses, Consensus, Ordered,
   WithFindingsOf, Tagged

(* The report is merged when every shard is accounted for.                 *)
LEMMA ReportKeeps ==
  ASSUME RInv, Report
  PROVE  RInv'
<1>1. /\ UNCHANGED <<workers, late, next, state, result, outcomes, tokens, calls, read, reportedUsages>>
      /\ Collected = Shards /\ review' = MergedReport
  BY DEF Report, usageVars
<1>2. ResultsTyped
  BY NumbersOfReview DEF RInv
<1>3. Collected' = Collected /\ MergedReport' = MergedReport
  BY <1>1, MergeStays
<1>4. review'.status \in {"none", "completed", "partial"} /\ review'.findings \subseteq TaggedFinding
  BY <1>1, <1>2, MergeLoop DEF MergedReport, ReviewStatus
<1>5. ReviewTypeOK'
  BY <1>1, <1>4 DEF RInv, ReviewTypeOK
<1>6. ShardsAreTracked' /\ CountersAreBehind' /\ OneAtATime'
  BY <1>1, <1>3 DEF RInv, ShardsAreTracked, CountersAreBehind, OneAtATime
<1>7. ReportIsMerged'
  BY <1>1, <1>3 DEF ReportIsMerged
<1> QED BY <1>5, <1>6, <1>7 DEF RInv

(* Time passes.                                                            *)
LEMMA TimePassingKeeps ==
  ASSUME RInv, DeadlinePasses \/ UNCHANGED reviewVars
  PROVE  RInv'
<1>1. /\ UNCHANGED <<workers, next, state, result, outcomes, review, tokens, calls, read, reportedUsages>>
      /\ late' \in BOOLEAN
  BY DEF DeadlinePasses, reviewVars, usageVars, RInv, ReviewTypeOK
<1>2. Collected' = Collected /\ MergedReport' = MergedReport
  BY <1>1, MergeStays
<1>3. ReviewTypeOK'
  BY <1>1 DEF RInv, ReviewTypeOK
<1>4. ShardsAreTracked' /\ CountersAreBehind' /\ OneAtATime' /\ ReportIsMerged'
  BY <1>1, <1>2 DEF RInv, ShardsAreTracked, CountersAreBehind, OneAtATime, ReportIsMerged, Reported
<1> QED BY <1>3, <1>4 DEF RInv

(* RInv is an invariant of the sharded review.                             *)
LEMMA ReviewInvariant == ReviewSpec => []RInv
<1>1. ReviewInit => RInv
  BY ReviewInitEstablishes
<1>2. RInv /\ [ReviewNext]_reviewVars => RInv'
  <2> SUFFICES ASSUME RInv, [ReviewNext]_reviewVars PROVE RInv'
    OBVIOUS
  <2>1. CASE DeadlinePasses \/ UNCHANGED reviewVars
    BY <2>1, TimePassingKeeps
  <2>2. CASE Caller
    BY <2>2, SkipKeeps, DispatchKeeps, CollectKeeps, ReportKeeps DEF Caller
  <2>3. ASSUME NEW s \in Shards, Work(s) PROVE RInv'
    BY <2>3, TakeKeeps, ReadUsageKeeps, AddUsageKeeps, ShardReturnsKeeps DEF Work
  <2> QED BY <2>1, <2>2, <2>3 DEF ReviewNext
<1> QED BY <1>1, <1>2, PTL DEF ReviewSpec

-----------------------------------------------------------------------------
(* What the invariant means for the report.                                *)
LEMMA OneOutcomeEach ==
  ASSUME RInv
  PROVE  OneOutcomePerShard
<1> SUFFICES ASSUME Reported PROVE Collected = Shards /\ Len(outcomes) = NumShards
  BY DEF OneOutcomePerShard
<1> DEFINE n == Len(outcomes)
           shardOf == [i \in 1 .. n |-> outcomes[i].shard]
<1>1. Collected = Shards
  BY DEF RInv, ReportIsMerged
<1>2. n \in Nat /\ DOMAIN outcomes = 1 .. n
  BY DEF RInv, ShardsAreTracked
<1>3. \A i, j \in 1 .. n : outcomes[i].shard = outcomes[j].shard => i = j
  BY DEF RInv, ShardsAreTracked
<1>4. shardOf \in Bijection(1 .. n, Shards)
  <2>1. \A s \in Shards : \E i \in 1 .. n : shardOf[i] = s
    BY <1>1, <1>2 DEF Collected
  <2>2. \A i \in 1 .. n : shardOf[i] \in Shards
    BY <1>1, <1>2 DEF Collected
  <2>3. \A i, j \in 1 .. n : shardOf[i] = shardOf[j] => i = j
    BY <1>3
  <2>4. shardOf \in [1 .. n -> Shards]
    BY <2>2
  <2> HIDE DEF shardOf
  <2>5. shardOf \in Injection(1 .. n, Shards) /\ shardOf \in Surjection(1 .. n, Shards)
    BY <2>1, <2>3, <2>4 DEF Injection, IsInjective, Surjection
  <2> QED BY <2>5 DEF Bijection
<1> HIDE DEF n, shardOf
<1>5. IsFiniteSet(1 .. n) /\ Cardinality(1 .. n) = n
  BY <1>2, FS_Interval
<1>6. Cardinality(Shards) = n
  BY <1>4, <1>5, FS_Bijection DEF ExistsBijection
<1>7. Cardinality(Shards) = NumShards
  BY ShardedReviewAssumption, FS_Interval DEF Shards
<1> QED BY <1>1, <1>6, <1>7 DEF n

(* A shard that gave no review shows in status and consensus.              *)
LEMMA EveryLossShows ==
  ASSUME RInv
  PROVE  LossesShow
<1> SUFFICES ASSUME Reported
             PROVE  /\ (\E i \in DOMAIN outcomes : outcomes[i].status # "completed") =>
                         review.status = "partial" /\ ~review.consensus
                    /\ review.consensus => \A s \in Shards : result[s].status = "complete"
  BY DEF LossesShow
<1>1. /\ Collected = Shards /\ review.status = ReviewStatus
      /\ review.consensus = (Consensus /\ ReviewStatus = "completed")
  BY DEF RInv, ReportIsMerged, MergedReport
<1>2. (\E i \in DOMAIN outcomes : outcomes[i].status # "completed") => ReviewStatus = "partial"
  BY DEF ReviewStatus
<1>3. ASSUME Consensus, ReviewStatus = "completed", NEW s \in Shards
      PROVE  result[s].status = "complete"
  <2>1. \A i \in DOMAIN outcomes : outcomes[i].status = "completed"
    BY <1>3 DEF ReviewStatus
  <2>2. PICK i \in DOMAIN outcomes : outcomes[i].shard = s
    BY <1>1 DEF Collected
  <2> QED BY <1>3, <2>1, <2>2 DEF Consensus
<1> QED BY <1>1, <1>2, <1>3

(* With one worker no use is lost.                                         *)
LEMMA UsageIsCounted ==
  ASSUME RInv
  PROVE  UsageNeedsAnOverlap
<1>1. ASSUME workers = 1, Reported PROVE tokens = reportedUsages
  <2>1. \A s \in Shards : state[s] \in {"collected", "skipped"}
    BY <1>1 DEF RInv, ReportIsMerged, ShardsAreTracked
  <2>2. \A s \in Shards : state[s] # "adding"
    BY <2>1
  <2> QED BY <1>1, <2>2 DEF RInv, OneAtATime
<1> QED BY <1>1 DEF RInv, CountersAreBehind, UsageNeedsAnOverlap

(* Every planned shard has one outcome, the merged report shows every      *)
(* loss, and only threads that overlap lose usage (runner.py:39-63,        *)
(* merge.py:70-112, trials.py:31-42).                                      *)
THEOREM NothingIsEverHidden == ReviewSpec => []NothingIsHidden
<1>1. RInv => NothingIsHidden
  BY OneOutcomeEach, EveryLossShows, UsageIsCounted DEF NothingIsHidden, RInv
<1> QED BY <1>1, ReviewInvariant, PTL

(* The report is a function of what the debates returned, whatever order   *)
(* the threads finish in (merge.py:61-101).                                *)
THEOREM ReportIsAlwaysDeterministic == ReviewSpec => []ReportIsDeterministic
<1>1. RInv => ReportIsDeterministic
  <2> SUFFICES ASSUME RInv, Reported
               PROVE  /\ review.hypotheses = Cardinality({s \in Shards : result[s].status = "partial"})
                      /\ review.findings = {f \in Found : \A g \in Found : g.key = f.key => Beats(f, g)}
    BY DEF ReportIsDeterministic
  <2>1. ResultsTyped /\ Collected = Shards
    BY NumbersOfReview DEF RInv, ReportIsMerged
  <2>2. review.hypotheses = Hypotheses /\ review.findings = MergedFindings
    BY DEF RInv, ReportIsMerged, MergedReport
  <2>3. Found \in SUBSET TaggedFinding
    BY <2>1, SeenShardByShard DEF SeenBy
  <2>4. MergedFindings = {f \in Found : \A g \in Found : g.key = f.key => Beats(f, g)}
    BY <2>1, <2>3, MergeLoop, SummaryIsStrongest
  <2> QED BY <2>1, <2>2, <2>4, HypothesesLoop
<1> QED BY <1>1, ReviewInvariant, PTL

-----------------------------------------------------------------------------
(* Division rounds downwards.                                              *)
LEMMA DivisionFacts ==
  ASSUME NEW a \in Nat, NEW m \in Nat \ {0}
  PROVE  a \div m \in Nat /\ (a \div m) * m <= a /\ a < (a \div m) * m + m
OBVIOUS

(* The quotient is the only number it can be.                              *)
LEMMA DivisionIsUnique ==
  ASSUME NEW a \in Nat, NEW m \in Nat \ {0}, NEW k \in Nat, k * m <= a, a < k * m + m
  PROVE  a \div m = k
<1> DEFINE q == a \div m
<1>1. q \in Nat /\ q * m <= a /\ a < q * m + m
  BY DivisionFacts
<1> HIDE DEF q
<1>2. ASSUME k + 1 <= q PROVE FALSE
  <2>1. PICK d \in Nat : q = k + 1 + d
    <3>1. q - (k + 1) \in Nat
      BY <1>1, <1>2
    <3> QED BY <1>1, <3>1
  <2>2. q * m = k * m + m + d * m /\ d * m \in Nat /\ k * m \in Nat
    BY <2>1
  <2> QED BY <1>1, <2>2
<1>3. ASSUME q + 1 <= k PROVE FALSE
  <2>1. PICK d \in Nat : k = q + 1 + d
    <3>1. k - (q + 1) \in Nat
      BY <1>1, <1>3
    <3> QED BY <1>1, <3>1
  <2>2. k * m = q * m + m + d * m /\ d * m \in Nat /\ q * m \in Nat
    BY <1>1, <2>1
  <2> QED BY <1>1, <2>2
<1>4. q = k
  BY <1>1, <1>2, <1>3
<1> QED BY <1>4 DEF q

(* n files in chunks of m: every chunk but the last is full, none is empty,*)
(* and every position is in one.                                           *)
LEMMA ChunksOfPositions ==
  ASSUME NEW n \in Nat \ {0}, NEW m \in Nat \ {0}, NEW c, c = (n + m - 1) \div m
  PROVE  /\ c \in Nat \ {0}
         /\ \A k \in 0 .. c - 1 : k * m \in 0 .. n - 1
         /\ \A a \in 0 .. n - 1 : a \div m \in 0 .. c - 1
<1>1. n + m - 1 \in Nat
  OBVIOUS
<1>2. c \in Nat /\ c * m <= n + m - 1 /\ n + m - 1 < c * m + m
  BY <1>1, DivisionFacts
<1>3. c # 0
  BY <1>2
<1>4. ASSUME NEW k \in 0 .. c - 1
      PROVE  k * m \in 0 .. n - 1
  <2>1. PICK d \in Nat : c = k + 1 + d
    <3>1. c \in Nat /\ k \in Nat /\ c - (k + 1) \in Nat
      BY <1>2
    <3>2. c = k + 1 + (c - (k + 1))
      BY <3>1
    <3> QED BY <3>1, <3>2
  <2>2. k \in Nat /\ c * m = k * m + m + d * m /\ d * m \in Nat /\ k * m \in Nat
    BY <2>1
  <2> QED BY <1>2, <2>2
<1>5. ASSUME NEW a \in 0 .. n - 1
      PROVE  a \div m \in 0 .. c - 1
  <2> DEFINE q == a \div m
  <2>1. a \in Nat /\ q \in Nat /\ q * m <= a /\ a < q * m + m
    BY DivisionFacts
  <2> HIDE DEF q
  <2>2. ASSUME c <= q PROVE FALSE
    <3>1. PICK d \in Nat : q = c + d
      <4>1. q - c \in Nat
        BY <1>2, <2>1, <2>2
      <4> QED BY <1>2, <2>1, <4>1
    <3>2. q * m = c * m + d * m /\ d * m \in Nat /\ c * m \in Nat
      BY <1>2, <3>1
    <3> QED BY <1>2, <2>1, <3>2
  <2>3. q \in 0 .. c - 1
    BY <1>2, <2>1, <2>2
  <2> QED BY <2>3 DEF q
<1> QED BY <1>2, <1>3, <1>4, <1>5

-----------------------------------------------------------------------------
(* The positions of n files are 0 .. n - 1, one each.                      *)
LEMMA PositionsAreRanks ==
  ASSUME NEW files \in SUBSET Nat, IsFiniteSet(files)
  PROVE  /\ Cardinality(files) \in Nat
         /\ \A f \in files : Position(f, files) \in 0 .. Cardinality(files) - 1
         /\ \A i \in 0 .. Cardinality(files) - 1 : \E f \in files : Position(f, files) = i
         /\ \A f, g \in files : Position(f, files) = Position(g, files) => f = g
<1>1. Cardinality(files) \in Nat
  BY FS_CardinalityType
<1>2. \A f : Position(f, files) = Cardinality(Before(files, f))
  BY DEF Position, Before
<1>3. ASSUME NEW f \in files
      PROVE  Position(f, files) \in 0 .. Cardinality(files) - 1
  <2>1. PICK i \in 1 .. Cardinality(files) : Nth(files, i) = f
    BY NthIsOnto
  <2>2. Cardinality(Before(files, f)) = i - 1
    BY <2>1, NthIsElement
  <2> QED BY <1>1, <1>2, <2>2
<1>4. ASSUME NEW i \in 0 .. Cardinality(files) - 1
      PROVE  \E f \in files : Position(f, files) = i
  <2>1. i + 1 \in 1 .. Cardinality(files) /\ (i + 1) - 1 = i
    BY <1>1
  <2>2. Nth(files, i + 1) \in files /\ Cardinality(Before(files, Nth(files, i + 1))) = (i + 1) - 1
    BY <2>1, NthIsElement
  <2> QED BY <1>2, <2>1, <2>2
<1>5. ASSUME NEW f \in files, NEW g \in files, Position(f, files) = Position(g, files)
      PROVE  f = g
  <2>1. f \in Nat /\ g \in Nat
    OBVIOUS
  <2>2. ~ (f < g) /\ ~ (g < f)
    BY <1>2, <1>5, <2>1, BeforeIsMonotone
  <2> QED BY <2>1, <2>2
<1> QED BY <1>1, <1>3, <1>4, <1>5

(* The chunks of a group hold each of its files once, and are neither      *)
(* empty nor too large.                                                    *)
LEMMA ChunksPartitionGroup ==
  ASSUME maxFiles \in Nat \ {0}, NEW files \in SUBSET Nat, IsFiniteSet(files), files # {}
  PROVE  /\ Chunks(files) \in Nat \ {0}
         /\ \A k : ChunkOf(files, k) \in SUBSET files
         /\ \A f \in files : \E k \in 0 .. Chunks(files) - 1 : f \in ChunkOf(files, k)
         /\ \A k, l : k # l => ChunkOf(files, k) \cap ChunkOf(files, l) = {}
         /\ \A k \in 0 .. Chunks(files) - 1 : Cardinality(ChunkOf(files, k)) \in 1 .. maxFiles
<1> DEFINE n == Cardinality(files)
           m == maxFiles
           c == Chunks(files)
<1>1. n \in Nat \ {0} /\ m \in Nat \ {0}
  BY FS_CardinalityType, FS_EmptySet
<1>2. c = (n + m - 1) \div m
  BY DEF Chunks
<1>3. /\ \A f \in files : Position(f, files) \in 0 .. n - 1
      /\ \A i \in 0 .. n - 1 : \E f \in files : Position(f, files) = i
      /\ \A f, g \in files : Position(f, files) = Position(g, files) => f = g
  BY PositionsAreRanks
<1>4. \A k, f : f \in ChunkOf(files, k) <=> f \in files /\ Position(f, files) \div m = k
  BY DEF ChunkOf
<1> HIDE DEF n, m, c
<1>5. /\ c \in Nat \ {0}
      /\ \A k \in 0 .. c - 1 : k * m \in 0 .. n - 1
      /\ \A a \in 0 .. n - 1 : a \div m \in 0 .. c - 1
  BY <1>1, <1>2, ChunksOfPositions
<1>6. \A f \in files : Position(f, files) \div m \in 0 .. c - 1
  BY <1>3, <1>5
<1>7. ASSUME NEW k \in 0 .. c - 1
      PROVE  Cardinality(ChunkOf(files, k)) \in 1 .. m
  <2> DEFINE C == ChunkOf(files, k)
             a == k * m
             T == a .. a + m - 1
             place == [f \in C |-> Position(f, files)]
  <2>1. C \in SUBSET files /\ IsFiniteSet(C) /\ Cardinality(C) \in Nat
    BY <1>4, FS_Subset, FS_CardinalityType
  <2>2. a \in Nat /\ a \in 0 .. n - 1 /\ a \div m = k
    <3>1. a \in 0 .. n - 1 /\ a \in Nat /\ k \in Nat
      BY <1>1, <1>5
    <3>2. k * m <= a /\ a < k * m + m
      BY <1>1, <3>1
    <3> HIDE DEF a
    <3> QED BY <1>1, <3>1, <3>2, DivisionIsUnique
  <2>3. C # {}
    BY <1>3, <1>4, <2>2
  <2>4. ASSUME NEW f \in C PROVE place[f] \in T
    <3>1. Position(f, files) \in Nat /\ Position(f, files) \div m = k /\ place[f] = Position(f, files)
      <4>1. f \in files /\ Position(f, files) \div m = k
        BY <1>4
      <4>2. Position(f, files) \in 0 .. n - 1
        BY <1>3, <4>1
      <4>3. place[f] = Position(f, files)
        OBVIOUS
      <4> QED BY <1>1, <4>1, <4>2, <4>3
    <3>2. k * m <= Position(f, files) /\ Position(f, files) < k * m + m
      BY <1>1, <3>1, DivisionFacts
    <3> QED BY <1>1, <2>2, <3>1, <3>2
  <2>5. \A f, g \in C : place[f] = place[g] => f = g
    BY <1>3, <1>4
  <2>6. IsFiniteSet(T) /\ Cardinality(T) = m
    <3> HIDE DEF a
    <3>1. a \in Int /\ a + m - 1 \in Int /\ a <= a + m - 1
      BY <1>1, <2>2
    <3>2. IsFiniteSet(T) /\ Cardinality(T) = (a + m - 1) - a + 1
      BY <3>1, FS_Interval
    <3> QED BY <1>1, <2>2, <3>2
  <2>7. place \in Injection(C, T)
    BY <2>4, <2>5 DEF Injection, IsInjective
  <2> HIDE DEF C, T, place
  <2>8. Cardinality(C) <= Cardinality(T)
    BY <2>6, <2>7, FS_Injection
  <2>9. Cardinality(C) # 0
    BY <2>1, <2>3, FS_EmptySet
  <2> QED BY <1>1, <2>1, <2>6, <2>8, <2>9 DEF C
<1> QED
  <2>1. \A f \in files : \E k \in 0 .. c - 1 : f \in ChunkOf(files, k)
    BY <1>4, <1>6
  <2>2. \A k, l : k # l => ChunkOf(files, k) \cap ChunkOf(files, l) = {}
    BY <1>4
  <2>3. \A k : ChunkOf(files, k) \in SUBSET files
    BY <1>4
  <2> QED BY <1>5, <1>7, <2>1, <2>2, <2>3 DEF c, m

-----------------------------------------------------------------------------
(* While the loop runs nothing is emitted; then the shards are the chunks  *)
(* of the groups.                                                          *)
ShardsAreChunks ==
  /\ planning # "done" => shards = {}
  /\ planning = "done" => shards = UNION {ShardsOf(g) : g \in DOMAIN merged}

(* A group other than "misc" is a directory, and once the loop has carried *)
(* a group the directories alone were too many.                            *)
GroupsAreDirectories ==
  /\ \A g \in DOMAIN merged : g # Misc => \A f \in merged[g] : dirOf[f] = g
  /\ \/ merged = Grouped(dirOf, Normalized)
     \/ ChunksOf(Grouped(dirOf, Normalized)) > shardCap

PInv == PlanTypeOK /\ GroupsPartitionFiles /\ ShardsAreChunks /\ GroupsAreDirectories

(* The bounds of a plan, and its groups, are finite.                       *)
LEMMA NumbersOfPlan ==
  ASSUME PlanTypeOK
  PROVE  /\ maxFiles \in Nat \ {0}
         /\ \A g \in DOMAIN merged :
              merged[g] \in SUBSET Nat /\ IsFiniteSet(merged[g]) /\ merged[g] # {}
<1>1. maxFiles \in Nat \ {0} /\ \A g \in DOMAIN merged : merged[g] # {} /\ merged[g] \subseteq Files
  BY ShardPlanAssumption DEF PlanTypeOK
<1>2. Files \subseteq Nat /\ IsFiniteSet(Files)
  BY ShardPlanAssumption
<1>3. \A g \in DOMAIN merged : IsFiniteSet(merged[g])
  BY <1>1, <1>2, FS_Subset
<1> QED BY <1>1, <1>2, <1>3

(* Grouping by directory puts every file in one group.                     *)
LEMMA GroupedFacts ==
  ASSUME NEW kept \in SUBSET Files, NEW dir \in [Files -> Names],
         NEW G, G = Grouped(dir, kept)
  PROVE  /\ DOMAIN G \subseteq Names
         /\ \A g \in DOMAIN G : G[g] # {} /\ G[g] \subseteq Files /\ G[g] = {f \in kept : dir[f] = g}
         /\ UNION {G[g] : g \in DOMAIN G} = kept
         /\ \A g, h \in DOMAIN G : g # h => G[g] \cap G[h] = {}
<1>1. DOMAIN G = {dir[f] : f \in kept} /\ \A g \in DOMAIN G : G[g] = {f \in kept : dir[f] = g}
  BY DEF Grouped
<1>2. \A f \in kept : dir[f] \in DOMAIN G /\ dir[f] \in Names /\ f \in Files
  BY <1>1
<1>3. DOMAIN G \subseteq Names
  BY <1>1, <1>2
<1>4. \A g \in DOMAIN G : G[g] # {} /\ G[g] \subseteq Files
  BY <1>1
<1>5. UNION {G[g] : g \in DOMAIN G} = kept
  <2>1. \A f \in kept : f \in G[dir[f]]
    BY <1>1, <1>2
  <2>2. \A g \in DOMAIN G : G[g] \subseteq kept
    BY <1>1
  <2> QED BY <1>2, <2>1, <2>2
<1>6. \A g, h \in DOMAIN G : g # h => G[g] \cap G[h] = {}
  BY <1>1
<1> QED BY <1>1, <1>3, <1>4, <1>5, <1>6

(* The plan has no group yet.                                              *)
LEMMA PlanStarts == PlanInit => PInv
<1> SUFFICES ASSUME PlanInit PROVE PInv
  OBVIOUS
<1>1. dirOf \in [Files -> Names] /\ vendored \subseteq Files /\ Normalized = {}
  BY ShardPlanAssumption DEF PlanInit, Normalized
<1>2. /\ merged = Grouped(dirOf, Normalized) /\ shards = {} /\ carries = 0 /\ planning = "idle"
      /\ maxFiles \in ChunkSizes /\ shardCap \in Caps
  BY ShardPlanAssumption, Zenon DEF PlanInit
<1>3. DOMAIN merged = {} /\ UNION {merged[g] : g \in DOMAIN merged} = {}
  BY <1>1, <1>2 DEF Grouped
<1>4. PlanTypeOK
  BY <1>1, <1>2, <1>3 DEF PlanTypeOK
<1>5. GroupsPartitionFiles
  BY <1>1, <1>3 DEF GroupsPartitionFiles
<1>6. GroupsAreDirectories
  BY <1>2, <1>3 DEF GroupsAreDirectories
<1> QED BY <1>2, <1>4, <1>5, <1>6 DEF PInv, ShardsAreChunks

(* The files are grouped by directory.                                     *)
LEMMA GroupKeeps == PInv /\ Group => PInv'
<1> SUFFICES ASSUME PInv, Group PROVE PInv'
  OBVIOUS
<1>1. /\ dirOf' \in [Files -> Names] /\ vendored' \subseteq Files /\ planning = "idle"
      /\ planning' = "merging" /\ maxFiles' \in ChunkSizes /\ shardCap' \in Caps
      /\ merged' = Grouped(dirOf', Files \ vendored') /\ carries' = carries /\ shards' = shards
  BY DEF Group
<1>2. shards = {} /\ carries \in {0, 1}
  BY <1>1 DEF PInv, ShardsAreChunks, PlanTypeOK
<1> DEFINE D == DOMAIN merged'
<1>3. /\ D \subseteq Names
      /\ \A g \in D : merged'[g] # {} /\ merged'[g] \subseteq Files
      /\ \A g \in D : \A f \in merged'[g] : dirOf'[f] = g
      /\ UNION {merged'[g] : g \in D} = Files \ vendored'
      /\ \A g, h \in D : g # h => merged'[g] \cap merged'[h] = {}
  <2> DEFINE kept == Files \ vendored'
  <2>1. kept \in SUBSET Files
    OBVIOUS
  <2> HIDE DEF kept
  <2>2. merged' = Grouped(dirOf', kept)
    BY <1>1 DEF kept
  <2>3. /\ D \subseteq Names
        /\ \A g \in D : /\ merged'[g] # {} /\ merged'[g] \subseteq Files
                       /\ merged'[g] = {f \in kept : dirOf'[f] = g}
        /\ UNION {merged'[g] : g \in D} = kept
        /\ \A g, h \in D : g # h => merged'[g] \cap merged'[h] = {}
    BY <1>1, <2>1, <2>2, GroupedFacts
  <2> HIDE DEF D
  <2>4. \A g \in D : \A f \in merged'[g] : dirOf'[f] = g
    BY <2>3
  <2> QED BY <2>3, <2>4 DEF kept
<1>4. PlanTypeOK'
  BY <1>1, <1>2, <1>3 DEF PlanTypeOK
<1>5. GroupsPartitionFiles'
  BY <1>3 DEF GroupsPartitionFiles, Normalized
<1>6. GroupsAreDirectories'
  BY <1>1, <1>3 DEF GroupsAreDirectories, Normalized
<1> QED BY <1>1, <1>2, <1>4, <1>5, <1>6 DEF PInv, ShardsAreChunks

(* A carried group goes to "misc", and the others stay.                    *)
LEMMA CarriedFacts ==
  ASSUME PInv, NEW g \in DOMAIN merged, NEW M, M = Carried(g)
  PROVE  /\ DOMAIN M \subseteq Names
         /\ \A h \in DOMAIN M : M[h] # {} /\ M[h] \subseteq Files
         /\ \A h \in DOMAIN M : h # Misc => h \in DOMAIN merged /\ M[h] = merged[h]
         /\ UNION {M[h] : h \in DOMAIN M} = UNION {merged[h] : h \in DOMAIN merged}
         /\ \A h, i \in DOMAIN M : h # i => M[h] \cap M[i] = {}
<1> DEFINE old == IF Misc \in DOMAIN merged \ {g} THEN merged[Misc] ELSE {}
<1>1. /\ DOMAIN M = (DOMAIN merged \ {g}) \cup {Misc}
      /\ \A h \in DOMAIN M : M[h] = IF h = Misc THEN merged[g] \cup old ELSE merged[h]
  BY DEF Carried
<1>2. /\ DOMAIN merged \subseteq Names /\ Misc \in Names
      /\ \A h \in DOMAIN merged : merged[h] # {} /\ merged[h] \subseteq Files
      /\ \A h, i \in DOMAIN merged : h # i => merged[h] \cap merged[i] = {}
  BY ShardPlanAssumption DEF PInv, PlanTypeOK, GroupsPartitionFiles
<1>3. /\ Misc \in DOMAIN M /\ M[Misc] = merged[g] \cup old
      /\ \A h \in DOMAIN M : h # Misc => h \in DOMAIN merged /\ h # g /\ M[h] = merged[h]
  BY <1>1
<1>4. /\ old \subseteq Files
      /\ \A f \in old : Misc \in DOMAIN merged /\ f \in merged[Misc]
      /\ Misc \in DOMAIN merged => merged[Misc] \subseteq merged[g] \cup old
  BY <1>2
<1> HIDE DEF old
<1>5. \A h \in DOMAIN M : M[h] # {} /\ M[h] \subseteq Files
  BY <1>2, <1>3, <1>4
<1>6. \A h \in DOMAIN M : h # Misc => M[h] \cap M[Misc] = {}
  <2>1. ASSUME NEW h \in DOMAIN M, h # Misc
        PROVE  M[h] \cap M[Misc] = {}
    <3>1. h \in DOMAIN merged /\ h # g /\ M[h] = merged[h]
      BY <1>3, <2>1
    <3>2. merged[h] \cap merged[g] = {}
      BY <1>2, <3>1
    <3>3. merged[h] \cap old = {}
      BY <1>2, <1>4, <2>1, <3>1
    <3> QED BY <1>3, <3>1, <3>2, <3>3
  <2> QED BY <2>1
<1>7. \A h, i \in DOMAIN M : h # i => M[h] \cap M[i] = {}
  BY <1>2, <1>3, <1>6
<1>8. UNION {M[h] : h \in DOMAIN M} = UNION {merged[h] : h \in DOMAIN merged}
  <2>1. ASSUME NEW h \in DOMAIN M, NEW f \in M[h]
        PROVE  \E i \in DOMAIN merged : f \in merged[i]
    BY <1>3, <1>4
  <2>2. ASSUME NEW h \in DOMAIN merged, NEW f \in merged[h]
        PROVE  \E i \in DOMAIN M : f \in M[i]
    <3>1. CASE h = g \/ h = Misc
      BY <1>3, <1>4, <3>1
    <3>2. CASE h # g /\ h # Misc
      BY <1>1, <1>3, <3>2
    <3> QED BY <3>1, <3>2
  <2> QED BY <2>1, <2>2
<1> QED BY <1>1, <1>2, <1>3, <1>5, <1>7, <1>8

(* What an input that stays says of chunks stays.                          *)
LEMMA ChunksOfStays ==
  UNCHANGED planInput =>
    /\ Grouped(dirOf, Normalized)' = Grouped(dirOf, Normalized)
    /\ ChunksOf(Grouped(dirOf, Normalized))' = ChunksOf(Grouped(dirOf, Normalized))
<1> SUFFICES ASSUME UNCHANGED planInput
    PROVE  /\ Grouped(dirOf, Normalized)' = Grouped(dirOf, Normalized)
           /\ ChunksOf(Grouped(dirOf, Normalized))' = ChunksOf(Grouped(dirOf, Normalized))
  OBVIOUS
<1>1. dirOf' = dirOf /\ maxFiles' = maxFiles /\ Normalized' = Normalized
  BY DEF planInput, Normalized
<1>2. Grouped(dirOf, Normalized)' = Grouped(dirOf, Normalized)
  BY <1>1 DEF Grouped
<1>3. ChunksOf(Grouped(dirOf, Normalized))' = ChunksOf(Grouped(dirOf, Normalized))
  BY <1>1, <1>2 DEF ChunksOf, Chunks
<1> QED BY <1>2, <1>3

(* The smallest group is carried over.                                     *)
LEMMA MergeKeeps == PInv /\ Merge => PInv'
<1> SUFFICES ASSUME PInv, Merge PROVE PInv'
  OBVIOUS
<1>1. PICK g \in DOMAIN merged : merged' = Carried(g)
  BY DEF Merge
<1>2. /\ UNCHANGED planInput /\ UNCHANGED <<dirOf, vendored, maxFiles, shardCap, planning, shards>>
      /\ carries' = 1 - carries /\ planning = "merging" /\ ChunksOf(merged) > shardCap
  BY DEF Merge, planInput, TooManyShards, ChunkCount
<1>3. /\ DOMAIN merged' \subseteq Names
      /\ \A h \in DOMAIN merged' : merged'[h] # {} /\ merged'[h] \subseteq Files
      /\ \A h \in DOMAIN merged' : h # Misc => h \in DOMAIN merged /\ merged'[h] = merged[h]
      /\ UNION {merged'[h] : h \in DOMAIN merged'} = UNION {merged[h] : h \in DOMAIN merged}
      /\ \A h, i \in DOMAIN merged' : h # i => merged'[h] \cap merged'[i] = {}
  BY <1>1, CarriedFacts
<1>4. PlanTypeOK'
  BY <1>2, <1>3 DEF PInv, PlanTypeOK
<1>5. GroupsPartitionFiles'
  BY <1>2, <1>3 DEF PInv, GroupsPartitionFiles, Normalized
<1>6. ShardsAreChunks'
  BY <1>2 DEF PInv, ShardsAreChunks
<1>7. (ChunksOf(Grouped(dirOf, Normalized)) > shardCap)'
  <2>1. ChunksOf(Grouped(dirOf, Normalized)) > shardCap
    BY <1>2, Zenon DEF PInv, GroupsAreDirectories
  <2> QED BY <1>2, <2>1, ChunksOfStays, Zenon
<1>8. \A h \in DOMAIN merged' : h # Misc => \A f \in merged'[h] : dirOf'[f] = h
  BY <1>2, <1>3 DEF PInv, GroupsAreDirectories
<1>9. GroupsAreDirectories'
  BY <1>7, <1>8 DEF GroupsAreDirectories
<1> QED BY <1>4, <1>5, <1>6, <1>9 DEF PInv

(* The groups become shards.                                               *)
LEMMA EmitKeeps == PInv /\ Emit => PInv'
<1> SUFFICES ASSUME PInv, Emit PROVE PInv'
  OBVIOUS
<1>1. /\ UNCHANGED planInput /\ UNCHANGED <<dirOf, vendored, maxFiles, shardCap, merged, carries>>
      /\ planning' = "done" /\ shards' = UNION {ShardsOf(g) : g \in DOMAIN merged}
  BY DEF Emit, planInput
<1>2. \A g : ShardsOf(g)' = ShardsOf(g)
  BY <1>1 DEF ShardsOf, ShardId, Chunks, ChunkOf, Position
<1>3. shards' = UNION {ShardsOf(g)' : g \in DOMAIN merged'}
  BY <1>1, <1>2
<1>4. ASSUME NEW g \in DOMAIN merged, NEW s \in ShardsOf(g)
      PROVE  s \in [id : Names \X Nat, files : SUBSET Files]
  <2>1. g \in Names /\ merged[g] \subseteq Files
    BY DEF PInv, PlanTypeOK
  <2>2. Chunks(merged[g]) \in Nat \ {0} /\ \A k : ChunkOf(merged[g], k) \in SUBSET merged[g]
    <3>1. maxFiles \in Nat \ {0} /\ merged[g] \in SUBSET Nat /\ IsFiniteSet(merged[g]) /\ merged[g] # {}
      BY NumbersOfPlan DEF PInv
    <3> QED BY <3>1, ChunksPartitionGroup
  <2>3. PICK k \in 0 .. Chunks(merged[g]) - 1 :
          s = [id |-> ShardId(g, k), files |-> ChunkOf(merged[g], k)]
    BY DEF ShardsOf
  <2>4. ShardId(g, k) \in Names \X Nat
    <3>1. g \in DOMAIN Spelling => Spelling[g] \in Names \X Nat
      BY ShardPlanAssumption
    <3> QED BY <2>1, <2>2, <3>1 DEF ShardId, Spelled
  <2> QED BY <2>1, <2>2, <2>3, <2>4
<1>5. shards' \subseteq [id : Names \X Nat, files : SUBSET Files]
  BY <1>1, <1>4
<1>6. PlanTypeOK'
  BY <1>1, <1>5 DEF PInv, PlanTypeOK
<1>7. GroupsPartitionFiles'
  BY <1>1 DEF PInv, GroupsPartitionFiles, Normalized
<1>8. GroupsAreDirectories'
  <2>1. (merged = Grouped(dirOf, Normalized) \/ ChunksOf(Grouped(dirOf, Normalized)) > shardCap)'
    BY <1>1, ChunksOfStays, Zenon DEF PInv, GroupsAreDirectories
  <2> QED BY <1>1, <2>1 DEF PInv, GroupsAreDirectories
<1> QED BY <1>1, <1>3, <1>6, <1>7, <1>8 DEF PInv, ShardsAreChunks

(* PInv is an invariant of the plan.                                       *)
LEMMA PlanInvariant == PlanSpec => []PInv
<1>1. PInv /\ [PlanNext]_planVars => PInv'
  <2> SUFFICES ASSUME PInv, [PlanNext]_planVars PROVE PInv'
    OBVIOUS
  <2>1. CASE UNCHANGED planVars
    <3>1. /\ UNCHANGED planInput
          /\ UNCHANGED <<dirOf, vendored, maxFiles, shardCap, merged, carries, planning, shards>>
      BY <2>1 DEF planVars, planInput
    <3>2. \A g : ShardsOf(g)' = ShardsOf(g)
      BY <3>1 DEF ShardsOf, ShardId, Chunks, ChunkOf, Position
    <3>3. ShardsAreChunks'
      <4>1. planning = "done" => shards' = UNION {ShardsOf(g)' : g \in DOMAIN merged'}
        BY <3>1, <3>2 DEF PInv, ShardsAreChunks
      <4> QED BY <3>1, <4>1 DEF PInv, ShardsAreChunks
    <3>4. PlanTypeOK' /\ GroupsPartitionFiles'
      BY <3>1 DEF PInv, PlanTypeOK, GroupsPartitionFiles, Normalized
    <3>5. (merged = Grouped(dirOf, Normalized) \/ ChunksOf(Grouped(dirOf, Normalized)) > shardCap)'
      BY <3>1, ChunksOfStays, Zenon DEF PInv, GroupsAreDirectories
    <3>6. GroupsAreDirectories'
      BY <3>1, <3>5 DEF PInv, GroupsAreDirectories
    <3> QED BY <3>3, <3>4, <3>6 DEF PInv
  <2> QED BY <2>1, GroupKeeps, MergeKeeps, EmitKeeps DEF PlanNext
<1> QED BY <1>1, PlanStarts, PTL DEF PlanSpec

-----------------------------------------------------------------------------
(* Shards of the plan come from one chunk of one group.                    *)
LEMMA ShardOfChunk ==
  ASSUME PInv, planning = "done", NEW s
  PROVE  s \in shards <=> \E g \in DOMAIN merged : \E k \in 0 .. Chunks(merged[g]) - 1 :
           s = [id |-> ShardId(g, k), files |-> ChunkOf(merged[g], k)]
BY DEF PInv, ShardsAreChunks, ShardsOf

(* Two chunks of two groups have one identifier only when one group is     *)
(* whole and its name reads as the number of the other's chunk.            *)
LEMMA EqualIds ==
  ASSUME NEW g \in DOMAIN merged, NEW h \in DOMAIN merged, g # h,
         NEW k \in Nat, NEW l \in Nat, ShardId(g, k) = ShardId(h, l)
  PROVE  \/ /\ g \in DOMAIN Spelling /\ Spelling[g] = <<h, l + 1>> /\ ShardId(g, k) = Spelling[g]
            /\ Chunks(merged[g]) = 1 /\ Chunks(merged[h]) # 1
         \/ /\ h \in DOMAIN Spelling /\ Spelling[h] = <<g, k + 1>> /\ ShardId(g, k) = Spelling[h]
            /\ Chunks(merged[h]) = 1 /\ Chunks(merged[g]) # 1
<1>1. \A x \in DOMAIN Spelling : Spelling[x][1] \in Names /\ Spelling[x][2] \in Nat \ {0}
  BY ShardPlanAssumption
<1>2. g \in DOMAIN Spelling /\ h \in DOMAIN Spelling => Spelling[g] # Spelling[h]
  BY ShardPlanAssumption
<1>3. CASE Chunks(merged[g]) = 1 /\ Chunks(merged[h]) = 1
  <2>1. Spelled(g) = Spelled(h)
    BY <1>3 DEF ShardId
  <2> QED BY <1>1, <1>2, <2>1 DEF Spelled
<1>4. CASE Chunks(merged[g]) # 1 /\ Chunks(merged[h]) # 1
  BY <1>4 DEF ShardId
<1>5. CASE Chunks(merged[g]) = 1 /\ Chunks(merged[h]) # 1
  <2>1. Spelled(g) = <<h, l + 1>> /\ ShardId(g, k) = Spelled(g)
    BY <1>5 DEF ShardId
  <2>2. g \in DOMAIN Spelling
    BY <2>1 DEF Spelled
  <2> QED BY <1>5, <2>1, <2>2 DEF Spelled
<1>6. CASE Chunks(merged[g]) # 1 /\ Chunks(merged[h]) = 1
  <2>1. Spelled(h) = <<g, k + 1>> /\ ShardId(g, k) = Spelled(h)
    BY <1>6 DEF ShardId
  <2>2. h \in DOMAIN Spelling
    BY <2>1 DEF Spelled
  <2> QED BY <1>6, <2>1, <2>2 DEF Spelled
<1> QED BY <1>3, <1>4, <1>5, <1>6

(* Every file is in one shard, no shard is empty or too large, and two     *)
(* have one name only as IdsDiffer says.                                   *)
LEMMA PlanPartitionsFiles ==
  ASSUME PInv
  PROVE  ShardsPartitionFiles /\ IdsDiffer
<1>1. CASE planning # "done"
  BY <1>1 DEF PInv, ShardsAreChunks, ShardsPartitionFiles, IdsDiffer
<1>2. CASE planning = "done"
  <2>1. ASSUME NEW g \in DOMAIN merged
        PROVE  /\ Chunks(merged[g]) \in Nat \ {0}
               /\ \A k : ChunkOf(merged[g], k) \in SUBSET merged[g]
               /\ \A f \in merged[g] : \E k \in 0 .. Chunks(merged[g]) - 1 : f \in ChunkOf(merged[g], k)
               /\ \A k, l : k # l => ChunkOf(merged[g], k) \cap ChunkOf(merged[g], l) = {}
               /\ \A k \in 0 .. Chunks(merged[g]) - 1 :
                    Cardinality(ChunkOf(merged[g], k)) \in 1 .. maxFiles
    <3>1. maxFiles \in Nat \ {0} /\ merged[g] \in SUBSET Nat /\ IsFiniteSet(merged[g]) /\ merged[g] # {}
      BY NumbersOfPlan DEF PInv
    <3> QED BY <3>1, ChunksPartitionGroup
  <2>2. /\ UNION {merged[g] : g \in DOMAIN merged} = Normalized
        /\ \A g, h \in DOMAIN merged : g # h => merged[g] \cap merged[h] = {}
    BY DEF PInv, GroupsPartitionFiles
  <2>3. ASSUME NEW s \in shards
        PROVE  \E g \in DOMAIN merged : \E k \in 0 .. Chunks(merged[g]) - 1 :
                 s = [id |-> ShardId(g, k), files |-> ChunkOf(merged[g], k)]
    BY <1>2, ShardOfChunk
  <2>4. ASSUME NEW f \in Normalized PROVE \E s \in shards : f \in s.files
    <3>1. PICK g \in DOMAIN merged : f \in merged[g]
      BY <2>2
    <3>2. PICK k \in 0 .. Chunks(merged[g]) - 1 : f \in ChunkOf(merged[g], k)
      BY <2>1, <3>1
    <3> DEFINE s == [id |-> ShardId(g, k), files |-> ChunkOf(merged[g], k)]
    <3>3. s \in shards /\ s.files = ChunkOf(merged[g], k)
      BY <1>2, <3>2, ShardOfChunk
    <3> QED BY <3>2, <3>3
  <2>5. ASSUME NEW s \in shards
        PROVE  s.files \subseteq Normalized /\ Cardinality(s.files) \in 1 .. maxFiles
    BY <2>1, <2>2, <2>3
  <2>6. ASSUME NEW s \in shards, NEW t \in shards, s # t
        PROVE  /\ s.files \cap t.files = {}
               /\ s.id = t.id => \E x \in DOMAIN Spelling :
                                  s.id = Spelling[x] /\ (ReadsAsChunk(x, s, t) \/ ReadsAsChunk(x, t, s))
    <3>1. PICK g \in DOMAIN merged : \E k \in 0 .. Chunks(merged[g]) - 1 :
            s = [id |-> ShardId(g, k), files |-> ChunkOf(merged[g], k)]
      BY <2>3
    <3>2. PICK k \in 0 .. Chunks(merged[g]) - 1 :
            s = [id |-> ShardId(g, k), files |-> ChunkOf(merged[g], k)]
      BY <3>1
    <3>3. PICK h \in DOMAIN merged : \E l \in 0 .. Chunks(merged[h]) - 1 :
            t = [id |-> ShardId(h, l), files |-> ChunkOf(merged[h], l)]
      BY <2>3
    <3>4. PICK l \in 0 .. Chunks(merged[h]) - 1 :
            t = [id |-> ShardId(h, l), files |-> ChunkOf(merged[h], l)]
      BY <3>3
    <3>5. k \in Nat /\ l \in Nat /\ Chunks(merged[g]) \in Nat \ {0} /\ Chunks(merged[h]) \in Nat \ {0}
      BY <2>1
    <3>6. CASE g = h
      <4>1. k # l
        BY <2>6, <3>2, <3>4, <3>6
      <4>2. Chunks(merged[g]) # 1
        BY <3>5, <3>6, <4>1
      <4>3. s.id # t.id
        BY <3>2, <3>4, <3>5, <3>6, <4>1, <4>2 DEF ShardId
      <4>4. s.files \cap t.files = {}
        BY <2>1, <3>2, <3>4, <3>6, <4>1
      <4> QED BY <4>3, <4>4
    <3>7. CASE g # h
      <4>1. s.files \cap t.files = {}
        BY <2>1, <2>2, <3>2, <3>4, <3>7
      <4>2. ASSUME s.id = t.id
            PROVE  \E x \in DOMAIN Spelling :
                     s.id = Spelling[x] /\ (ReadsAsChunk(x, s, t) \/ ReadsAsChunk(x, t, s))
        <5>1. ShardId(g, k) = ShardId(h, l) /\ s.id = ShardId(g, k)
          BY <3>2, <3>4, <4>2
        <5>2. /\ Chunks(merged[g]) = 1 => s.files = merged[g]
              /\ Chunks(merged[h]) = 1 => t.files = merged[h]
          <6>1. ASSUME NEW x \in DOMAIN merged, Chunks(merged[x]) = 1
                PROVE  ChunkOf(merged[x], 0) = merged[x]
            <7>1. ChunkOf(merged[x], 0) \in SUBSET merged[x]
              BY <2>1, Zenon
            <7>2. \A f \in merged[x] : \E i \in 0 .. 0 : f \in ChunkOf(merged[x], i)
              BY <2>1, <6>1
            <7>3. \A f \in merged[x] : f \in ChunkOf(merged[x], 0)
              BY <7>2
            <7> QED BY <7>1, <7>3
          <6>2. /\ Chunks(merged[g]) = 1 => k = 0
                /\ Chunks(merged[h]) = 1 => l = 0
            BY <3>5
          <6> QED BY <3>2, <3>4, <6>1, <6>2
        <5>3. CASE /\ g \in DOMAIN Spelling /\ Spelling[g] = <<h, l + 1>> /\ ShardId(g, k) = Spelling[g]
                   /\ Chunks(merged[g]) = 1 /\ Chunks(merged[h]) # 1
          <6>1. Spelling[g][1] = h /\ Spelling[g][2] - 1 = l
            BY <3>5, <5>3
          <6>2. ReadsAsChunk(g, s, t)
            BY <3>4, <3>5, <5>2, <5>3, <6>1 DEF ReadsAsChunk
          <6> QED BY <5>1, <5>3, <6>2
        <5>4. CASE /\ h \in DOMAIN Spelling /\ Spelling[h] = <<g, k + 1>> /\ ShardId(g, k) = Spelling[h]
                   /\ Chunks(merged[h]) = 1 /\ Chunks(merged[g]) # 1
          <6>1. Spelling[h][1] = g /\ Spelling[h][2] - 1 = k
            BY <3>5, <5>4
          <6>2. ReadsAsChunk(h, t, s)
            BY <3>2, <3>5, <5>2, <5>4, <6>1 DEF ReadsAsChunk
          <6> QED BY <5>1, <5>4, <6>2
        <5> QED BY <3>5, <3>7, <5>1, <5>3, <5>4, EqualIds
      <4> QED BY <4>1, <4>2
    <3> QED BY <3>6, <3>7
  <2>7. ShardsPartitionFiles
    BY <2>4, <2>5, <2>6 DEF ShardsPartitionFiles
  <2>8. IdsDiffer
    BY <2>6 DEF IdsDiffer
  <2> QED BY <2>7, <2>8
<1> QED BY <1>1, <1>2

(* However often groups are carried over, the plan reviews every file that *)
(* was not vendored once, in shards of bounded size, and mixes directories *)
(* only when they alone were too many (build_shard_plan,                   *)
(* sharding/plan.py:58-113).  Two shards have one identifier only when a   *)
(* directory that is one shard is named like a chunk of another (101).     *)
THEOREM PlanIsAlwaysSound == PlanSpec => []PlanIsSound
<1>1. PInv => PlanIsSound
  <2> SUFFICES ASSUME PInv PROVE PlanIsSound
    OBVIOUS
  <2>1. PlanTypeOK /\ EveryFileInOneShard
    BY PlanPartitionsFiles DEF PInv, EveryFileInOneShard
  <2>2. ASSUME NEW g \in DOMAIN merged, NEW f \in merged[g], dirOf[f] # g
        PROVE  g = Misc /\ ChunksOf(Grouped(dirOf, Normalized)) > shardCap
    <3>1. g = Misc
      BY <2>2 DEF PInv, GroupsAreDirectories
    <3>2. merged # Grouped(dirOf, Normalized)
      <4>1. ASSUME merged = Grouped(dirOf, Normalized) PROVE FALSE
        BY <2>2, <4>1 DEF Grouped
      <4> QED BY <4>1
    <3> QED BY <3>1, <3>2, Zenon DEF PInv, GroupsAreDirectories
  <2>3. MixingIsNecessary
    BY <2>2 DEF MixingIsNecessary
  <2> QED BY <2>1, <2>3 DEF PlanIsSound
<1> QED BY <1>1, PlanInvariant, PTL
=============================================================================
