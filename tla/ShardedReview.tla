--------------------------- MODULE ShardedReview ----------------------------
(***************************************************************************)
(* The sharded review (sharding/runner.py, sharding/merge.py and           *)
(* _run_sharded_review of cli/phases.py): the shards of a plan are debated *)
(* by a pool of threads, or one after the other by a single worker; the    *)
(* outcomes, whatever order they arrive in, are merged into one report.    *)
(* The threads share one usage accumulator (llm/trials.py).                *)
(*                                                                         *)
(* Shards are numbered in the order of their identifiers, as strings; the  *)
(* plan may list them in another ("src:2" before "src:10"), which Turn     *)
(* tells, and their identifiers differ (ShardPlan.tla says when they do    *)
(* not).  A finding is abstracted to the key and the strength by which     *)
(* duplicates are merged.                                                  *)
(***************************************************************************)
EXTENDS Naturals, Sequences, FiniteSets, Lists

CONSTANTS NumShards, WorkerCounts,  \* shards of the plan, values of max_workers
          Turn,                     \* of each shard: its place in the plan
          Keys, Strengths,          \* (rule, file, line) and confidence
          MaxFindings               \* findings of one shard

ASSUME ShardedReviewAssumption ==
  /\ NumShards \in Nat \ {0} /\ WorkerCounts \subseteq Nat \ {0}
  /\ Strengths \subseteq Nat /\ MaxFindings \in Nat
  /\ Turn \in [1 .. NumShards -> 1 .. NumShards]
  /\ \A s, t \in 1 .. NumShards : Turn[s] = Turn[t] => s = t

Shards  == 1 .. NumShards

(* A Turn: the plan lists the shards in the order of their identifiers, as *)
(* when no group has ten chunks.                                           *)
InOrder == [s \in Shards |-> s]

Finding == [key : Keys, strength : Strengths]

(* What the debate of a shard can come to (Debate.tla): reviewed findings, *)
(* one hypothesis that was not reviewed, no answer of the Proposer, no     *)
(* evidence to debate; or an exception, or no result at all.               *)
DebateResults ==
  [status : {"complete"}, findings : UNION {[1 .. n -> Finding] : n \in 0 .. MaxFindings},
   hypotheses : {0}]
    \cup [status : {"partial"}, findings : {<<>>}, hypotheses : {1}]
    \cup [status : {"failed", "skipped_no_evidence"}, findings : {<<>>}, hypotheses : {0}]
NoResult == [status |-> "none", findings |-> <<>>, hypotheses |-> 0]

VARIABLES
  workers,        \* threads of the pool; 1 is the caller itself
  late,           \* has the deadline passed?
  next,           \* the shard the dispatch loop looks at
  state,          \* of each shard: where it is
  result,         \* of each shard: what its debate returned
  outcomes,       \* the outcomes collected, in the order of their arrival
  review,         \* the merged report, once it exists
  tokens, calls,  \* the shared usage accumulator
  read,           \* of each shard: the token count its thread has read
  reportedUsages  \* history: usage records handed to the accumulator

usageVars == <<tokens, calls, read, reportedUsages>>
reviewVars == <<workers, late, next, state, result, outcomes, review, usageVars>>

NoReview == [status |-> "none", findings |-> {}, hypotheses |-> 0, consensus |-> FALSE]

ReviewInit ==
  /\ workers \in {IF w < NumShards THEN w ELSE NumShards : w \in WorkerCounts}
  /\ late = FALSE
  /\ next = 1
  /\ state = [s \in Shards |-> "undispatched"]
  /\ result = [s \in Shards |-> NoResult]
  /\ outcomes = <<>>
  /\ review = NoReview
  /\ tokens = 0 /\ calls = 0 /\ read = [s \in Shards |-> 0] /\ reportedUsages = 0

Collected == {outcomes[i].shard : i \in DOMAIN outcomes}
Running   == {s \in Shards : state[s] \in {"debating", "adding"}}
Queued    == {s \in Shards : state[s] = "queued"}

DeadlinePasses ==
  /\ ~late /\ late' = TRUE
  /\ UNCHANGED <<workers, next, state, result, outcomes, review, usageVars>>

Outcome(s, status) == [shard |-> s, status |-> status]

(* The dispatch loops look at one shard after the other; a single worker   *)
(* is done with those before.                                              *)
IsNext(s) ==
  /\ Turn[s] = next
  /\ workers = 1 => Collected = {t \in Shards : Turn[t] < next}

(* One they reach after the deadline is skipped.                           *)
Skip(s) ==
  /\ IsNext(s) /\ late
  /\ outcomes' = Append(outcomes, Outcome(s, "skipped_budget"))
  /\ state' = [state EXCEPT ![s] = "skipped"]
  /\ next' = next + 1
  /\ UNCHANGED <<workers, late, result, review, usageVars>>

(* One worker: the loop runs the shard itself.                             *)
RunInline(s) ==
  /\ workers = 1 /\ IsNext(s) /\ ~late
  /\ state' = [state EXCEPT ![s] = "debating"]
  /\ next' = next + 1
  /\ UNCHANGED <<workers, late, result, outcomes, review, usageVars>>

(* A pool: the loop submits the shard, and goes on.                        *)
Submit(s) ==
  /\ workers > 1 /\ IsNext(s) /\ ~late
  /\ state' = [state EXCEPT ![s] = "queued"]
  /\ next' = next + 1
  /\ UNCHANGED <<workers, late, result, outcomes, review, usageVars>>

(* An idle thread of the pool takes the shard submitted first.             *)
Take(s) ==
  /\ s \in Queued /\ \A t \in Queued : Turn[s] <= Turn[t]
  /\ Cardinality(Running) < workers
  /\ state' = [state EXCEPT ![s] = "debating"]
  /\ UNCHANGED <<workers, late, next, result, outcomes, review, usageVars>>

(* A model answered: UsageAccumulator.add reads the token count, computes  *)
(* the increment, and stores the sum; another thread may run in between.   *)
ReadUsage(s) ==
  /\ state[s] = "debating" /\ read[s] = 0
  /\ read' = [read EXCEPT ![s] = tokens + 1]
  /\ reportedUsages' = reportedUsages + 1
  /\ state' = [state EXCEPT ![s] = "adding"]
  /\ UNCHANGED <<workers, late, next, result, outcomes, review, tokens, calls>>

AddUsage(s) ==
  /\ state[s] = "adding"
  /\ tokens' = read[s]
  /\ calls' = calls + 1
  /\ state' = [state EXCEPT ![s] = "debating"]
  /\ UNCHANGED <<workers, late, next, result, outcomes, review, read, reportedUsages>>

(* run_shard returns; with a result it may have used the model or not.     *)
ShardReturns(s) ==
  /\ state[s] = "debating"
  /\ \E r \in DebateResults \cup {NoResult} :
       /\ r.status \in {"complete", "partial"} => read[s] # 0
       /\ r.status = "skipped_no_evidence" => read[s] = 0
       /\ result' = [result EXCEPT ![s] = r]
  /\ state' = [state EXCEPT ![s] = "returned"]
  /\ UNCHANGED <<workers, late, next, outcomes, review, usageVars>>

CollectResultsOnly(s) ==
  /\ state[s] = "returned" /\ result[s] # NoResult
  /\ workers > 1 => next > NumShards
  /\ outcomes' = Append(outcomes, Outcome(s, "completed"))
  /\ state' = [state EXCEPT ![s] = "collected"]
  /\ UNCHANGED <<workers, late, next, result, review, usageVars>>

(* The caller takes an outcome: at once when it ran the shard itself, from *)
(* as_completed, in any order, once everything is submitted.               *)
Collect(s) ==
  /\ state[s] = "returned"
  /\ workers > 1 => next > NumShards
  /\ outcomes' = Append(outcomes, Outcome(s, IF result[s] = NoResult THEN "error"
                                             ELSE "completed"))
  /\ state' = [state EXCEPT ![s] = "collected"]
  /\ UNCHANGED <<workers, late, next, result, review, usageVars>>

OrderedByArrival == [k \in DOMAIN outcomes |-> outcomes[k].shard]

(* Outcomes are merged in the order of their identifiers.                  *)
Ordered == [k \in 1 .. Cardinality(Collected) |-> Nth(Collected, k)]

(* Of two findings with one key the stronger stays, the earlier on a tie.  *)
KeepStronger(best, f) ==
  LET rivals == {g \in best : g.key = f.key}
  IN  IF rivals = {} THEN best \cup {f}
      ELSE IF \E g \in rivals : f.strength > g.strength THEN (best \ rivals) \cup {f}
      ELSE best

Tagged(s, i) ==
  [key |-> result[s].findings[i].key, shard |-> s, strength |-> result[s].findings[i].strength]

(* The two loops: over the outcomes, and over the findings of each.        *)
WithFindingsOf(s, best) ==
  LET upTo[i \in 0 .. Len(result[s].findings)] ==
        IF i = 0 THEN best ELSE KeepStronger(upTo[i - 1], Tagged(s, i))
  IN  upTo[Len(result[s].findings)]

MergedFindings ==
  LET upTo[k \in 0 .. Len(Ordered)] ==
        IF k = 0 THEN {} ELSE WithFindingsOf(Ordered[k], upTo[k - 1])
  IN  upTo[Len(Ordered)]

Hypotheses ==
  LET upTo[k \in 0 .. Len(Ordered)] ==
        IF k = 0 THEN 0 ELSE upTo[k - 1] + result[Ordered[k]].hypotheses
  IN  upTo[Len(Ordered)]

StatusIgnoringErrors == IF outcomes # <<>> THEN "completed" ELSE "partial"

ReviewStatus ==
  IF outcomes # <<>> /\ \A i \in DOMAIN outcomes : outcomes[i].status = "completed"
    THEN "completed" ELSE "partial"

(* Consensus: every debate that was completed reached it, and there is one.*)
Consensus ==
  LET completed == {i \in DOMAIN outcomes : outcomes[i].status = "completed"}
  IN  /\ completed # {}
      /\ \A i \in completed : result[outcomes[i].shard].status = "complete"

MergedReport ==
  [status     |-> ReviewStatus,
   findings   |-> MergedFindings,
   hypotheses |-> Hypotheses,
   consensus  |-> Consensus /\ ReviewStatus = "completed"]

Report ==
  /\ review = NoReview /\ Collected = Shards
  /\ review' = MergedReport
  /\ UNCHANGED <<workers, late, next, state, result, outcomes, usageVars>>

Work(s) == Take(s) \/ ReadUsage(s) \/ AddUsage(s) \/ ShardReturns(s)

Caller == (\E s \in Shards : Skip(s) \/ RunInline(s) \/ Submit(s) \/ Collect(s)) \/ Report

ReviewNext == DeadlinePasses \/ Caller \/ \E s \in Shards : Work(s)

ReviewSpec == ReviewInit /\ [][ReviewNext]_reviewVars

-----------------------------------------------------------------------------
Reported == review # NoReview

TaggedFinding == [key : Keys, shard : Shards, strength : Strengths]

(* Shards, outcomes, the report and the usage counters of a sharded review *)
(* have their shapes.                                                      *)
ReviewTypeOK ==
  /\ workers \in 1 .. NumShards /\ late \in BOOLEAN
  /\ next \in 1 .. NumShards + 1
  /\ state \in [Shards -> {"undispatched", "queued", "debating", "adding",
                           "returned", "collected", "skipped"}]
  /\ result \in [Shards -> DebateResults \cup {NoResult}]
  /\ \A i \in DOMAIN outcomes :
       outcomes[i] \in [shard : Shards, status : {"completed", "error", "skipped_budget"}]
  /\ review.status \in {"none", "completed", "partial"}
  /\ review.findings \subseteq TaggedFinding
  /\ tokens \in Nat /\ calls \in Nat /\ reportedUsages \in Nat
  /\ read \in [Shards -> Nat]

(* Every shard of the plan is accounted for by exactly one outcome,        *)
(* whatever failed, was skipped, or came back first (runner.py:39-63).     *)
OneOutcomePerShard ==
  Reported => Collected = Shards /\ Len(outcomes) = NumShards

(* The findings of all the debates, and which of two wins.                 *)
Found == {Tagged(o[1], o[2]) :
            o \in {p \in Shards \X (1 .. MaxFindings) : p[2] \in DOMAIN result[p[1]].findings}}
Beats(f, g) == f.strength > g.strength \/ (f.strength = g.strength /\ f.shard <= g.shard)

(* The report depends on what the debates returned and not on the order in *)
(* which they did: for every key the strongest finding, of the first shard *)
(* by name that has it, and every hypothesis that was not promoted         *)
(* (merge.py:61-101).                                                      *)
ReportIsDeterministic ==
  Reported =>
    /\ review.hypotheses = Cardinality({s \in Shards : result[s].status = "partial"})
    /\ review.findings = {f \in Found : \A g \in Found : g.key = f.key => Beats(f, g)}

(* A shard that crashed or was skipped shows: "A shard error becomes a     *)
(* `partial` result" (sharding/README.md), and the merged report claims    *)
(* consensus only when the three roles reviewed every shard of the plan    *)
(* (merge.py:70-74,103-112).                                               *)
LossesShow ==
  Reported =>
    /\ (\E i \in DOMAIN outcomes : outcomes[i].status # "completed") =>
         review.status = "partial" /\ ~review.consensus
    /\ review.consensus => \A s \in Shards : result[s].status = "complete"

(* The counter of a trial never exceeds what was handed to it, and a       *)
(* review by one worker counts all of it: only two workers that overlap in *)
(* `add` lose a record (trials.py:31-42).                                  *)
UsageNeedsAnOverlap ==
  tokens <= reportedUsages /\ (workers = 1 /\ Reported => tokens = reportedUsages)

(* Each planned shard has one outcome, the merged report (merge.py) shows  *)
(* every loss, and only threads that overlap lose usage (trials.py:33).    *)
NothingIsHidden == ReviewTypeOK /\ OneOutcomePerShard /\ LossesShow /\ UsageNeedsAnOverlap

(* Each trial records its token usage (docs/ARCHITECTURE.md:347-348): no   *)
(* record handed to the accumulator is lost (trials.py:31-42).             *)
NoUsageIsLost == Reported => tokens = reportedUsages
=============================================================================
