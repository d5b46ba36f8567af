----------------------------- MODULE MCReviews ------------------------------
(***************************************************************************)
(* One call of the language model, one sharded review, or the trials of    *)
(* one audit, each on a small instance: a behaviour takes one of them, and *)
(* the others, whose arguments are then fixed, do not move.                *)
(***************************************************************************)
EXTENDS LLMClient, ShardedReview, AuditTrials

CONSTANT Parts
VARIABLE kind
vars == <<kind, callVars, reviewVars, trialVars>>

(* Of three shards "a:1", "a:10" and "a:2" the plan lists the last second. *)
MCTurn == [s \in Shards |-> IF s = 1 THEN 1 ELSE 5 - s]

Least(S) == CHOOSE n \in S : \A m \in S : n <= m

CallSteps   == kind = "call" /\ CallNext /\ UNCHANGED <<kind, reviewVars, trialVars>>
TrialSteps  == kind = "trials" /\ TrialsNext /\ UNCHANGED <<kind, callVars, reviewVars>>
Reviewing(A) == kind = "review" /\ A /\ UNCHANGED <<kind, callVars, trialVars>>

Init ==
  /\ kind \in Parts
  /\ CallInit
  /\ kind # "call" => configured = <<>> /\ maxRetries = Least(RetryLimits) /\ timeout = Least(Timeouts)
  /\ ReviewInit
  /\ kind # "review" => workers = 1
  /\ TrialsInit
  /\ kind # "trials" => /\ verdict = [c \in Candidates |-> "rejected"]
                        /\ findings = <<>> /\ trials = Least(TrialCounts)

Next == CallSteps \/ TrialSteps \/ Reviewing(ReviewNext)

(* One thread runs a call to its return, and the trials one after the      *)
(* other; every exchange with a provider ends, and every debate does       *)
(* (Debate).  The caller and the threads of a pool are scheduled by the    *)
(* operating system; the deadline of a review need not pass.               *)
Spec == /\ Init /\ [][Next]_vars
        /\ WF_vars(CallSteps) /\ WF_vars(TrialSteps)
        /\ WF_vars(Reviewing(Caller)) /\ \A s \in Shards : WF_vars(Reviewing(Work(s)))

-----------------------------------------------------------------------------
(* Whatever the providers do, call_llm() returns (client.py:125-204).      *)
CallReturns == kind = "call" => <>(phase = "done")

(* A sharded review returns, whatever the debates and the deadline do:     *)
(* each shard it waits for comes to an outcome (runner.py:39-63).          *)
ReviewReturns == kind = "review" => <>Reported

(* Every trial of an audit, its repairs included, comes to an end          *)
(* (session.py:165-210).                                                   *)
AuditReturns == kind = "trials" => <>(pc = "done")
=============================================================================
