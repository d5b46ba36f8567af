---------------------------- MODULE AuditTrials -----------------------------
(***************************************************************************)
(* An audit (quick, cli/phases.py) over one analysis session               *)
(* (core/session.py).  The deterministic analysis runs once; then, in each *)
(* trial, the ProjectReader asks the model for resource protocols, has it  *)
(* repair an answer whose candidates were all rejected, merges what the    *)
(* lifecycle analyzer finds with the accepted ones into the session, and   *)
(* hands an evidence pack to the review; trials are compared at the end.   *)
(*                                                                         *)
(* A candidate is a model value; what resolver, validator and analyzer say *)
(* of it is a fixed property of the repository.  A suggestion is named by  *)
(* the fact it is about, since reviews are grounded (Debate.tla).          *)
(***************************************************************************)
EXTENDS Naturals, Sequences, FiniteSets, SequencesExt

CONSTANTS
  Candidates,     \* resource protocols a model can propose
  SemanticRules,  \* findings of rules proved on the IR
  HeuristicRules, \* findings of rules that match text
  Retrieved,      \* facts the graph retriever returns for the concern
  MaxRepairs, MaxDiagnosticFacts, TrialCounts

RuleFindings == SemanticRules \cup HeuristicRules

(* A fact's identifier tells who found it.                                 *)
ASSUME TrialsAssumption ==
  /\ MaxRepairs \in 0 .. 3 /\ MaxDiagnosticFacts \in Nat
  /\ TrialCounts \subseteq 1 .. 10
  /\ IsFiniteSet(Candidates) /\ IsFiniteSet(RuleFindings)
  /\ Candidates \cap (RuleFindings \cup Retrieved) = {}

Verdicts == {"rejected", "supported", "finding"}

VARIABLES
  verdict,    \* of each candidate: what deterministic analysis makes of it
  trials,     \* trials asked for
  findings,   \* session.result.findings
  trial, pc,
  model,      \* the candidates of the ProjectReader's current answer
  repairs,
  stage,      \* session.project_reader
  pack,       \* facts of the evidence pack of this trial
  records,    \* the suggestions of each trial, as its signature
  report

environment == <<verdict, trials>>
trialVars == <<environment, findings, trial, pc, model, repairs, stage, pack, records, report>>

NotRun   == [status |-> "not_run", findings |-> {}]
NoReport == [stable |-> FALSE, majority |-> 0, status |-> "not_run"]

TrialsInit ==
  /\ verdict \in [Candidates -> Verdicts]
  /\ trials \in TrialCounts
  /\ findings \in {SetToSeq(S) : S \in SUBSET RuleFindings}
  /\ trial = 1 /\ pc = "read"
  /\ model = {} /\ repairs = 0
  /\ stage = NotRun /\ pack = {} /\ records = <<>> /\ report = NoReport

-----------------------------------------------------------------------------
Protocols(m) == {c \in m : verdict[c] # "rejected"}
Defects(m)   == {c \in m : verdict[c] = "finding"}

(* A stage that ends without findings leaves the session's alone.          *)
EndsWith(status, found, merged) ==
  /\ stage' = [status |-> status, findings |-> found]
  /\ findings' = merged
  /\ pc' = "pack"
  /\ UNCHANGED <<environment, trial, pack, records, report>>

(* No structured answer, or an IR without operations to ask about.         *)
ReaderIsUnavailable ==
  /\ pc = "read"
  /\ \E status \in {"unavailable", "unsupported"} : EndsWith(status, {}, findings)
  /\ model' = {} /\ repairs' = 0

ReaderAnswers(m) ==
  /\ pc = "read"
  /\ model' = m /\ repairs' = 0
  /\ pc' = "validate"
  /\ UNCHANGED <<environment, findings, trial, stage, pack, records, report>>

(* Repair is asked for only when there are rejections and nothing else.    *)
NeedsRepair ==
  /\ Protocols(model) = {} /\ model # {}
  /\ repairs < MaxRepairs

(* Mutant: an answer that came back does not count as an attempt.          *)
RepairAnswersUncounted(m) ==
  /\ pc = "validate" /\ NeedsRepair
  /\ model' = m
  /\ UNCHANGED <<environment, findings, trial, pc, repairs, stage, pack, records, report>>

RepairAnswers(m) ==
  /\ pc = "validate" /\ NeedsRepair
  /\ model' = m /\ repairs' = repairs + 1
  /\ UNCHANGED <<environment, findings, trial, pc, stage, pack, records, report>>

RepairFails ==
  /\ pc = "validate" /\ NeedsRepair
  /\ EndsWith("abstained", {}, findings)
  /\ repairs' = repairs + 1
  /\ UNCHANGED model

(* Mutant: the session's findings become the stage's.                      *)
MergedReplacing(found) == IF found = {} THEN findings ELSE SetToSeq(found)

(* New findings are appended to the session's, known ones are not.         *)
Merged(found) == findings \o SetToSeq(found \ ToSet(findings))

(* Mutant: the analyzer is given every candidate.                          *)
ValidateTrusting ==
  /\ pc = "validate" /\ ~NeedsRepair
  /\ EndsWith(IF model = {} THEN "abstained" ELSE "findings", model, Merged(model))
  /\ UNCHANGED <<model, repairs>>

(* The lifecycle analyzer looks for defects under the accepted protocols.  *)
Validate ==
  /\ pc = "validate" /\ ~NeedsRepair
  /\ EndsWith(CASE Defects(model) # {} -> "findings"
                [] Defects(model) = {} /\ Protocols(model) # {} -> "supported_no_finding"
                [] OTHER -> "abstained",
              Defects(model), Merged(Defects(model)))
  /\ UNCHANGED <<model, repairs>>

-----------------------------------------------------------------------------
(* The session's findings that are deterministic facts: those of semantic  *)
(* rules and of the ProjectReader, the first MaxDiagnosticFacts of them.   *)
DiagnosticFacts(all) ==
  LET semantic == {i \in DOMAIN all : all[i] \notin HeuristicRules}
  IN  {all[i] : i \in {k \in semantic : Cardinality({j \in semantic : j < k})
                                          < MaxDiagnosticFacts}}

PackOf(readerFindings, all) == readerFindings \cup DiagnosticFacts(all) \cup Retrieved

BuildPack ==
  /\ pc = "pack"
  /\ pack' = PackOf(stage.findings, findings)
  /\ pc' = "review"
  /\ UNCHANGED <<environment, findings, trial, model, repairs, stage, records, report>>

(* The review reports grounded suggestions, or none when it fails.         *)
Review(suggestions) ==
  /\ pc = "review"
  /\ suggestions \subseteq pack
  /\ records' = Append(records, suggestions)
  /\ IF trial < trials THEN trial' = trial + 1 /\ pc' = "read"
                       ELSE pc' = "report" /\ UNCHANGED trial
  /\ UNCHANGED <<environment, findings, model, repairs, stage, pack, report>>

Agreeing(sig) == Cardinality({i \in DOMAIN records : records[i] = sig})

Majority ==
  CHOOSE n \in {Agreeing(records[i]) : i \in DOMAIN records} :
    \A i \in DOMAIN records : Agreeing(records[i]) <= n

Stable == Cardinality(ToSet(records)) <= 1

(* summarize_trials, and the session report attached to the last result.   *)
Summarize ==
  /\ pc = "report"
  /\ report' = [stable |-> Stable, majority |-> Majority, status |-> stage.status]
  /\ pc' = "done"
  /\ UNCHANGED <<environment, findings, trial, model, repairs, stage, pack, records>>

TrialsNext ==
  \/ ReaderIsUnavailable \/ (\E m \in SUBSET Candidates : ReaderAnswers(m))
  \/ (\E m \in SUBSET Candidates : RepairAnswers(m)) \/ RepairFails \/ Validate
  \/ BuildPack \/ (\E suggestions \in SUBSET pack : Review(suggestions))
  \/ Summarize

TrialsSpec == TrialsInit /\ [][TrialsNext]_trialVars

-----------------------------------------------------------------------------
(* Findings, trials and repairs stay within their limits, and no finding is*)
(* listed twice.                                                           *)
TrialsTypeOK ==
  /\ verdict \in [Candidates -> Verdicts] /\ trials \in TrialCounts
  /\ findings \in Seq(RuleFindings \cup Candidates)
  /\ Len(findings) = Cardinality(ToSet(findings))
  /\ trial \in 1 .. trials
  /\ records \in Seq(SUBSET (RuleFindings \cup Candidates \cup Retrieved))
  /\ Len(records) <= trials
  /\ pc \in {"read", "validate", "pack", "review", "report", "done"}
  /\ model \subseteq Candidates /\ repairs \in 0 .. MaxRepairs
  /\ stage.findings \subseteq Candidates
  /\ pack \subseteq RuleFindings \cup Candidates \cup Retrieved

(* Whatever the model proposes and repairs, in any trial, a candidate is   *)
(* reported or used as evidence only if the deterministic gates found a    *)
(* defect with it (session.py:154-158, 216-237).                           *)
RejectedIsNeverEvidence ==
  \A c \in Candidates :
    c \in ToSet(findings) \cup stage.findings \cup pack \cup UNION ToSet(records)
      => verdict[c] = "finding"

(* No trial loses a finding of the deterministic rules or of an earlier    *)
(* trial, nor reorders them.                                               *)
FindingsAreKept == [][IsPrefix(findings, findings')]_trialVars

(* "stable" and the stability rate (majority over trials) tell the same:   *)
(* trials are stable exactly when the majority is all of them.             *)
StableIsUnanimous == pc = "done" => (report.stable <=> report.majority = Len(records))

(* What the resolver or the validator rejected is never a finding nor      *)
(* evidence, in any trial or repair of an audit (session.py), and the      *)
(* summary calls trials stable exactly when they agree (trials.py).        *)
TrialsAreSound == TrialsTypeOK /\ RejectedIsNeverEvidence /\ StableIsUnanimous
=============================================================================
