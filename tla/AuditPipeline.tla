--------------------------- MODULE AuditPipeline ----------------------------
(***************************************************************************)
(* One audit from the command line to its records (cli/phases.py,          *)
(* cli/wizard.py, trajectory/build.py): the checkout, the analysis session *)
(* and its fallback, the stages round the review, and what is kept.  Each  *)
(* optional stage may fail; Debate, ShardedReview, AuditTrials, Retrieval, *)
(* Diagnostics, PatchSandbox and UserStores model what happens inside      *)
(* them, and here a stage is its outcome.  One trial is run.               *)
(*                                                                         *)
(* A suggestion is the fact it cites, its title ("secret" when redaction   *)
(* would change it) and what is odd in its other fields: an infinite line  *)
(* number, or an `evidence` that is no list.                               *)
(***************************************************************************)
EXTENDS Naturals, Sequences, FiniteSets, SequencesExt

CONSTANTS
  Setups,      \* command lines, with the project and the machine they meet
  Answers,     \* sequences of suggestions a judge may give
  GraphFacts,  \* facts the session's retrieval finds for the concern
  MaxEntries   \* entry points the fallback reads

Suggestion == [fact : STRING, title : {"plain", "secret", "masked"}, odd : {"nothing", "line", "evidence"}]

ASSUME PipelineAssumption ==
  /\ MaxEntries > 0
  /\ Answers \subseteq Seq(Suggestion)

VARIABLES
  audit,   \* the setup of this audit
  stage,   \* the stage to run next, or how the command ended
  clone,   \* its temporary checkout: "none", "made" or "gone"
  proven,  \* facts of session.result.findings, in their order
  review,  \* strategy, evidence pack, verifier and the debate's result
  kept     \* the trajectory, its staging, and the report file
auditVars == <<audit, stage, clone, proven, review, kept>>

NoReview == [strategy |-> "none", pack |-> {}, verifier |-> FALSE, context |-> {}, given |-> <<>>,
             suggestions |-> <<>>, labelled |-> FALSE, patched |-> FALSE, result |-> "none", report |-> {}]
NothingKept == [trajectory |-> <<>>, staged |-> FALSE, output |-> "none"]

PipelineInit ==
  /\ audit = [mode |-> "none"] /\ stage = "start" /\ clone = "none" /\ proven = <<>>
  /\ review = NoReview /\ kept = NothingKept

Ended == {"done", "exit 1", "raised", "raised while recording"}
Chosen(setup) == stage = "start" /\ stage' = "checkout" /\ audit' = setup /\ UNCHANGED <<clone, proven, review, kept>>

\* A clone that fails removes its directory; a good one is removed at exit.
GoesTo(next) == stage' = next /\ clone' = IF next \in Ended /\ clone = "made" THEN "gone" ELSE clone
Skips(next)  == GoesTo(next) /\ UNCHANGED <<audit, proven, review, kept>>
Reviews(new, next) == GoesTo(next) /\ review' = new /\ UNCHANGED <<audit, proven, kept>>

-----------------------------------------------------------------------------
ResolveProject ==
  /\ stage = "checkout" /\ UNCHANGED <<audit, proven, review, kept>>
  /\ \/ audit.input \in {"directory", "filesystem root"} /\ stage' = "session" /\ UNCHANGED clone
     \/ audit.input = "git" /\ stage' = "session" /\ clone' = "made"
     \/ audit.input = "git" /\ stage' = "exit 1" /\ clone' = "gone"   \* git failed, timed out or is missing
     \/ audit.input = "nothing" /\ stage' = "exit 1" /\ UNCHANGED clone

Analyzed(ir) == IF ir = "full" THEN <<"rule">> ELSE <<>>
(* The wizard wants a key; it also shows what a model makes of the README. *)
RunSession ==
  /\ stage = "session"
  /\ \/ audit.mode = "wizard" /\ ~audit.key /\ Skips("exit 1")
     \/ /\ audit.mode = "quick" \/ audit.key
        /\ \/ audit.ir = "no fingerprint" /\ Skips(IF audit.mode = "wizard" THEN "exit 1" ELSE "done")
           \/ /\ audit.ir # "no fingerprint" /\ GoesTo("route") /\ UNCHANGED <<audit, review, kept>>
              /\ proven' = Analyzed(audit.ir)

AfterReview == IF audit.mode = "wizard" THEN "output" ELSE IF audit.key THEN "signature" ELSE "trajectory"

Route ==
  /\ stage = "route"
  /\ \/ audit.ir # "full" /\ ~audit.key /\ Skips("trajectory")              \* no key, nothing to fall back to
     \/ audit.ir # "full" /\ audit.key /\ Skips("fallback")
     \/ audit.ir = "full" /\ audit.key /\ Skips("reader")
     \/ audit.ir = "full" /\ ~audit.key /\ Reviews([review EXCEPT !.result = "session"], "trajectory")

(* The debate's answer is grounded: it cites facts of its pack only.  With *)
(* none of them there is no suggestion, whether the model is asked or not. *)
Grounded(pack) == {a \in Answers : \A i \in DOMAIN a : a[i].fact \in pack}

EntryFacts == {audit.entries[i].file : i \in {j \in DOMAIN audit.entries : j <= MaxEntries /\ audit.entries[j].readable}}
FallbackPack == EntryFacts \cup (IF audit.readme = "readable" THEN {"readme"} ELSE {})
Fallback ==
  /\ stage = "fallback"
  /\ \E a \in Grounded(FallbackPack) :
       Reviews([review EXCEPT !.pack = FallbackPack, !.context = {"source"}, !.given = a, !.suggestions = a, !.result = "debate"],
               AfterReview)

-----------------------------------------------------------------------------
ReadProject ==
  /\ stage = "reader" /\ GoesTo("strategy") /\ UNCHANGED <<audit, review, kept>>
  /\ proven' \in {proven, Append(proven, "protocol")}

Strategies == {"performance_analysis", "correctness_audit", "architecture_review", "security_scan"}
              \cup (IF audit.hot THEN {"hotspot_analysis"} ELSE {})
FallbackStrategy ==
  CASE audit.concern = "design" -> "architecture_review"
    [] audit.concern = "security" -> "security_scan"
    [] audit.concern = "slow" -> "performance_analysis"
    [] OTHER -> "correctness_audit"
(* The answer may be unreadable, no name, or a name that was not offered.  *)
ChooseStrategy ==
  /\ stage = "strategy"
  /\ \E candidate \in {"", "hotspot_analysis", "security_scan", "invented"} :
       Reviews([review EXCEPT !.strategy = IF candidate \in Strategies THEN candidate ELSE FallbackStrategy], "retrieve")

Retrieve ==
  /\ stage = "retrieve"
  /\ Reviews([review EXCEPT !.pack = GraphFacts \cup ToSet(proven), !.context = {"graph", "pack"}], "tools")

Succeeds == {TRUE, FALSE}
RunTools ==
  /\ stage = "tools"
  /\ \E done \in Succeeds :
       Reviews(IF done THEN [review EXCEPT !.context = @ \cup {"tools"}] ELSE review, "verifier")
MakeVerifier ==
  /\ stage = "verifier"
  /\ \E made \in IF audit.verify THEN Succeeds ELSE {FALSE} : Reviews([review EXCEPT !.verifier = made], "debate")

HasOdd(suggestions, what) == \E i \in DOMAIN suggestions : suggestions[i].odd = what
Sharded == audit.workers > 1
RunReview ==
  /\ stage = "debate"
  /\ \E a \in Grounded(review.pack) :
       \/ Sharded /\ HasOdd(a, "line") /\ Reviews([review EXCEPT !.given = a], "raised")   \* merging reads line numbers
       \/ /\ ~(Sharded /\ HasOdd(a, "line"))
          /\ Reviews([review EXCEPT !.given = a, !.suggestions = a, !.result = "debate",
                                    !.report = IF Sharded THEN {"shards"} ELSE {}], "adjudicate")

(* Views and decisions come before the first label: one suggestion that    *)
(* cannot be viewed leaves all of them unlabelled.                         *)
Adjudicate ==
  /\ stage = "adjudicate"
  /\ \E done \in IF HasOdd(review.suggestions, "line") THEN {FALSE} ELSE Succeeds :
       Reviews([review EXCEPT !.labelled = done /\ review.suggestions # <<>>], "merge")
MergeReport == stage = "merge" /\ Reviews([review EXCEPT !.report = {"session"} \cup @], "stats")
Stats == stage = "stats" /\ Skips("sandbox")
\* A bug: the list is emptied before the patches are tried.
SandboxReplacesFirst ==
  /\ stage = "sandbox"
  /\ \E done \in IF audit.sandbox /\ review.suggestions # <<>> THEN Succeeds ELSE {FALSE} :
       Reviews([review EXCEPT !.patched = done, !.suggestions = IF audit.sandbox /\ ~done THEN <<>> ELSE @], AfterReview)
Sandbox ==
  /\ stage = "sandbox"
  /\ \E done \in IF audit.sandbox /\ review.suggestions # <<>> THEN Succeeds ELSE {FALSE} :
       Reviews([review EXCEPT !.patched = done], AfterReview)

-----------------------------------------------------------------------------
(* suggestion_signature and summarize_trials, before anything is saved.    *)
Summarize ==
  /\ stage = "signature"
  /\ \/ HasOdd(review.suggestions, "line") /\ Skips("raised")
     \/ ~HasOdd(review.suggestions, "line") /\ Reviews([review EXCEPT !.report = @ \cup {"trials"}], "feedback")

Reordered(s) == {[i \in DOMAIN s |-> s[p[i]]] : p \in {q \in [DOMAIN s -> DOMAIN s] : \A i, j \in DOMAIN s : q[i] = q[j] => i = j}}
(* The events are read first; bytes that are no UTF-8 are not caught.      *)
RankByFeedback ==
  /\ stage = "feedback"
  /\ \/ audit.feedback = "none" /\ Skips("trajectory")
     \/ audit.feedback = "undecodable" /\ Skips("raised")
     \/ /\ audit.feedback = "usable"
        /\ \E order \in Reordered(review.suggestions) :
             Reviews([review EXCEPT !.suggestions = order, !.report = @ \cup {"feedback"}], "trajectory")

(* build_trajectory: findings of the review, or else the session's; then   *)
(* redaction, and the signature of what it leaves.                         *)
Rows(s) == [i \in DOMAIN s |-> [fact |-> s[i].fact, title |-> s[i].title]]
Deterministic == [i \in DOMAIN proven |-> [fact |-> proven[i], title |-> "plain"]]
Findings == IF review.result = "debate" /\ review.suggestions # <<>> THEN Rows(review.suggestions) ELSE Deterministic
Redacted(s) == [i \in DOMAIN s |-> [s[i] EXCEPT !.title = IF @ = "secret" THEN "masked" ELSE @]]
Signature(s) == [f \in ToSet(s) |-> Cardinality({i \in DOMAIN s : s[i] = f})]
AnalysisSummary == review.report \cap {"shards", "feedback"}
Named == audit.input # "filesystem root"   \* "/" has no last component
Document ==
  LET findings == Redacted(Findings) IN
  [named |-> Named, findings |-> findings, signature |-> Signature(findings),
   deterministic |-> Redacted(Deterministic), analysis |-> AnalysisSummary]
Valid(document) == document.named /\ document.signature = Signature(document.findings)

Builds == ~HasOdd(review.suggestions, "evidence") \/ review.result # "debate"
RecordTrajectory ==
  /\ stage = "trajectory"
  /\ \/ ~audit.save /\ Skips("output")
     \/ audit.save /\ ~Builds /\ Skips("raised while recording")
     \/ /\ audit.save /\ Builds /\ GoesTo("output") /\ UNCHANGED <<audit, proven, review>>
        /\ \E written \in IF Valid(Document) THEN Succeeds ELSE {FALSE} :
           \E staged \in IF written /\ Document.findings # <<>> THEN Succeeds ELSE {FALSE} :
             kept' = IF written THEN [kept EXCEPT !.trajectory = <<Document>>, !.staged = staged] ELSE kept

(* The report is renamed into place: a failure leaves no half of it.       *)
SaveOutput ==
  /\ stage = "output" /\ UNCHANGED <<audit, proven, review>>
  /\ \/ (audit.output = "none" \/ review.result = "none") /\ GoesTo("done") /\ UNCHANGED kept
     \/ /\ audit.output # "none" /\ review.result # "none"
        /\ \/ audit.output = "file" /\ GoesTo("done") /\ kept' = [kept EXCEPT !.output = review.result]
           \/ GoesTo("exit 1") /\ UNCHANGED kept

PipelineNext ==
  \/ \E setup \in Setups : Chosen(setup)
  \/ ResolveProject \/ RunSession \/ Route \/ Fallback \/ ReadProject \/ ChooseStrategy \/ Retrieve \/ RunTools
  \/ MakeVerifier \/ RunReview \/ Adjudicate \/ MergeReport \/ Stats \/ Sandbox \/ Summarize \/ RankByFeedback
  \/ RecordTrajectory \/ SaveOutput
PipelineSpec == PipelineInit /\ [][PipelineNext]_auditVars
PipelineEnd == stage \in Ended

-----------------------------------------------------------------------------
(* Whatever the optional stages do, the suggestions of a review are those  *)
(* the command returns and saves, in their order unless feedback priors    *)
(* were asked for, and none is labelled unless all are; the strategy is    *)
(* one that was offered; only an odd suggestion, or a feedback file that   *)
(* was asked for and cannot be decoded, ends an audit half-way; and a      *)
(* temporary checkout does not outlive the command.                        *)
AuditIsKept ==
  /\ PipelineEnd => clone # "made"
  /\ review.strategy = "none" \/ review.strategy \in Strategies
  /\ stage = "raised" => HasOdd(review.given, "line") \/ audit.feedback = "undecodable"
  /\ stage = "raised while recording" => HasOdd(review.given, "evidence")
  /\ review.result = "debate" =>
       /\ Signature(review.suggestions) = Signature(review.given)
       /\ audit.feedback = "usable" \/ review.suggestions = review.given
       /\ \A i \in DOMAIN review.given : review.given[i].fact \in review.pack
  /\ stage = "done" /\ audit.key /\ audit.ir # "no fingerprint" =>
       review.result = "debate" /\ (audit.output = "file" => kept.output = "debate")

(* The store never refuses the document built for it, except for a project *)
(* without a name; a saved trajectory holds the returned suggestions in    *)
(* their order, or the session's findings where there is none, and no      *)
(* secret; and nobody is asked for consent to what was not saved.          *)
RecordIsTheAudit ==
  /\ stage = "trajectory" /\ Builds /\ Named => Valid(Document)
  /\ \A i \in DOMAIN kept.trajectory :
       LET saved == kept.trajectory[i].findings IN
       /\ IF review.result = "debate" /\ review.given # <<>>
          THEN /\ Len(saved) = Len(review.suggestions)
               /\ \A n \in DOMAIN saved : saved[n].fact = review.suggestions[n].fact
          ELSE saved = Deterministic
       /\ \A n \in DOMAIN saved : saved[n].title # "secret"
  /\ kept.staged => kept.trajectory # <<>>

(* Whichever optional stage of an audit failed (cli/phases.py), its report *)
(* holds what the review gave, and the recorded trajectory (build.py) is   *)
(* that report with its secrets removed.                                   *)
AuditIsAccounted == AuditIsKept /\ RecordIsTheAudit

(* "Persist a redacted trajectory; never fail the audit because of it."    *)
(* (cli/phases.py, _record_trajectory.)                                    *)
RecordingNeverFailsTheAudit == stage # "raised while recording"

=============================================================================
