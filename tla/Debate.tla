------------------------------- MODULE Debate -------------------------------
(***************************************************************************)
(* DebateEngine.debate (engine/debate.py): Proposer, Critique and Judge    *)
(* are three calls of a language model whose answers are arbitrary.  The   *)
(* engine retries each role, drops the suggestions that cite no fact of    *)
(* the evidence pack, lets a verifier annotate the rest, and decides which *)
(* suggestions become findings and which stay unreviewed hypotheses.       *)
(*                                                                         *)
(* A suggestion is abstracted to the identifiers it cites and to whether   *)
(* the verifier annotated it; a list of suggestions to the set of them.    *)
(***************************************************************************)
EXTENDS Naturals

CONSTANTS FactIds,          \* identifiers of the facts of the evidence pack
          OtherIds,         \* hypothesis identifiers and invented ones
          MaxCallAttempts   \* attempts per role

ASSUME DebateAssumption ==
  /\ FactIds \cap OtherIds = {}
  /\ MaxCallAttempts \in Nat \ {0}

Policies == {"optional", "required", "exclusive"}
Roles    == {"proposer", "critique", "judge"}
Suggestion == [cites : SUBSET (FactIds \cup OtherIds), checked : BOOLEAN]

VARIABLES
  policy, hasPack, hasVerifier,   \* how the engine was built and called
  stage,          \* the next step of debate()
  attempt,        \* failed calls of the current role
  proposals,      \* proposer_json["proposals"]
  judged,         \* judge_json["final_suggestions"], verified
  answered,       \* the roles that returned their JSON schema
  checkFailed,    \* the verifier raised on the final suggestions (logged)
  final, unreviewed, unreviewedSource, reviewStatus, consensus

config   == <<policy, hasPack, hasVerifier>>
result   == <<final, unreviewed, unreviewedSource, reviewStatus, consensus>>
vars     == <<config, stage, attempt, proposals, judged, answered, checkFailed,
              result>>

Gated == hasPack /\ policy # "optional"

GroundedItemsAnyFact(items) == {s \in items : s.cites \cap FactIds # {}}

(* _grounded_items: keep what cites something, and only facts of the pack. *)
GroundedItems(items) ==
  {s \in items : s.cites # {} /\ s.cites \subseteq FactIds}

Gate(items) == IF Gated THEN GroundedItems(items) ELSE items

(* What a model may answer: new suggestions, which no verifier annotated.  *)
Answers == SUBSET {s \in Suggestion : ~s.checked}

Annotated(items) == {[s EXCEPT !.checked = TRUE] : s \in items}

Init ==
  /\ policy \in Policies
  /\ hasPack \in BOOLEAN
  /\ hasVerifier \in BOOLEAN
  /\ stage = "start"
  /\ attempt = 0
  /\ proposals = {} /\ judged = {} /\ answered = {}
  /\ checkFailed = FALSE
  /\ final = {} /\ unreviewed = {} /\ unreviewedSource = ""
  /\ reviewStatus = "not_started" /\ consensus = FALSE

(* A policy that needs evidence refuses a debate without a pack.           *)
Start ==
  /\ stage = "start"
  /\ stage' = IF ~hasPack /\ policy # "optional" THEN "raised" ELSE "proposer"
  /\ UNCHANGED <<config, attempt, proposals, judged, answered, checkFailed, result>>

(* Where the debate goes when a role has used up its attempts.             *)
AfterFailure(role) == CASE role = "proposer" -> "abandon"
                        [] role = "critique" -> "judge"
                        [] role = "judge"    -> "finish"

RoleFailsForever(role) ==
  /\ stage = role
  /\ attempt' = IF attempt + 1 < MaxCallAttempts THEN attempt + 1 ELSE 0
  /\ UNCHANGED <<config, stage, proposals, judged, answered, checkFailed, result>>

(* One attempt of _safe_json_call that ends in an exception, an empty      *)
(* response or JSON of the wrong shape.                                    *)
RoleFails(role) ==
  /\ stage = role
  /\ IF attempt + 1 < MaxCallAttempts
       THEN attempt' = attempt + 1 /\ UNCHANGED stage
       ELSE attempt' = 0 /\ stage' = AfterFailure(role)
  /\ UNCHANGED <<config, proposals, judged, answered, checkFailed, result>>

(* Round 1 succeeds: its proposals pass the gate before anyone sees them.  *)
ProposerAnswers ==
  /\ stage = "proposer"
  /\ \E items \in Answers : proposals' = Gate(items)
  /\ attempt' = 0
  /\ answered' = answered \cup {"proposer"}
  /\ stage' = IF hasVerifier THEN "verify_proposals" ELSE "critique"
  /\ UNCHANGED <<config, judged, checkFailed, result>>

(* Round 1.5: the verifier annotates the proposals in place; when it       *)
(* raises, some of them already carry the annotation.                      *)
VerifyProposals ==
  /\ stage = "verify_proposals"
  /\ \E done \in SUBSET proposals :
       proposals' = Annotated(done) \cup (proposals \ done)
  /\ stage' = "critique"
  /\ UNCHANGED <<config, attempt, judged, answered, checkFailed, result>>

(* Rounds 2 and 2.5: no verdict of the critique decides anything by itself *)
(* and verify_critique only annotates; what counts is that it answered.    *)
CritiqueAnswers ==
  /\ stage = "critique"
  /\ attempt' = 0
  /\ answered' = answered \cup {"critique"}
  /\ stage' = "judge"
  /\ UNCHANGED <<config, proposals, judged, checkFailed, result>>

(* Round 3 and its verification pass: on an exception the annotations made *)
(* so far stay, and the failure is logged.                                 *)
JudgeAnswers ==
  /\ stage = "judge"
  /\ \E items \in Answers :
       IF hasVerifier /\ items # {}
         THEN \/ judged' = Annotated(items) /\ UNCHANGED checkFailed
              \/ /\ checkFailed' = TRUE
                 /\ \E done \in SUBSET items :
                      judged' = Annotated(done) \cup (items \ done)
         ELSE judged' = items /\ UNCHANGED checkFailed
  /\ attempt' = 0
  /\ answered' = answered \cup {"judge"}
  /\ stage' = "finish"
  /\ UNCHANGED <<config, proposals, result>>

(* The Proposer never produced its schema: the debate ends there.          *)
Abandon ==
  /\ stage = "abandon"
  /\ reviewStatus' = "failed"
  /\ stage' = "done"
  /\ UNCHANGED <<config, attempt, proposals, judged, answered, checkFailed,
                 final, unreviewed, unreviewedSource, consensus>>

PromoteWithoutCritique == IF "judge" \in answered THEN judged ELSE {}

(* Only a judged suggestion of a debate whose critique answered is a       *)
(* finding; anything else is kept for audit.                               *)
Promoted == IF {"judge", "critique"} \subseteq answered THEN judged ELSE {}

Hypotheses == CASE "judge" \notin answered    -> proposals
                [] "critique" \notin answered -> judged
                [] OTHER                      -> {}

HypothesisSource == CASE "judge" \notin answered    -> "proposer"
                      [] "critique" \notin answered -> "judge"
                      [] OTHER                      -> ""

FinishTrustingJudge ==
  /\ stage = "finish"
  /\ final' = Promoted
  /\ unreviewed' = Gate(Hypotheses)
  /\ unreviewedSource' = HypothesisSource
  /\ reviewStatus' = IF Roles \subseteq answered THEN "complete" ELSE "partial"
  /\ consensus' = (reviewStatus' = "complete")
  /\ stage' = "done"
  /\ UNCHANGED <<config, attempt, proposals, judged, answered, checkFailed>>

Finish ==
  /\ stage = "finish"
  /\ final' = Gate(Promoted)
  /\ unreviewed' = Gate(Hypotheses)
  /\ unreviewedSource' = HypothesisSource
  /\ reviewStatus' = IF Roles \subseteq answered THEN "complete" ELSE "partial"
  /\ consensus' = (reviewStatus' = "complete")
  /\ stage' = "done"
  /\ UNCHANGED <<config, attempt, proposals, judged, answered, checkFailed>>

Next ==
  \/ Start
  \/ \E role \in Roles : RoleFails(role)
  \/ ProposerAnswers \/ VerifyProposals \/ CritiqueAnswers \/ JudgeAnswers
  \/ Abandon \/ Finish

Spec == Init /\ [][Next]_vars

(* debate() is one thread running to its return; the client it calls       *)
(* returns within its own deadline (LLMClient), so no step is postponed    *)
(* for ever.                                                               *)
FairSpec == Spec /\ WF_vars(Next)

-----------------------------------------------------------------------------
(* The variables of debate() have their shapes, and no role is asked beyond*)
(* its last attempt (debate.py:448).                                       *)
TypeOK ==
  /\ policy \in Policies /\ hasPack \in BOOLEAN /\ hasVerifier \in BOOLEAN
  /\ stage \in Roles \cup {"start", "verify_proposals", "abandon", "finish",
                           "done", "raised"}
  /\ attempt \in 0 .. MaxCallAttempts - 1
  /\ proposals \in SUBSET Suggestion /\ judged \in SUBSET Suggestion
  /\ answered \in SUBSET Roles
  /\ checkFailed \in BOOLEAN
  /\ final \in SUBSET Suggestion /\ unreviewed \in SUBSET Suggestion
  /\ unreviewedSource \in {"", "proposer", "judge"}
  /\ reviewStatus \in {"not_started", "failed", "partial", "complete"}
  /\ consensus \in BOOLEAN

Supported(s) == s.cites # {} /\ s.cites \subseteq FactIds

(* Every suggestion the report carries, finding or hypothesis, cites at    *)
(* least one fact and nothing but facts of the pack (debate.py:322-335).   *)
ReportIsGrounded == \A s \in final \cup unreviewed : Supported(s)

(* Critique and Judge are prompted with the proposals (debate.py:233,273). *)
PromptsAreGrounded ==
  stage \in {"critique", "judge", "finish"} => \A s \in proposals : Supported(s)

(* The evidence gate: under a policy that needs evidence, an unsupported   *)
(* claim reaches neither the other roles nor the report, whatever the      *)
(* verifier did to the list in between.                                    *)
EvidenceGate == policy # "optional" => ReportIsGrounded /\ PromptsAreGrounded

ReviewIsComplete ==
  final # {} => /\ consensus /\ reviewStatus = "complete" /\ answered = Roles
                /\ unreviewed = {}

UncheckedFindingIsLogged ==
  hasVerifier /\ (\E s \in final : ~s.checked) => checkFailed

(* A suggestion is a finding only if the three roles all returned their    *)
(* schema (debate.py:311-320), and a report that has findings never keeps  *)
(* hypotheses beside them; a finding that the verifier there is has not    *)
(* annotated is explained by a logged failure of it (debate.py:300-310).   *)
FindingsAreReviewed == ReviewIsComplete /\ UncheckedFindingIsLogged

(* Every debate returns or refuses its arguments, however often the model  *)
(* fails (debate.py:448).                                                  *)
DebateReturns == <>(stage \in {"done", "raised"})

-----------------------------------------------------------------------------
(* The debate implements the contract: the report appears in one step.     *)
Contract == INSTANCE ReviewContract WITH
  Suggestions <- Suggestion,
  phase       <- IF stage = "done" THEN "closed" ELSE "reviewing",
  acceptable  <- {s \in Suggestion : Gate({s}) = {s}},
  published   <- final,
  reviewed    <- consensus

(* Whatever the model answers, the report obeys the review contract.       *)
ImplementsContract == Contract!ContractSpec

=============================================================================
