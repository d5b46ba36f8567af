---------------------------- MODULE DebateProofs ----------------------------
(***************************************************************************)
(* Proofs about Debate, for every set of facts, of other identifiers and   *)
(* every number of attempts, by one inductive invariant, and about the     *)
(* verifier of its proposals (Claims), for every project, every proposals  *)
(* and every change of the disk meanwhile, by another.                     *)
(***************************************************************************)
EXTENDS Debate, Claims, Lists, SequenceTheorems, TLAPS

ReportGated == policy # "optional" => ReportIsGrounded

(* The proposals were gated, the pack is there, the Proposer answered.     *)
ProposalsGated == policy # "optional" => \A s \in proposals : Supported(s)

PackWhenNeeded ==
  stage \notin {"start", "raised"} /\ policy # "optional" => hasPack

ProposerFirst ==
  stage \in {"verify_proposals", "critique", "judge", "finish"} =>
    "proposer" \in answered

(* Only the last step writes the result.                                   *)
ResultIsLast ==
  stage # "done" => final = {} /\ unreviewed = {} /\ ~consensus

JudgedAnnotated ==
  hasVerifier /\ (\E s \in judged : ~s.checked) => checkFailed

IInv ==
  /\ TypeOK
  /\ ProposalsGated /\ PackWhenNeeded /\ ProposerFirst /\ ResultIsLast
  /\ JudgedAnnotated
  /\ ReportGated /\ ReviewIsComplete /\ UncheckedFindingIsLogged

-----------------------------------------------------------------------------
(* The counter of attempts may be zero, and counts up to its bound.        *)
LEMMA AttemptRange ==
  /\ 0 \in 0 .. MaxCallAttempts - 1
  /\ \A n \in 0 .. MaxCallAttempts - 1 :
       n + 1 < MaxCallAttempts => n + 1 \in 0 .. MaxCallAttempts - 1
<1> MaxCallAttempts \in Nat \ {0}
  BY DebateAssumption
<1> QED OBVIOUS

(* Annotating suggestions keeps them suggestions, and keeps what they cite *)
(* (cross_checker.py:118 adds one key to each).                            *)
LEMMA AnnotatedKeeps ==
  ASSUME NEW items \in SUBSET Suggestion
  PROVE  /\ Annotated(items) \in SUBSET Suggestion
         /\ \A s \in Annotated(items) : s.checked
         /\ (\A s \in items : Supported(s)) => \A s \in Annotated(items) : Supported(s)
<1> QED BY DEF Annotated, Suggestion, Supported

(* What the gate lets through is a part of its input, and supported.       *)
LEMMA GateFilters ==
  ASSUME NEW items \in SUBSET Suggestion
  PROVE  /\ Gate(items) \subseteq items
         /\ Gated => \A s \in Gate(items) : Supported(s)
<1> QED BY DEF Gate, GroundedItems, Supported

(* A debate starts with nothing proposed, judged or reported.              *)
LEMMA InitIInv == Init => IInv
<1> SUFFICES ASSUME Init PROVE IInv
  OBVIOUS
<1>1. TypeOK
  <2>1. attempt \in 0 .. MaxCallAttempts - 1
    BY AttemptRange DEF Init
  <2>2. policy \in Policies /\ stage \in Roles \cup {"start"}
    BY DEF Init
  <2> QED BY <2>1, <2>2 DEF Init, TypeOK
<1>2. ProposalsGated /\ PackWhenNeeded /\ ProposerFirst /\ ResultIsLast /\ JudgedAnnotated
  BY DEF Init, ProposalsGated, PackWhenNeeded, ProposerFirst, ResultIsLast, JudgedAnnotated
<1>3. ReportGated /\ ReviewIsComplete /\ UncheckedFindingIsLogged
  BY DEF Init, ReportGated, ReportIsGrounded, ReviewIsComplete, UncheckedFindingIsLogged
<1> QED BY <1>1, <1>2, <1>3 DEF IInv

-----------------------------------------------------------------------------
(* A step keeps the types.                                                 *)
LEMMA StepTypes == TypeOK /\ Next => TypeOK'
<1> SUFFICES ASSUME TypeOK, Next PROVE TypeOK'
  OBVIOUS
<1> USE AttemptRange DEF TypeOK, config, result
<1>1. CASE Start
  BY <1>1 DEF Start, Roles
<1>2. ASSUME NEW role \in Roles, RoleFails(role) PROVE TypeOK'
  BY <1>2 DEF RoleFails, AfterFailure, Roles
<1>3. CASE ProposerAnswers
  <2> PICK items \in Answers : proposals' = Gate(items)
    BY <1>3 DEF ProposerAnswers
  <2> items \in SUBSET Suggestion
    BY DEF Answers
  <2> proposals' \in SUBSET Suggestion
    BY GateFilters
  <2> QED BY <1>3 DEF ProposerAnswers, Roles
<1>4. CASE VerifyProposals
  <2> PICK done \in SUBSET proposals : proposals' = Annotated(done) \cup (proposals \ done)
    BY <1>4 DEF VerifyProposals
  <2> proposals' \in SUBSET Suggestion
    BY AnnotatedKeeps
  <2> QED BY <1>4 DEF VerifyProposals, Roles
<1>5. CASE CritiqueAnswers
  BY <1>5 DEF CritiqueAnswers, Roles
<1>6. CASE JudgeAnswers
  <2>1. judged' \in SUBSET Suggestion
    <3> PICK items \in Answers :
          \/ judged' = Annotated(items)
          \/ \E done \in SUBSET items : judged' = Annotated(done) \cup (items \ done)
          \/ judged' = items
      BY <1>6 DEF JudgeAnswers
    <3> items \in SUBSET Suggestion
      BY DEF Answers
    <3> QED BY AnnotatedKeeps
  <2>2. checkFailed' \in BOOLEAN
    BY <1>6 DEF JudgeAnswers
  <2> QED BY <1>6, <2>1, <2>2 DEF JudgeAnswers, Roles
<1>7. CASE Abandon
  BY <1>7 DEF Abandon
<1>8. CASE Finish
  <2> Promoted \in SUBSET Suggestion /\ Hypotheses \in SUBSET Suggestion
    BY DEF Promoted, Hypotheses
  <2>1. final' \in SUBSET Suggestion /\ unreviewed' \in SUBSET Suggestion
    BY <1>8, GateFilters DEF Finish
  <2>2. unreviewedSource' \in {"", "proposer", "judge"}
    BY <1>8 DEF Finish, HypothesisSource
  <2>3. reviewStatus' \in {"complete", "partial"} /\ consensus' \in BOOLEAN
    BY <1>8 DEF Finish
  <2> QED BY <1>8, <2>1, <2>2, <2>3 DEF Finish
<1> QED BY <1>1, <1>2, <1>3, <1>4, <1>5, <1>6, <1>7, <1>8 DEF Next

-----------------------------------------------------------------------------
(* A step keeps the rest of the invariant.  Three groups of conjuncts: what *)
(* the proposals are, what the judged suggestions are, what the report is.  *)
ProposalPart == ProposalsGated /\ PackWhenNeeded /\ ProposerFirst
ReportPart   == ResultIsLast /\ ReportGated /\ ReviewIsComplete

(* A step keeps the proposals grounded and the roles in their order        *)
(* (debate.py:150-296).                                                    *)
LEMMA StepProposalPart == TypeOK /\ ProposalPart /\ Next => ProposalPart'
<1> SUFFICES ASSUME TypeOK, ProposalPart, Next PROVE ProposalPart'
  OBVIOUS
<1> USE DEF ProposalPart, ProposalsGated, PackWhenNeeded, ProposerFirst, config, result
<1>1. CASE Start
  BY <1>1 DEF Start, TypeOK
<1>2. ASSUME NEW role \in Roles, RoleFails(role) PROVE ProposalPart'
  BY <1>2 DEF RoleFails, AfterFailure, Roles
<1>3. CASE ProposerAnswers
  <2> PICK items \in Answers : proposals' = Gate(items)
    BY <1>3 DEF ProposerAnswers
  <2> items \in SUBSET Suggestion
    BY DEF Answers
  <2>1. policy # "optional" => Gated
    BY <1>3 DEF ProposerAnswers, Gated
  <2>2. ProposalsGated'
    BY <1>3, <2>1, GateFilters DEF ProposerAnswers, Supported
  <2>3. PackWhenNeeded' /\ ProposerFirst'
    BY <1>3 DEF ProposerAnswers
  <2> QED BY <2>2, <2>3
<1>4. CASE VerifyProposals
  <2> PICK done \in SUBSET proposals : proposals' = Annotated(done) \cup (proposals \ done)
    BY <1>4 DEF VerifyProposals
  <2> done \in SUBSET Suggestion
    BY DEF TypeOK
  <2>1. ProposalsGated'
    BY <1>4, AnnotatedKeeps DEF VerifyProposals, Supported
  <2>2. PackWhenNeeded' /\ ProposerFirst'
    BY <1>4 DEF VerifyProposals
  <2> QED BY <2>1, <2>2
<1>5. CASE CritiqueAnswers
  BY <1>5 DEF CritiqueAnswers, Supported
<1>6. CASE JudgeAnswers
  BY <1>6 DEF JudgeAnswers, Supported
<1>7. CASE Abandon
  BY <1>7 DEF Abandon, Supported
<1>8. CASE Finish
  BY <1>8 DEF Finish, Supported
<1> QED BY <1>1, <1>2, <1>3, <1>4, <1>5, <1>6, <1>7, <1>8 DEF Next

(* What the Judge accepted stays annotated, or its failure logged          *)
(* (debate.py:298-310).                                                    *)
LEMMA StepJudged == TypeOK /\ JudgedAnnotated /\ Next => JudgedAnnotated'
<1> SUFFICES ASSUME TypeOK, JudgedAnnotated, Next PROVE JudgedAnnotated'
  OBVIOUS
<1> USE DEF JudgedAnnotated, config, result
<1>1. CASE JudgeAnswers
  <2>1. PICK items \in Answers :
          IF hasVerifier /\ items # {}
            THEN \/ judged' = Annotated(items) /\ UNCHANGED checkFailed
                 \/ /\ checkFailed' = TRUE
                    /\ \E done \in SUBSET items :
                         judged' = Annotated(done) \cup (items \ done)
            ELSE judged' = items /\ UNCHANGED checkFailed
    BY <1>1 DEF JudgeAnswers
  <2> items \in SUBSET Suggestion
    BY DEF Answers
  <2>2. hasVerifier' = hasVerifier
    BY <1>1 DEF JudgeAnswers
  <2>3. CASE hasVerifier /\ judged' = Annotated(items)
    BY <2>3, AnnotatedKeeps
  <2>4. CASE checkFailed'
    BY <2>4
  <2>5. CASE hasVerifier /\ items = {} /\ judged' = items
    BY <2>5
  <2>6. CASE ~hasVerifier
    BY <2>2, <2>6
  <2> QED BY <2>1, <2>3, <2>4, <2>5, <2>6
<1>2. CASE ~JudgeAnswers
  <2>1. UNCHANGED <<hasVerifier, judged, checkFailed>>
    BY <1>2 DEF Next, Start, RoleFails, ProposerAnswers, VerifyProposals,
                CritiqueAnswers, Abandon, Finish
  <2> QED BY <2>1
<1> QED BY <1>1, <1>2

(* The report obeys the evidence gate and the review rule when it appears, *)
(* and does not change afterwards (debate.py:311-347).                     *)
LEMMA StepReport ==
  TypeOK /\ ProposalPart /\ JudgedAnnotated /\ ReportPart /\ UncheckedFindingIsLogged /\ Next
    => ReportPart' /\ UncheckedFindingIsLogged'
<1> SUFFICES ASSUME TypeOK, ProposalPart, JudgedAnnotated, ReportPart,
                    UncheckedFindingIsLogged, Next
             PROVE  ReportPart' /\ UncheckedFindingIsLogged'
  OBVIOUS
<1> USE DEF ReportPart, ResultIsLast, ReportGated, ReportIsGrounded, ReviewIsComplete,
            UncheckedFindingIsLogged, config, result
<1>1. CASE Finish
  <2> Promoted \in SUBSET Suggestion /\ Hypotheses \in SUBSET Suggestion
    BY DEF Promoted, Hypotheses, TypeOK
  <2>1. final' = Gate(Promoted) /\ unreviewed' = Gate(Hypotheses) /\ policy' = policy
    BY <1>1 DEF Finish
  <2>2. policy # "optional" => Gated
    BY <1>1 DEF Finish, ProposalPart, PackWhenNeeded, Gated
  <2>3. ReportGated'
    BY <2>1, <2>2, GateFilters DEF Supported
  <2>4. ASSUME final' # {} PROVE {"judge", "critique"} \subseteq answered
    BY <2>1, <2>4, GateFilters DEF Promoted
  <2>5. "proposer" \in answered
    BY <1>1 DEF Finish, ProposalPart, ProposerFirst
  <2>6. ASSUME final' # {} PROVE answered = Roles /\ Hypotheses = {}
    BY <2>4, <2>5, <2>6 DEF Roles, TypeOK, Hypotheses
  <2>7. ReviewIsComplete'
    <3>1. ASSUME final' # {}
          PROVE  reviewStatus' = "complete" /\ consensus' /\ answered' = Roles
      BY <1>1, <2>6, <3>1 DEF Finish
    <3>2. ASSUME final' # {} PROVE unreviewed' = {}
      BY <2>1, <2>6, <3>2, GateFilters
    <3> QED BY <3>1, <3>2
  <2>8. ResultIsLast'
    BY <1>1 DEF Finish
  <2>9. UncheckedFindingIsLogged'
    <3>1. final' \subseteq judged
      BY <2>1, GateFilters DEF Promoted
    <3>2. hasVerifier' = hasVerifier /\ checkFailed' = checkFailed
      BY <1>1 DEF Finish
    <3> QED BY <3>1, <3>2 DEF JudgedAnnotated
  <2> QED BY <2>3, <2>7, <2>8, <2>9
<1>2. CASE ~Finish
  <2>1. stage # "done" /\ UNCHANGED <<policy, final, unreviewed, consensus>>
    BY <1>2 DEF Next, Start, RoleFails, ProposerAnswers, VerifyProposals,
                CritiqueAnswers, JudgeAnswers, Abandon, Roles
  <2>2. final = {} /\ unreviewed = {} /\ ~consensus
    BY <2>1
  <2>3. final' = {} /\ unreviewed' = {} /\ ~consensus'
    BY <2>1, <2>2
  <2> QED BY <2>3
<1> QED BY <1>1, <1>2

(* The inductive invariant holds in every state of a debate.               *)
THEOREM InvariantHolds == Spec => []IInv
<1>1. IInv /\ [Next]_vars => IInv'
  <2> SUFFICES ASSUME IInv, [Next]_vars PROVE IInv'
    OBVIOUS
  <2>1. CASE Next
    BY <2>1, StepTypes, StepProposalPart, StepJudged, StepReport
       DEF IInv, ProposalPart, ReportPart
  <2>2. CASE UNCHANGED vars
    <3> USE <2>2 DEF vars, config, result
    <3>1. TypeOK'
      BY DEF IInv, TypeOK
    <3>2. ProposalPart' /\ JudgedAnnotated'
      BY DEF IInv, ProposalPart, ProposalsGated, PackWhenNeeded, ProposerFirst,
             JudgedAnnotated, Supported
    <3>3. ReportPart' /\ UncheckedFindingIsLogged'
      BY DEF IInv, ReportPart, ResultIsLast, ReportGated, ReportIsGrounded,
             ReviewIsComplete, UncheckedFindingIsLogged, Supported
    <3> QED BY <3>1, <3>2, <3>3 DEF IInv, ProposalPart, ReportPart
  <2> QED BY <2>1, <2>2
<1> QED BY InitIInv, <1>1, PTL DEF Spec

(* No state of a debate is malformed, whatever the model answers.          *)
THEOREM TypeCorrect == Spec => []TypeOK
<1> IInv => TypeOK
  BY DEF IInv
<1> QED BY InvariantHolds, PTL

(* No ungrounded suggestion is reported, and none is shown to Critique or  *)
(* Judge (debate.py:188-194 and 322-335).                                  *)
THEOREM EvidenceIsEnforced == Spec => []EvidenceGate
<1> IInv => EvidenceGate
  BY DEF IInv, ReportGated, ProposalsGated, PromptsAreGrounded, EvidenceGate
<1> QED BY InvariantHolds, PTL

(* Findings come from complete reviews only (debate.py:311-347), and one   *)
(* the verifier did not annotate has its failure logged (300-310).         *)
THEOREM ReviewIsEnforced == Spec => []FindingsAreReviewed
<1> IInv => FindingsAreReviewed
  BY DEF IInv, FindingsAreReviewed
<1> QED BY InvariantHolds, PTL

-----------------------------------------------------------------------------
(* What the contract accepts does not change while the debate runs.        *)
LEMMA AcceptableIsFixed ==
  ASSUME policy' = policy, hasPack' = hasPack
  PROVE  {s \in Suggestion : Gate({s}) = {s}}' = {s \in Suggestion : Gate({s}) = {s}}
<1> QED BY DEF Gate, Gated, GroundedItems

(* The gate decides on each suggestion by itself (debate.py:322-335).      *)
LEMMA GateIsPointwise ==
  ASSUME NEW items \in SUBSET Suggestion
  PROVE  Gate(items) \subseteq {s \in Suggestion : Gate({s}) = {s}}
<1> QED BY DEF Gate, GroundedItems

(* The report of a debate appears in one step, from no report, and obeys   *)
(* the review contract.                                                    *)
THEOREM DebateImplementsContract == Spec => ImplementsContract
<1>1. Init => Contract!ContractInit
  BY DEF Init, Contract!ContractInit
<1>2. IInv /\ IInv' /\ [Next]_vars => [Contract!Publish]_(Contract!contractVars)
  <2> SUFFICES ASSUME IInv, IInv', [Next]_vars
               PROVE  [Contract!Publish]_(Contract!contractVars)
    OBVIOUS
  <2> USE DEF IInv
  <2>1. CASE Finish
    <3> Promoted \in SUBSET Suggestion
      BY DEF Promoted, TypeOK
    <3>1. final' \subseteq {s \in Suggestion : Gate({s}) = {s}}
      BY <2>1, GateIsPointwise DEF Finish
    <3>2. UNCHANGED <<policy, hasPack>>
      BY <2>1 DEF Finish, config
    <3>3. {s \in Suggestion : Gate({s}) = {s}}' = {s \in Suggestion : Gate({s}) = {s}}
      BY <3>2, AcceptableIsFixed
    <3>4. final' # {} => consensus'
      BY DEF ReviewIsComplete
    <3>5. consensus' \in BOOLEAN
      BY DEF TypeOK
    <3>6. stage = "finish" /\ stage' = "done"
      BY <2>1 DEF Finish
    <3> QED BY <3>1, <3>3, <3>4, <3>5, <3>6 DEF Contract!Publish
  <2>2. CASE ~Finish /\ ~Abandon /\ Next
    <3>1. UNCHANGED <<policy, hasPack, final, consensus>> /\ stage # "done" /\ stage' # "done"
      BY <2>2 DEF Next, Start, RoleFails, ProposerAnswers, VerifyProposals,
                  CritiqueAnswers, JudgeAnswers, AfterFailure, Roles, config, result
    <3> QED BY <3>1, AcceptableIsFixed DEF Contract!contractVars
  <2>3. CASE Abandon
    <3>1. UNCHANGED <<policy, hasPack, final, consensus>> /\ stage = "abandon" /\ stage' = "done"
      BY <2>3 DEF Abandon, config
    <3>2. final = {}
      BY <3>1 DEF ResultIsLast
    <3>3. consensus \in BOOLEAN
      BY DEF TypeOK
    <3> QED BY <3>1, <3>2, <3>3, AcceptableIsFixed DEF Contract!Publish
  <2>4. CASE UNCHANGED vars
    <3>1. UNCHANGED <<policy, hasPack, final, consensus, stage>>
      BY <2>4 DEF vars, config, result
    <3> QED BY <3>1, AcceptableIsFixed DEF Contract!contractVars
  <2> QED BY <2>1, <2>2, <2>3, <2>4
<1> QED BY <1>1, <1>2, InvariantHolds, PTL DEF Spec, Contract!ContractSpec, ImplementsContract

-----------------------------------------------------------------------------
(* -- The verifier.                                                        *)
Statuses    == {"verified", "partial", "unverifiable", "hallucinated"}
ClaimResult == [status : Statuses, confidence : 0 .. 1000, file : SourceFile \cup {NoFile}]

(* What a claim says of the contents h the disk has held and of the files  *)
(* it still has: the truth of a claim, without reference to the state.     *)
LengthsIn(file, h) == {e[2] : e \in {k \in h : k[1] = file}}

OnceIn(claim, h) ==
  CASE claim.kind = "file_location" -> \E n \in LengthsIn(claim.file, h) : FitsLine(claim.line, n)
    [] claim.kind = "call_chain"    -> Len(claim.chain) >= 2 /\ Joined(claim.chain) = 1 .. Len(claim.chain) - 1
    [] claim.kind = "code_pattern"  -> \E n \in Nodes : <<claim.name, n>> \in Within
    [] claim.kind = "resource_type" -> LET es == EvidenceOf(claim.binding)
                                       IN \E i \in DOMAIN es : es[i].close = claim.close
    [] OTHER -> FALSE

AlwaysIn(claim, files, h) ==
  CASE claim.kind = "file_location" -> /\ claim.file \in files
                                       /\ \A n \in LengthsIn(claim.file, h) : FitsLine(claim.line, n)
    [] claim.kind = "resource_type" -> LET es == EvidenceOf(claim.binding)
                                       IN es # <<>> /\ \A i \in DOMAIN es : es[i].close = claim.close
    [] OTHER -> OnceIn(claim, h)

(* A result that its claim has earned.                                     *)
EarnedIn(claim, r, files, h) ==
  /\ r.status = "verified" => OnceIn(claim, h)
  /\ AlwaysIn(claim, files, h) => r.status = "verified" /\ r.confidence >= 900

EarnedAll(claims, rs, files, h) == \A i \in DOMAIN rs : EarnedIn(claims[i], rs[i], files, h)

-----------------------------------------------------------------------------
(* -- The weights of results.                                              *)
Counted(V, m) == Cardinality({i \in V : i <= m})

(* The members of a set of positions, counted up to a position.            *)
LEMMA CountedFacts ==
  ASSUME NEW n \in Nat, NEW V \in SUBSET (1 .. n)
  PROVE  /\ IsFiniteSet(V) /\ Counted(V, 0) = 0 /\ Counted(V, n) = Cardinality(V)
         /\ \A m \in 0 .. n : Counted(V, m) \in Nat
         /\ \A m \in 1 .. n : Counted(V, m) = Counted(V, m - 1) + (IF m \in V THEN 1 ELSE 0)
<1>0. IsFiniteSet(1 .. n) /\ \A i \in V : i \in Int /\ 1 <= i /\ i <= n
  BY FS_Interval
<1>1. IsFiniteSet(V)
  BY <1>0, FS_Subset
<1>2. {i \in V : i <= 0} = {} /\ {i \in V : i <= n} = V
  <2>1. \A i \in V : ~ (i <= 0) /\ i <= n
    BY <1>0
  <2> QED BY <2>1
<1>3. \A m \in 0 .. n : IsFiniteSet({i \in V : i <= m})
  BY <1>1, FS_Subset
<1>4. ASSUME NEW m \in 1 .. n
      PROVE  Counted(V, m) = Counted(V, m - 1) + (IF m \in V THEN 1 ELSE 0)
  <2> DEFINE A == {i \in V : i <= m - 1}
             B == {i \in V : i <= m}
  <2>1. IsFiniteSet(A) /\ m \notin A
    BY <1>1, FS_Subset
  <2>2. CASE m \in V
    <3>1. B = A \cup {m}
      <4>1. \A i \in V : i <= m <=> i <= m - 1 \/ i = m
        BY <1>0
      <4> QED BY <2>2, <4>1
    <3>2. Cardinality(B) = Cardinality(A) + 1
      BY <2>1, <3>1, FS_AddElement
    <3> QED BY <2>2, <3>2 DEF Counted
  <2>3. CASE m \notin V
    <3>1. B = A
      <4>1. \A i \in V : i <= m <=> i <= m - 1 \/ i = m
        BY <1>0
      <4> QED BY <2>3, <4>1
    <3>2. Cardinality(A) \in Nat
      BY <2>1, FS_CardinalityType
    <3> QED BY <2>3, <3>1, <3>2 DEF Counted
  <2> QED BY <2>2, <2>3
<1> QED BY <1>1, <1>2, <1>3, <1>4, FS_CardinalityType, FS_EmptySet DEF Counted

(* What a result may weigh: more than seven tenths only if it is verified. *)
LEMMA WeightIsNatural ==
  ASSUME NEW r \in ClaimResult
  PROVE  /\ Weight(r) \in Nat /\ Weight(r) <= 10000
         /\ r.status # "verified" => Weight(r) <= 7000
         /\ r.status = "verified" /\ r.confidence >= 900 => Weight(r) >= 9000
<1> DEFINE c == r.confidence
           w == Weight(r)
<1>1. r.status \in Statuses /\ r.confidence \in 0 .. 1000
  BY DEF ClaimResult
<1>2. CASE r.status = "verified"
  <2>1. w = 10 * c
    BY <1>2 DEF Weight
  <2>2. c \in 0 .. 1000
    BY <1>1
  <2> HIDE DEF c, w
  <2>3. w \in Nat /\ w <= 10000 /\ (c >= 900 => w >= 9000)
    BY <2>1, <2>2
  <2> QED BY <1>2, <2>3 DEF c, w
<1>3. CASE r.status = "partial"
  <2>1. w = 7 * c
    BY <1>3 DEF Weight
  <2>2. c \in 0 .. 1000
    BY <1>1
  <2> HIDE DEF c, w
  <2>3. w \in Nat /\ w <= 7000
    BY <2>1, <2>2
  <2>4. w <= 10000
    BY <2>3
  <2> QED BY <1>3, <2>3, <2>4 DEF c, w
<1>4. CASE r.status = "unverifiable"
  <2>1. Weight(r) = 3000
    BY <1>4 DEF Weight
  <2> QED BY <1>1, <1>4, <2>1
<1>5. CASE r.status = "hallucinated"
  <2>1. Weight(r) = 0
    BY <1>5 DEF Weight
  <2> QED BY <1>1, <1>5, <2>1
<1> QED BY <1>1, <1>2, <1>3, <1>4, <1>5 DEF Statuses

(* The sum that the loop makes.                                            *)
LEMMA TotalIsASum ==
  ASSUME NEW rs \in Seq(ClaimResult)
  PROVE  \E sum \in [0 .. Len(rs) -> Nat] :
           /\ Total(rs) = sum[Len(rs)] /\ sum[0] = 0
           /\ \A i \in 1 .. Len(rs) : sum[i] = sum[i - 1] + Weight(rs[i])
<1> DEFINE n == Len(rs)
           w(i) == Weight(rs[i])
           turn == [i \in 1 .. n |-> [x \in Nat |-> x + w(i)]]
           Value(f) == f = [i \in 0 .. n |-> IF i = 0 THEN 0 ELSE f[i - 1] + Weight(rs[i])]
<1>1. n \in Nat /\ \A i \in 1 .. n : w(i) \in Nat
  BY WeightIsNatural
<1>2. Total(rs) = (CHOOSE f : Value(f))[n]
  BY DEF Total
<1> HIDE DEF n
<1>3. turn \in [1 .. n -> [Nat -> Nat]]
  <2> HIDE DEF w
  <2> QED BY <1>1
<1>4. PICK g \in [0 .. n -> Nat] : IsLoop(g, n, 0, turn)
  <2> HIDE DEF turn
  <2>1. 0 \in Nat
    OBVIOUS
  <2> QED BY <1>1, <1>3, <2>1, LoopIsDefined, Zenon
<1>5. Value(g)
  <2>1. \A i \in 0 .. n : i # 0 => i \in 1 .. n /\ i - 1 \in 0 .. n
    BY <1>1
  <2>2. \A i \in 0 .. n : g[i] = IF i = 0 THEN 0 ELSE g[i - 1] + w(i)
    <3> HIDE DEF w
    <3> QED BY <1>4, <2>1 DEF IsLoop
  <2>3. g = [i \in 0 .. n |-> g[i]]
    BY <1>4
  <2> QED BY <2>2, <2>3
<1> DEFINE sum == CHOOSE f : Value(f)
<1>6. Value(sum)
  BY <1>5
<1>7. Total(rs) = sum[n]
  BY <1>2
<1> HIDE DEF sum
<1>8. sum[0] = 0 /\ \A i \in 1 .. n : sum[i] = sum[i - 1] + w(i)
  <2>1. 0 \in 0 .. n /\ \A i \in 1 .. n : i \in 0 .. n /\ i # 0
    BY <1>1
  <2> QED BY <1>6, <2>1
<1>9. sum \in [0 .. n -> Nat]
  <2> DEFINE T == {m \in 0 .. n : sum[m] \notin Nat}
  <2>1. ASSUME T # {} PROVE FALSE
    <3>1. T \in SUBSET Nat
      BY <1>1
    <3> HIDE DEF T
    <3>2. PICK m \in T : \A k \in T : m <= k
      BY <2>1, <3>1, LeastNatural, Zenon
    <3>3. m \in 0 .. n /\ sum[m] \notin Nat
      BY <3>2 DEF T
    <3>4. m # 0
      BY <1>8, <3>3
    <3>5. m \in 1 .. n /\ m - 1 \in 0 .. n /\ ~ (m <= m - 1)
      BY <1>1, <3>3, <3>4
    <3>6. sum[m - 1] \in Nat
      BY <3>2, <3>5 DEF T
    <3> HIDE DEF w
    <3> QED BY <1>1, <1>8, <3>3, <3>5, <3>6
  <2>2. sum = [i \in 0 .. n |-> sum[i]]
    BY <1>6
  <2> QED BY <2>1, <2>2
<1> QED BY <1>7, <1>8, <1>9 DEF n

(* A total with few verified results is low, one with many is high.        *)
LEMMA TotalIsBounded ==
  ASSUME NEW rs \in Seq(ClaimResult), NEW V \in SUBSET (1 .. Len(rs))
  PROVE  /\ Total(rs) \in Nat /\ Cardinality(V) \in Nat /\ Cardinality(V) <= Len(rs)
         /\ (\A i \in 1 .. Len(rs) : rs[i].status = "verified" => i \in V) =>
              Total(rs) <= 7000 * Len(rs) + 3000 * Cardinality(V)
         /\ (\A i \in V : rs[i].status = "verified" /\ rs[i].confidence >= 900) =>
              Total(rs) >= 9000 * Cardinality(V)
<1> DEFINE n == Len(rs)
           w(i) == Weight(rs[i])
           C(m) == Counted(V, m)
<1>1. PICK sum \in [0 .. n -> Nat] : /\ Total(rs) = sum[n] /\ sum[0] = 0
                                     /\ \A i \in 1 .. n : sum[i] = sum[i - 1] + w(i)
  BY TotalIsASum
<1>2. /\ n \in Nat /\ \A i \in 1 .. n : rs[i] \in ClaimResult
      /\ \A i \in 1 .. n : w(i) \in Nat /\ w(i) <= 10000 /\ (rs[i].status # "verified" => w(i) <= 7000)
                           /\ (rs[i].status = "verified" /\ rs[i].confidence >= 900 => w(i) >= 9000)
  BY WeightIsNatural
<1>3. /\ C(0) = 0 /\ C(n) = Cardinality(V) /\ \A m \in 0 .. n : C(m) \in Nat
      /\ \A m \in 1 .. n : C(m) = C(m - 1) + (IF m \in V THEN 1 ELSE 0)
  <2>1. n \in Nat /\ V \in SUBSET (1 .. n)
    BY <1>2
  <2> HIDE DEF n
  <2> QED BY <2>1, CountedFacts
<1>4. Cardinality(V) \in Nat /\ Cardinality(V) <= n
  <2>1. n \in Nat /\ V \in SUBSET (1 .. n)
    BY <1>2
  <2> HIDE DEF n
  <2>2. IsFiniteSet(1 .. n) /\ Cardinality(1 .. n) = n
    BY <2>1, FS_Interval
  <2> QED BY <2>1, <2>2, FS_Subset, FS_CardinalityType
<1> HIDE DEF n, w, C
<1>5. ASSUME \A i \in 1 .. n : rs[i].status = "verified" => i \in V
      PROVE  sum[n] <= 7000 * n + 3000 * C(n)
  <2> DEFINE T == {m \in 0 .. n : ~ (sum[m] <= 7000 * m + 3000 * C(m))}
  <2>1. ASSUME T # {} PROVE FALSE
    <3>1. T \in SUBSET Nat
      BY <1>2
    <3> HIDE DEF T
    <3>2. PICK m \in T : \A k \in T : m <= k
      BY <2>1, <3>1, LeastNatural, Zenon
    <3>3. m \in 0 .. n /\ ~ (sum[m] <= 7000 * m + 3000 * C(m))
      BY <3>2 DEF T
    <3>4. m # 0
      BY <1>1, <1>3, <3>3
    <3>5. m \in 1 .. n /\ m - 1 \in 0 .. n /\ ~ (m <= m - 1)
      BY <1>2, <3>3, <3>4
    <3>6. sum[m - 1] <= 7000 * (m - 1) + 3000 * C(m - 1)
      BY <3>2, <3>5 DEF T
    <3>7. /\ sum[m] = sum[m - 1] + w(m) /\ sum[m - 1] \in Nat /\ sum[m] \in Nat /\ C(m - 1) \in Nat
          /\ C(m) = C(m - 1) + (IF m \in V THEN 1 ELSE 0)
          /\ w(m) \in Nat /\ w(m) <= 10000 /\ (m \notin V => w(m) <= 7000)
      <4>1. m \notin V => rs[m].status # "verified"
        BY <1>5, <3>5
      <4> QED BY <1>1, <1>2, <1>3, <3>3, <3>5, <4>1
    <3>8. CASE m \in V
      BY <3>3, <3>5, <3>6, <3>7, <3>8
    <3>9. CASE m \notin V
      BY <3>3, <3>5, <3>6, <3>7, <3>9
    <3> QED BY <3>8, <3>9
  <2>2. n \in 0 .. n
    BY <1>2
  <2> QED BY <2>1, <2>2
<1>6. ASSUME \A i \in V : rs[i].status = "verified" /\ rs[i].confidence >= 900
      PROVE  sum[n] >= 9000 * C(n)
  <2> DEFINE T == {m \in 0 .. n : ~ (sum[m] >= 9000 * C(m))}
  <2>1. ASSUME T # {} PROVE FALSE
    <3>1. T \in SUBSET Nat
      BY <1>2
    <3> HIDE DEF T
    <3>2. PICK m \in T : \A k \in T : m <= k
      BY <2>1, <3>1, LeastNatural, Zenon
    <3>3. m \in 0 .. n /\ ~ (sum[m] >= 9000 * C(m))
      BY <3>2 DEF T
    <3>4. m # 0
      BY <1>1, <1>3, <3>3
    <3>5. m \in 1 .. n /\ m - 1 \in 0 .. n /\ ~ (m <= m - 1)
      BY <1>2, <3>3, <3>4
    <3>6. sum[m - 1] >= 9000 * C(m - 1)
      BY <3>2, <3>5 DEF T
    <3>7. /\ sum[m] = sum[m - 1] + w(m) /\ sum[m - 1] \in Nat /\ sum[m] \in Nat /\ C(m - 1) \in Nat
          /\ C(m) = C(m - 1) + (IF m \in V THEN 1 ELSE 0)
          /\ w(m) \in Nat /\ (m \in V => w(m) >= 9000)
      BY <1>1, <1>2, <1>3, <1>6, <3>3, <3>5
    <3>8. CASE m \in V
      BY <3>3, <3>6, <3>7, <3>8
    <3>9. CASE m \notin V
      BY <3>3, <3>6, <3>7, <3>9
    <3> QED BY <3>8, <3>9
  <2>2. n \in 0 .. n
    BY <1>2
  <2> QED BY <2>1, <2>2
<1>7. sum[n] \in Nat
  BY <1>1, <1>2
<1> QED BY <1>1, <1>3, <1>4, <1>5, <1>6, <1>7 DEF n

(* The share of a chain's edges that the graph has, in thousandths.        *)
LEMMA ShareIsBounded ==
  ASSUME NEW v \in Nat, NEW t \in Nat, t >= 1, v <= t
  PROVE  (1000 * v) \div t \in 0 .. 1000
OBVIOUS

-----------------------------------------------------------------------------
(* -- What is claimed, and the check of one claim.                         *)
LEMMA KindsOfClaims ==
  ASSUME NEW c \in AnyClaim
  PROVE  /\ c.kind \in {"file_location", "call_chain", "code_pattern", "resource_type", "other"}
         /\ c.kind = "file_location" =>
              c.file \in SourceFile /\ c.line \in {"none", "malformed", "inside", "outside"}
         /\ c.kind = "call_chain" => c.chain \in Seq(STRING)
         /\ c.kind = "resource_type" => c.binding \in DOMAIN BindingPrefixes
<1>1. CASE c \in LocationClaim
  BY <1>1 DEF LocationClaim
<1>2. CASE c \in ChainClaim
  BY <1>2 DEF ChainClaim
<1>3. CASE c \in PatternClaim
  BY <1>3 DEF PatternClaim
<1>4. CASE c \in TypeClaim
  BY <1>4 DEF TypeClaim
<1>5. CASE c \in [kind : {"other"}]
  BY <1>5
<1> QED BY <1>1, <1>2, <1>3, <1>4, <1>5 DEF AnyClaim

(* The claims of a proposal.                                               *)
LEMMA ClaimsAreClaims ==
  ASSUME NEW said \in Proposal
  PROVE  ClaimsIn(said) \in Seq(AnyClaim)
<1>1. CASE said \in [explicit : {TRUE}, evidence : Seq(AnyClaim)]
  BY <1>1 DEF ClaimsIn
<1>2. CASE said \in [explicit : {FALSE}, location : Seq(LocationClaim), words : Seq(STRING),
                     chains : Seq(ChainClaim)]
  <2>1. /\ ~said.explicit /\ said.location \in Seq(LocationClaim) /\ said.words \in Seq(STRING)
        /\ said.chains \in Seq(ChainClaim)
    BY <1>2
  <2>2. said.location \in Seq(AnyClaim) /\ said.chains \in Seq(AnyClaim)
    <3>1. LocationClaim \subseteq AnyClaim /\ ChainClaim \subseteq AnyClaim
      BY DEF AnyClaim
    <3>2. ASSUME NEW S, NEW T, S \subseteq T, NEW s \in Seq(S) PROVE s \in Seq(T)
      BY <3>2
    <3> QED BY <2>1, <3>1, <3>2
  <2>3. ASSUME NEW words \in Seq(STRING) PROVE Patterns(words) \in Seq(AnyClaim)
    <3> DEFINE m == IF Len(words) < MaxWords THEN Len(words) ELSE MaxWords
               list == [i \in 1 .. m |-> [kind |-> "code_pattern", name |-> words[i]]]
    <3>1. m \in Nat /\ m <= Len(words)
      BY DEF MaxWords
    <3>2. \A i \in 1 .. m : [kind |-> "code_pattern", name |-> words[i]] \in AnyClaim
      <4>1. \A i \in 1 .. m : words[i] \in STRING
        BY <3>1
      <4> QED BY <4>1 DEF AnyClaim, PatternClaim
    <3>3. Patterns(words) = list
      BY DEF Patterns
    <3> HIDE DEF m
    <3> QED BY <3>1, <3>2, <3>3
  <2>4. ClaimsIn(said) = said.location \o Patterns(said.words) \o said.chains
    BY <2>1 DEF ClaimsIn
  <2> QED BY <2>1, <2>2, <2>3, <2>4, ConcatProperties
<1> QED BY <1>1, <1>2 DEF Proposal

(* The first of some positions.                                            *)
LEMMA FirstIsIn ==
  ASSUME NEW P \in SUBSET Nat, P # {}
  PROVE  FirstIn(P) \in P
<1>1. \E i \in P : \A j \in P : i <= j
  BY LeastNatural, Zenon
<1> QED BY <1>1 DEF FirstIn

(* Evidence of a type, and the one that is selected.                       *)
LEMMA EvidenceFacts ==
  ASSUME NEW b \in DOMAIN BindingPrefixes, EvidenceOf(b) # <<>>
  PROVE  \E i \in DOMAIN EvidenceOf(b) : Selected(EvidenceOf(b)) = EvidenceOf(b)[i]
<1> DEFINE tried == <<b>> \o BindingPrefixes[b]
           known == {i \in DOMAIN tried : tried[i] \in DOMAIN Typed}
           es    == EvidenceOf(b)
<1>1. es \in Seq(Evidence) /\ es # <<>>
  <2>1. known # {} /\ es = Typed[tried[FirstIn(known)]]
    BY DEF EvidenceOf
  <2>2. tried \in Seq({b} \cup STRING)
    <3>1. <<b>> \in Seq({b} \cup STRING) /\ BindingPrefixes[b] \in Seq(STRING)
      BY ClaimsAssumption
    <3>2. \A s \in Seq(STRING) : s \in Seq({b} \cup STRING)
      OBVIOUS
    <3> QED BY <3>1, <3>2, ConcatProperties
  <2>3. DOMAIN tried \subseteq Nat
    <3> HIDE DEF tried
    <3> QED BY <2>2
  <2>4. FirstIn(known) \in known
    <3>1. known \in SUBSET Nat
      BY <2>3
    <3> HIDE DEF known
    <3> QED BY <2>1, <3>1, FirstIsIn
  <2>5. tried[FirstIn(known)] \in DOMAIN Typed
    BY <2>4
  <2> HIDE DEF tried, known, es
  <2> QED BY <2>1, <2>5, ClaimsAssumption
<1> DEFINE checked == {i \in DOMAIN es : es[i].source = "checker"}
<1> HIDE DEF es
<1>2. DOMAIN es \subseteq Nat /\ 1 \in DOMAIN es
  BY <1>1
<1>3. checked # {} => FirstIn(checked) \in DOMAIN es
  <2>1. checked \in SUBSET Nat /\ checked \subseteq DOMAIN es
    BY <1>2
  <2> HIDE DEF checked
  <2> QED BY <2>1, FirstIsIn
<1>4. Selected(es) = es[IF checked # {} THEN FirstIn(checked) ELSE 1]
  BY DEF Selected
<1> QED BY <1>2, <1>3, <1>4 DEF es

(* A result as _verify_line gives it.                                      *)
LEMMA CheckLineFacts ==
  ASSUME NEW f \in SourceFile, NEW line \in {"none", "malformed", "inside", "outside"},
         NEW exact \in BOOLEAN, NEW n \in Nat
  PROVE  LET r == CheckLine(f, line, exact, n) IN
         /\ r \in ClaimResult
         /\ r.status = "verified" => exact /\ FitsLine(line, n)
         /\ r.status = "hallucinated" => FALSE
         /\ exact /\ FitsLine(line, n) => r.status = "verified" /\ r.confidence >= 900
<1>1. f \in SourceFile \cup {NoFile}
  OBVIOUS
<1>2. CASE line = "none"
  BY <1>1, <1>2 DEF CheckLine, Result, ClaimResult, Statuses, FitsLine
<1>3. CASE line # "none"
  BY <1>1, <1>3 DEF CheckLine, Result, ClaimResult, Statuses, FitsLine, Unreadable
<1> QED BY <1>2, <1>3

(* A chain is as long as the graph has its edges.                          *)
LEMMA JoinedFacts ==
  ASSUME NEW chain \in Seq(STRING), Len(chain) >= 2
  PROVE  LET total == Len(chain) - 1
             valid == Cardinality(Joined(chain))
         IN  /\ total \in Nat /\ total >= 1 /\ valid \in Nat /\ valid <= total
             /\ valid = total <=> Joined(chain) = 1 .. total
<1> DEFINE total == Len(chain) - 1
           J == Joined(chain)
<1>1. total \in Nat /\ total >= 1 /\ J \subseteq 1 .. total
  BY DEF Joined
<1> HIDE DEF total, J
<1>2. IsFiniteSet(1 .. total) /\ Cardinality(1 .. total) = total
  BY <1>1, FS_Interval
<1>3. IsFiniteSet(J) /\ Cardinality(J) <= total /\ Cardinality(J) \in Nat
  BY <1>1, <1>2, FS_Subset, FS_CardinalityType
<1>4. Cardinality(J) = total => J = 1 .. total
  BY <1>1, <1>2, FS_Subset
<1> QED BY <1>1, <1>2, <1>3, <1>4 DEF total, J

(* The checks that do not look at files.                                   *)
LEMMA OtherChecksAreEarned ==
  ASSUME NEW c \in AnyClaim, NEW files, NEW h
  PROVE  /\ c.kind = "call_chain" => CheckChain(c) \in ClaimResult /\ EarnedIn(c, CheckChain(c), files, h)
         /\ c.kind = "code_pattern" => CheckPattern(c) \in ClaimResult /\ EarnedIn(c, CheckPattern(c), files, h)
         /\ c.kind = "resource_type" => CheckType(c) \in ClaimResult /\ EarnedIn(c, CheckType(c), files, h)
         /\ c.kind = "other" => /\ Result("unverifiable", 0, NoFile) \in ClaimResult
                                /\ EarnedIn(c, Result("unverifiable", 0, NoFile), files, h)
<1>1. ASSUME c.kind = "call_chain"
      PROVE  CheckChain(c) \in ClaimResult /\ EarnedIn(c, CheckChain(c), files, h)
  <2> DEFINE total == Len(c.chain) - 1
             valid == Cardinality(Joined(c.chain))
             share == (1000 * valid) \div total
  <2>1. c.chain \in Seq(STRING) /\ total \in Int
    BY <1>1, KindsOfClaims
  <2>2. /\ OnceIn(c, h) <=> Len(c.chain) >= 2 /\ Joined(c.chain) = 1 .. total
        /\ AlwaysIn(c, files, h) <=> OnceIn(c, h)
    BY <1>1 DEF OnceIn, AlwaysIn
  <2>3. CASE total >= 1
    <3>1. /\ Len(c.chain) >= 2 /\ total \in Nat /\ valid \in Nat /\ valid <= total
          /\ valid = total <=> Joined(c.chain) = 1 .. total
      BY <2>1, <2>3, JoinedFacts
    <3>2. share \in 0 .. 1000
      <4> HIDE DEF total, valid
      <4> QED BY <2>3, <3>1, ShareIsBounded
    <3>3. CASE valid = total
      <4>1. CheckChain(c) = Result("verified", 1000, NoFile)
        BY <2>3, <3>3 DEF CheckChain
      <4> QED BY <2>2, <3>1, <3>3, <4>1 DEF Result, ClaimResult, Statuses, EarnedIn
    <3>4. CASE valid # total
      <4>1. CheckChain(c) \in {Result("partial", share, NoFile), Result("hallucinated", 0, NoFile)}
        BY <3>4 DEF CheckChain
      <4>2. ~OnceIn(c, h)
        BY <2>2, <3>1, <3>4
      <4>3. ~AlwaysIn(c, files, h)
        BY <2>2, <4>2
      <4> HIDE DEF share, total, valid
      <4>4. CASE CheckChain(c) = Result("partial", share, NoFile)
        BY <3>2, <4>3, <4>4 DEF Result, ClaimResult, Statuses, EarnedIn
      <4>5. CASE CheckChain(c) = Result("hallucinated", 0, NoFile)
        BY <4>3, <4>5 DEF Result, ClaimResult, Statuses, EarnedIn
      <4> QED BY <4>1, <4>4, <4>5
    <3> QED BY <3>3, <3>4
  <2>4. CASE ~ (total >= 1)
    <3>1. CheckChain(c) = Result("hallucinated", 0, NoFile)
      BY <2>4 DEF CheckChain
    <3>2. ~OnceIn(c, h)
      BY <2>1, <2>2, <2>4
    <3> QED BY <2>2, <3>1, <3>2 DEF Result, ClaimResult, Statuses, EarnedIn
  <2> QED BY <2>3, <2>4
<1>2. ASSUME c.kind = "code_pattern"
      PROVE  CheckPattern(c) \in ClaimResult /\ EarnedIn(c, CheckPattern(c), files, h)
  <2>1. /\ OnceIn(c, h) <=> \E n \in Nodes : <<c.name, n>> \in Within
        /\ AlwaysIn(c, files, h) <=> OnceIn(c, h)
    BY <1>2 DEF OnceIn, AlwaysIn
  <2>2. CASE OnceIn(c, h)
    <3>1. CheckPattern(c) = Result("verified", 900, NoFile)
      BY <2>1, <2>2 DEF CheckPattern
    <3> QED BY <2>2, <3>1 DEF Result, ClaimResult, Statuses, EarnedIn
  <2>3. CASE ~OnceIn(c, h)
    <3>1. \/ c.name \in DOMAIN Similar /\ CheckPattern(c) = Result("partial", Similar[c.name], NoFile)
          \/ CheckPattern(c) = Result("hallucinated", 0, NoFile)
      BY <2>1, <2>3 DEF CheckPattern
    <3>2. c.name \in DOMAIN Similar => Similar[c.name] \in 0 .. 1000
      BY ClaimsAssumption
    <3> QED BY <2>1, <2>3, <3>1, <3>2 DEF Result, ClaimResult, Statuses, EarnedIn
  <2> QED BY <2>2, <2>3
<1>3. ASSUME c.kind = "resource_type"
      PROVE  CheckType(c) \in ClaimResult /\ EarnedIn(c, CheckType(c), files, h)
  <2> DEFINE es == EvidenceOf(c.binding)
  <2>1. /\ OnceIn(c, h) <=> \E i \in DOMAIN es : es[i].close = c.close
        /\ AlwaysIn(c, files, h) <=> es # <<>> /\ \A i \in DOMAIN es : es[i].close = c.close
    BY <1>3 DEF OnceIn, AlwaysIn
  <2>2. es # <<>> => \E i \in DOMAIN es : Selected(es) = es[i]
    BY <1>3, KindsOfClaims, EvidenceFacts
  <2>3. CheckType(c) = IF es = <<>> THEN Result("unverifiable", 0, NoFile)
                       ELSE IF Selected(es).close = c.close THEN Result("verified", 900, NoFile)
                       ELSE Result("hallucinated", 0, NoFile)
    BY DEF CheckType
  <2> HIDE DEF es
  <2>4. CASE es = <<>>
    BY <2>1, <2>3, <2>4 DEF Result, ClaimResult, Statuses, EarnedIn
  <2>5. CASE es # <<>> /\ Selected(es).close = c.close
    BY <2>1, <2>2, <2>3, <2>5 DEF Result, ClaimResult, Statuses, EarnedIn
  <2>6. CASE es # <<>> /\ Selected(es).close # c.close
    BY <2>1, <2>2, <2>3, <2>6 DEF Result, ClaimResult, Statuses, EarnedIn
  <2> QED BY <2>4, <2>5, <2>6
<1>4. ASSUME c.kind = "other"
      PROVE  /\ Result("unverifiable", 0, NoFile) \in ClaimResult
             /\ EarnedIn(c, Result("unverifiable", 0, NoFile), files, h)
  BY <1>4 DEF Result, ClaimResult, Statuses, EarnedIn, OnceIn, AlwaysIn
<1> QED BY <1>1, <1>2, <1>3, <1>4

-----------------------------------------------------------------------------
(* -- The verifier as it goes from claim to claim.                         *)
CachedLine   == [file : SourceFile, length : Nat]
GivenVerdict ==
  [verdict : {"verified", "partial", "hallucinated", "unverifiable"}, results : Seq(ClaimResult),
   flagged : BOOLEAN]

ClaimsTypeOK ==
  /\ asserted \in Seq(Proposal) /\ lines \in Seq(CachedLine) /\ results \in Seq(ClaimResult)
  /\ verdicts \in Seq(GivenVerdict) /\ checking \in Nat \X Nat
  /\ DOMAIN disk \subseteq SourceFile /\ index.files \subseteq SourceFile
  /\ \A f \in DOMAIN disk : disk[f] \in Nat

(* Where the verifier is: results of the claims before it, and verdicts of *)
(* the proposals before it.                                                *)
AtItsClaim ==
  /\ checking[1] = 0 => checking = <<0, 1>> /\ asserted = <<>> /\ results = <<>> /\ verdicts = <<>>
                        /\ lines = <<>>
  /\ checking[1] # 0 => checking[1] = Len(verdicts) + 1
  /\ IF checking[1] \in 1 .. Len(asserted)
     THEN checking[2] = Len(results) + 1 /\ Len(results) <= Len(ClaimsOf(checking[1]))
     ELSE results = <<>>
  /\ Len(verdicts) <= Len(asserted)

(* What is on the disk or in the cache has been on the disk.               *)
SeenIsPast ==
  /\ HeldBy(disk) \subseteq history
  /\ \A i \in DOMAIN lines : <<lines[i].file, lines[i].length>> \in history

(* A verdict is that of the results it was given for, one for each claim.  *)
VerdictOf(v, claims) ==
  Len(v.results) = Len(claims) /\ v.verdict = Verdict(v.results) /\ v.flagged = Flagged(v.results)

ResultsAreEarned ==
  /\ EarnedAll(ClaimsOf(checking[1]), results, DOMAIN disk, history)
  /\ \A p \in DOMAIN verdicts : /\ VerdictOf(verdicts[p], ClaimsOf(p))
                                /\ EarnedAll(ClaimsOf(p), verdicts[p].results, DOMAIN disk, history)

KInv == ClaimsTypeOK /\ AtItsClaim /\ SeenIsPast /\ ResultsAreEarned

(* More history and fewer files take no result away that was earned.       *)
LEMMA EarnedStays ==
  ASSUME NEW h, NEW k, h \subseteq k, NEW files, NEW fewer, fewer \subseteq files, NEW claims, NEW rs,
         EarnedAll(claims, rs, files, h)
  PROVE  EarnedAll(claims, rs, fewer, k)
<1>1. ASSUME NEW c PROVE (OnceIn(c, h) => OnceIn(c, k)) /\ (AlwaysIn(c, fewer, k) => AlwaysIn(c, files, h))
  <2>1. CASE c.kind = "file_location"
    <3>1. LengthsIn(c.file, h) \subseteq LengthsIn(c.file, k)
      BY DEF LengthsIn
    <3> QED BY <2>1, <3>1 DEF OnceIn, AlwaysIn
  <2>2. CASE c.kind # "file_location"
    <3>1. OnceIn(c, h) <=> OnceIn(c, k)
      BY <2>2 DEF OnceIn
    <3>2. AlwaysIn(c, fewer, k) <=> AlwaysIn(c, files, h)
      BY <2>2, <3>1 DEF AlwaysIn
    <3> QED BY <3>1, <3>2
  <2> QED BY <2>1, <2>2
<1> QED BY <1>1 DEF EarnedAll, EarnedIn

(* Nothing is claimed, read or found at first.                             *)
LEMMA ClaimsStart == ClaimsInit => KInv
<1> SUFFICES ASSUME ClaimsInit PROVE KInv
  OBVIOUS
<1>1. /\ asserted = <<>> /\ lines = <<>> /\ results = <<>> /\ verdicts = <<>> /\ checking = <<0, 1>>
      /\ DOMAIN disk = {} /\ index.files = {} /\ DOMAIN results = {} /\ DOMAIN verdicts = {}
      /\ DOMAIN lines = {}
  BY DEF ClaimsInit
<1>2. ClaimsTypeOK
  BY <1>1 DEF ClaimsTypeOK
<1>3. AtItsClaim
  BY <1>1 DEF AtItsClaim
<1>4. SeenIsPast
  BY <1>1 DEF SeenIsPast, HeldBy
<1>5. ResultsAreEarned
  BY <1>1 DEF ResultsAreEarned, EarnedAll
<1> QED BY <1>2, <1>3, <1>4, <1>5 DEF KInv

(* A debate begins with a project and its proposals.                       *)
LEMMA BeginKeepsK == KInv /\ BeginDebate => KInv'
<1> SUFFICES ASSUME KInv, BeginDebate PROVE KInv'
  OBVIOUS
<1>1. PICK d \in Debates : disk' = d.disk /\ asserted' = d.proposals /\ history' = HeldBy(d.disk)
  BY DEF BeginDebate
<1>2. /\ results = <<>> /\ verdicts = <<>> /\ lines = <<>>
      /\ results' = <<>> /\ verdicts' = <<>> /\ lines' = <<>>
      /\ checking' = <<1, 1>> /\ index' = index
  BY DEF BeginDebate, KInv, AtItsClaim
<1>3. /\ asserted' \in Seq(Proposal) /\ DOMAIN disk' \subseteq SourceFile
      /\ \A f \in DOMAIN disk' : disk'[f] \in Nat
  BY <1>1, ClaimsAssumption
<1>4. ClaimsTypeOK'
  BY <1>2, <1>3 DEF KInv, ClaimsTypeOK
<1>5. AtItsClaim'
  <2>1. ASSUME 1 \in 1 .. Len(asserted') PROVE Len(ClaimsIn(asserted'[1])) \in Nat
    <3>1. asserted'[1] \in Proposal
      BY <1>3, <2>1
    <3>2. ClaimsIn(asserted'[1]) \in Seq(AnyClaim)
      BY <3>1, ClaimsAreClaims
    <3> QED BY <3>2
  <2>2. Len(asserted') \in Nat
    BY <1>3
  <2> QED BY <1>2, <2>1, <2>2 DEF AtItsClaim, ClaimsOf
<1>6. SeenIsPast'
  BY <1>1, <1>2 DEF SeenIsPast
<1>7. ResultsAreEarned'
  BY <1>2 DEF ResultsAreEarned, EarnedAll
<1> QED BY <1>4, <1>5, <1>6, <1>7 DEF KInv

(* The verifier sees lines that the disk has had.                          *)
LEMMA ReadingIsPast ==
  ASSUME KInv, NEW f \in DOMAIN disk
  PROVE  /\ f \in SourceFile /\ LengthOf(f) \in Nat /\ <<f, LengthOf(f)>> \in history
         /\ Read(f) \in Seq(CachedLine)
         /\ \A i \in DOMAIN Read(f) : <<Read(f)[i].file, Read(f)[i].length>> \in history
<1>1. /\ lines \in Seq(CachedLine) /\ f \in SourceFile /\ disk[f] \in Nat /\ <<f, disk[f]>> \in history
      /\ \A i \in DOMAIN lines : <<lines[i].file, lines[i].length>> \in history
  BY DEF KInv, ClaimsTypeOK, SeenIsPast, HeldBy
<1>2. CASE Cached(f) # {}
  <2> DEFINE i == CHOOSE j \in Cached(f) : TRUE
  <2>1. i \in Cached(f)
    BY <1>2
  <2>2. LengthOf(f) = lines[i].length /\ Read(f) = lines
    BY <1>2 DEF LengthOf, Read
  <2> HIDE DEF i
  <2>3. i \in DOMAIN lines /\ lines[i].file = f /\ lines[i] \in CachedLine
    BY <1>1, <2>1 DEF Cached
  <2>4. lines[i].length \in Nat
    BY <2>3 DEF CachedLine
  <2> QED BY <1>1, <2>2, <2>3, <2>4
<1>3. CASE Cached(f) = {}
  <2> DEFINE e == [file |-> f, length |-> disk[f]]
             rest == IF Len(lines) >= MaxCached THEN Tail(lines) ELSE lines
  <2>1. LengthOf(f) = disk[f] /\ Read(f) = Append(rest, e)
    BY <1>3 DEF LengthOf, Read
  <2>2. e \in CachedLine /\ <<e.file, e.length>> \in history
    BY <1>1 DEF CachedLine
  <2>3. rest \in Seq(CachedLine) /\ \A i \in DOMAIN rest : \E j \in DOMAIN lines : rest[i] = lines[j]
    <3>1. CASE Len(lines) >= MaxCached
      <4>1. lines # <<>> /\ Len(lines) \in Nat
        BY <1>1, <3>1, ClaimsAssumption
      <4>2. /\ Tail(lines) \in Seq(CachedLine) /\ Len(Tail(lines)) = Len(lines) - 1
            /\ \A i \in 1 .. Len(Tail(lines)) : Tail(lines)[i] = lines[i + 1]
        BY <1>1, <4>1, HeadTailProperties
      <4>3. \A i \in 1 .. Len(Tail(lines)) : i + 1 \in DOMAIN lines
        BY <1>1, <4>1, <4>2
      <4>4. DOMAIN Tail(lines) = 1 .. Len(Tail(lines))
        BY <4>2
      <4> QED BY <3>1, <4>2, <4>3, <4>4
    <3>2. CASE ~ (Len(lines) >= MaxCached)
      BY <1>1, <3>2
    <3> QED BY <3>1, <3>2
  <2> HIDE DEF e, rest
  <2>4. /\ Append(rest, e) \in Seq(CachedLine) /\ Len(Append(rest, e)) = Len(rest) + 1
        /\ \A i \in 1 .. Len(rest) : Append(rest, e)[i] = rest[i]
        /\ Append(rest, e)[Len(rest) + 1] = e
    BY <2>2, <2>3, AppendProperties
  <2>5. \A i \in DOMAIN Append(rest, e) : i \in DOMAIN rest \/ i = Len(rest) + 1
    BY <2>3, <2>4
  <2>6. \A i \in DOMAIN rest : Append(rest, e)[i] = rest[i] /\ <<rest[i].file, rest[i].length>> \in history
    BY <1>1, <2>3, <2>4
  <2> QED BY <1>1, <2>1, <2>2, <2>4, <2>5, <2>6
<1> QED BY <1>2, <1>3

(* Files like the claimed one are among those that are known.              *)
LEMMA MatchesAreKnown ==
  ASSUME NEW known, NEW file
  PROVE  FuzzyMatches(known, file) \subseteq known
BY DEF FuzzyMatches, Names, MostShared, BestByStem, Candidates

(* A result the verifier may add.                                          *)
NextResult(r, c) ==
  r \in ClaimResult /\ EarnedIn(c, r, DOMAIN disk, history) /\ results' = Append(results, r)

SeenAfter ==
  /\ lines' \in Seq(CachedLine) /\ index'.files \subseteq SourceFile
  /\ \A i \in DOMAIN lines' : <<lines'[i].file, lines'[i].length>> \in history

(* A location is found verified only at a file of the claimed path, whose  *)
(* lines the disk has had.                                                 *)
LEMMA LocationIsEarned ==
  ASSUME KInv, NEW c \in AnyClaim, c.kind = "file_location", CheckLocation(c)
  PROVE  SeenAfter /\ \E r : NextResult(r, c)
<1> DEFINE known == IF index.built THEN index.files ELSE DOMAIN disk
           Checked(file, exact) ==
             /\ results' = Append(results, CheckLine(file, c.line, exact, LengthOf(file)))
             /\ lines' = IF NeedsLines(c.line) THEN Read(file) ELSE lines
           Unfound == results' = Append(results, Result("hallucinated", 0, NoFile)) /\ UNCHANGED lines
<1>1. /\ c.file \in SourceFile /\ c.line \in {"none", "malformed", "inside", "outside"}
      /\ known \subseteq SourceFile /\ index.files \subseteq SourceFile /\ lines \in Seq(CachedLine)
      /\ \A i \in DOMAIN lines : <<lines[i].file, lines[i].length>> \in history
  BY KindsOfClaims DEF KInv, ClaimsTypeOK, SeenIsPast
<1>2. /\ OnceIn(c, history) <=> \E n \in LengthsIn(c.file, history) : FitsLine(c.line, n)
      /\ AlwaysIn(c, DOMAIN disk, history) <=>
           c.file \in DOMAIN disk /\ \A n \in LengthsIn(c.file, history) : FitsLine(c.line, n)
  BY DEF OnceIn, AlwaysIn
<1>3. \/ c.file \in DOMAIN disk /\ Checked(c.file, TRUE) /\ UNCHANGED index
      \/ /\ c.file \notin DOMAIN disk /\ index'.files = known
         /\ \/ Unfound
            \/ \E f \in DOMAIN disk : Checked(f, FALSE)
  <2>1. CASE c.file \in DOMAIN disk
    BY <2>1 DEF CheckLocation
  <2>2. CASE c.file \notin DOMAIN disk
    <3>1. /\ index' = [built |-> TRUE, files |-> known]
          /\ \/ Unfound
             \/ \E f \in FuzzyMatches(known, c.file) : IF f \in DOMAIN disk THEN Checked(f, FALSE) ELSE Unfound
      BY <2>2 DEF CheckLocation
    <3>2. index'.files = known
      BY <3>1
    <3> HIDE DEF known, Checked, Unfound
    <3>3. Unfound \/ \E f \in DOMAIN disk : Checked(f, FALSE)
      BY <3>1
    <3> QED BY <2>2, <3>2, <3>3
  <2> QED BY <2>1, <2>2
<1>4. ASSUME NEW f \in DOMAIN disk, NEW exact \in BOOLEAN, Checked(f, exact)
      PROVE  /\ lines' \in Seq(CachedLine)
             /\ \A i \in DOMAIN lines' : <<lines'[i].file, lines'[i].length>> \in history
             /\ \E r \in ClaimResult : /\ results' = Append(results, r)
                                       /\ r.status = "verified" => exact /\ FitsLine(c.line, LengthOf(f))
                                       /\ exact /\ FitsLine(c.line, LengthOf(f)) =>
                                            r.status = "verified" /\ r.confidence >= 900
  <2>1. /\ f \in SourceFile /\ LengthOf(f) \in Nat /\ Read(f) \in Seq(CachedLine)
        /\ \A i \in DOMAIN Read(f) : <<Read(f)[i].file, Read(f)[i].length>> \in history
    BY ReadingIsPast
  <2>2. lines' = Read(f) \/ lines' = lines
    BY <1>4
  <2> DEFINE r == CheckLine(f, c.line, exact, LengthOf(f))
  <2>3. /\ r \in ClaimResult /\ (r.status = "verified" => exact /\ FitsLine(c.line, LengthOf(f)))
        /\ exact /\ FitsLine(c.line, LengthOf(f)) => r.status = "verified" /\ r.confidence >= 900
    BY <1>1, <2>1, CheckLineFacts
  <2>4. results' = Append(results, r)
    BY <1>4
  <2> HIDE DEF r
  <2> QED BY <1>1, <2>1, <2>2, <2>3, <2>4
<1> HIDE DEF known, Checked
<1>5. CASE c.file \in DOMAIN disk
  <2>1. Checked(c.file, TRUE) /\ UNCHANGED index
    BY <1>3, <1>5
  <2>2. LengthOf(c.file) \in LengthsIn(c.file, history)
    <3>1. <<c.file, LengthOf(c.file)>> \in history
      BY <1>5, ReadingIsPast
    <3> QED BY <3>1 DEF LengthsIn
  <2>3. PICK r \in ClaimResult : /\ results' = Append(results, r)
                                 /\ r.status = "verified" => FitsLine(c.line, LengthOf(c.file))
                                 /\ FitsLine(c.line, LengthOf(c.file)) =>
                                      r.status = "verified" /\ r.confidence >= 900
    <3> DEFINE shown(r, exact) ==
                 /\ r.status = "verified" => exact /\ FitsLine(c.line, LengthOf(c.file))
                 /\ exact /\ FitsLine(c.line, LengthOf(c.file)) => r.status = "verified" /\ r.confidence >= 900
    <3>1. \E r \in ClaimResult : results' = Append(results, r) /\ shown(r, TRUE)
      BY <1>4, <1>5, <2>1
    <3> QED BY <3>1
  <2>4. NextResult(r, c)
    BY <1>2, <2>2, <2>3 DEF NextResult, EarnedIn
  <2>5. SeenAfter
    BY <1>1, <1>4, <1>5, <2>1 DEF SeenAfter
  <2> QED BY <2>4, <2>5
<1>6. CASE c.file \notin DOMAIN disk
  <2>1. ~AlwaysIn(c, DOMAIN disk, history) /\ index'.files \subseteq SourceFile
    BY <1>1, <1>2, <1>3, <1>6
  <2>2. CASE Unfound
    <3>1. NextResult(Result("hallucinated", 0, NoFile), c)
      BY <2>1, <2>2 DEF NextResult, EarnedIn, Result, ClaimResult, Statuses
    <3>2. SeenAfter
      BY <1>1, <2>1, <2>2 DEF SeenAfter
    <3> QED BY <3>1, <3>2
  <2>3. CASE \E f \in DOMAIN disk : Checked(f, FALSE)
    <3>1. PICK f \in DOMAIN disk : Checked(f, FALSE)
      BY <2>3
    <3>2. PICK r \in ClaimResult : results' = Append(results, r) /\ r.status # "verified"
      BY <1>4, <3>1
    <3>3. NextResult(r, c)
      BY <2>1, <3>2 DEF NextResult, EarnedIn
    <3>4. SeenAfter
      BY <1>4, <2>1, <3>1 DEF SeenAfter
    <3> QED BY <3>3, <3>4
  <2> QED BY <1>3, <1>6, <2>2, <2>3
<1> QED BY <1>5, <1>6

(* Whatever is claimed, the result that is added to it is earned.          *)
LEMMA CheckedIsEarned ==
  ASSUME KInv, VerifyClaim
  PROVE  /\ checking[1] \in 1 .. Len(asserted) /\ checking[2] = Len(results) + 1
         /\ Len(results) + 1 <= Len(ClaimsOf(checking[1])) /\ ClaimsOf(checking[1]) \in Seq(AnyClaim)
         /\ SeenAfter /\ \E r : NextResult(r, Claim)
<1>1. /\ checking[1] \in 1 .. Len(asserted) /\ checking[2] = Len(results) + 1
      /\ checking[2] <= Len(ClaimsOf(checking[1])) /\ results \in Seq(ClaimResult)
      /\ asserted \in Seq(Proposal)
  BY DEF VerifyClaim, Unchecked, KInv, ClaimsTypeOK, AtItsClaim
<1>2. ClaimsOf(checking[1]) \in Seq(AnyClaim)
  <2>1. asserted[checking[1]] \in Proposal
    BY <1>1
  <2> QED BY <2>1, ClaimsAreClaims DEF ClaimsOf
<1>3. Claim \in AnyClaim
  <2>1. Len(results) \in Nat
    BY <1>1
  <2>2. checking[2] \in 1 .. Len(ClaimsOf(checking[1]))
    BY <1>1, <1>2, <2>1
  <2> QED BY <1>2, <2>2 DEF Claim
<1>4. SeenAfter /\ \E r : NextResult(r, Claim)
  <2>1. CASE Claim.kind = "file_location" /\ CheckLocation(Claim)
    BY <1>3, <2>1, LocationIsEarned
  <2>2. ASSUME NEW kinds, NEW r, CheckElsewhere(kinds, r), r \in ClaimResult,
               EarnedIn(Claim, r, DOMAIN disk, history)
        PROVE  SeenAfter /\ \E q : NextResult(q, Claim)
    <3>1. results' = Append(results, r) /\ lines' = lines /\ index' = index
      BY <2>2 DEF CheckElsewhere
    <3>2. SeenAfter
      BY <3>1 DEF SeenAfter, KInv, ClaimsTypeOK, SeenIsPast
    <3>3. NextResult(r, Claim)
      BY <2>2, <3>1 DEF NextResult
    <3> QED BY <3>2, <3>3
  <2>3. CASE Claim.kind = "call_chain" /\ CheckElsewhere({"call_chain"}, CheckChain(Claim))
    BY <1>3, <2>2, <2>3, OtherChecksAreEarned
  <2>4. CASE Claim.kind = "code_pattern" /\ CheckElsewhere({"code_pattern"}, CheckPattern(Claim))
    BY <1>3, <2>2, <2>4, OtherChecksAreEarned
  <2>5. CASE Claim.kind = "resource_type" /\ CheckElsewhere({"resource_type"}, CheckType(Claim))
    BY <1>3, <2>2, <2>5, OtherChecksAreEarned
  <2>6. CASE CheckElsewhere({"other"}, Result("unverifiable", 0, NoFile))
    <3>1. Claim.kind = "other"
      BY <2>6 DEF CheckElsewhere
    <3> QED BY <1>3, <2>2, <2>6, <3>1, OtherChecksAreEarned
  <2> QED BY <2>1, <2>3, <2>4, <2>5, <2>6 DEF VerifyClaim
<1> QED BY <1>1, <1>2, <1>4

(* Checking a claim adds a result it has earned to those before.           *)
LEMMA VerifyKeepsK == KInv /\ VerifyClaim => KInv'
<1> SUFFICES ASSUME KInv, VerifyClaim PROVE KInv'
  OBVIOUS
<1> DEFINE cs == ClaimsOf(checking[1])
<1>1. /\ checking[1] \in 1 .. Len(asserted) /\ checking[2] = Len(results) + 1
      /\ Len(results) + 1 <= Len(cs) /\ cs \in Seq(AnyClaim)
      /\ SeenAfter /\ \E r : NextResult(r, Claim)
  BY CheckedIsEarned
<1>2. PICK r : NextResult(r, Claim)
  BY <1>1
<1>3. /\ checking' = <<checking[1], checking[2] + 1>> /\ disk' = disk /\ asserted' = asserted
      /\ verdicts' = verdicts /\ history' = history
  BY DEF VerifyClaim
<1>4. /\ results \in Seq(ClaimResult) /\ r \in ClaimResult /\ EarnedIn(Claim, r, DOMAIN disk, history)
      /\ results' = Append(results, r) /\ Len(results) \in Nat /\ Len(cs) \in Nat
      /\ Claim = cs[Len(results) + 1] /\ checking \in Nat \X Nat
  BY <1>1, <1>2 DEF NextResult, KInv, ClaimsTypeOK, Claim
<1>5. /\ results' \in Seq(ClaimResult) /\ Len(results') = Len(results) + 1
      /\ \A i \in 1 .. Len(results) : results'[i] = results[i]
      /\ results'[Len(results) + 1] = r
  BY <1>4, AppendProperties
<1>6. checking'[1] = checking[1] /\ checking'[2] = Len(results) + 2 /\ checking' \in Nat \X Nat
  BY <1>1, <1>3, <1>4
<1>7. ClaimsOf(checking[1])' = cs
  BY <1>3, <1>6 DEF ClaimsOf
<1> HIDE DEF cs
<1>8. ClaimsTypeOK'
  BY <1>1, <1>3, <1>5, <1>6 DEF KInv, ClaimsTypeOK, SeenAfter
<1>9. AtItsClaim'
  <2>1. checking'[1] # 0 /\ checking'[1] = Len(verdicts') + 1 /\ Len(verdicts') <= Len(asserted')
    BY <1>1, <1>3, <1>6 DEF KInv, AtItsClaim
  <2>2. checking'[1] \in 1 .. Len(asserted')
    BY <1>1, <1>3, <1>6
  <2>3. checking'[2] = Len(results') + 1 /\ Len(results') <= Len(cs)
    BY <1>1, <1>4, <1>5, <1>6
  <2> QED BY <1>7, <2>1, <2>2, <2>3 DEF AtItsClaim
<1>10. SeenIsPast'
  <2>1. HeldBy(disk)' = HeldBy(disk) /\ history' = history
    BY <1>3 DEF HeldBy
  <2> QED BY <1>1, <1>3, <2>1 DEF KInv, SeenIsPast, SeenAfter
<1>11. ResultsAreEarned'
  <2>1. EarnedAll(cs, results', DOMAIN disk, history)
    <3>1. EarnedAll(cs, results, DOMAIN disk, history)
      BY DEF KInv, ResultsAreEarned, cs
    <3>2. DOMAIN results = 1 .. Len(results) /\ DOMAIN results' = 1 .. Len(results) + 1
      BY <1>4, <1>5
    <3>3. \A i \in 1 .. Len(results) + 1 : i \in 1 .. Len(results) \/ i = Len(results) + 1
      BY <1>4
    <3> QED BY <1>4, <1>5, <3>1, <3>2, <3>3 DEF EarnedAll
  <2>2. \A p : ClaimsOf(p)' = ClaimsOf(p)
    BY <1>3 DEF ClaimsOf
  <2>3. \A p \in DOMAIN verdicts' : /\ VerdictOf(verdicts'[p], ClaimsOf(p))
                                    /\ EarnedAll(ClaimsOf(p), verdicts'[p].results, DOMAIN disk', history')
    BY <1>3 DEF KInv, ResultsAreEarned
  <2>4. \A p \in DOMAIN verdicts' : /\ VerdictOf(verdicts'[p], ClaimsIn(asserted'[p]))
                                    /\ EarnedAll(ClaimsIn(asserted'[p]), verdicts'[p].results,
                                                 DOMAIN disk', history')
    BY <1>3, <2>3 DEF ClaimsOf
  <2>5. ClaimsIn(asserted'[checking'[1]]) = cs
    BY <1>7 DEF ClaimsOf
  <2> QED BY <1>3, <2>1, <2>4, <2>5 DEF ResultsAreEarned, ClaimsOf
<1> QED BY <1>8, <1>9, <1>10, <1>11 DEF KInv

(* What is recorded of a proposal.                                         *)
LEMMA VerdictIsTyped ==
  ASSUME NEW rs \in Seq(ClaimResult)
  PROVE  [verdict |-> Verdict(rs), results |-> rs, flagged |-> Flagged(rs)] \in GivenVerdict
<1>1. Verdict(rs) \in {"verified", "partial", "hallucinated", "unverifiable"}
  BY DEF Verdict
<1>2. Flagged(rs) \in BOOLEAN
  BY DEF Flagged
<1> QED BY <1>1, <1>2 DEF GivenVerdict

(* A proposal is scored when every one of its claims has a result.         *)
LEMMA ScoreKeepsK == KInv /\ ScoreProposal => KInv'
<1> SUFFICES ASSUME KInv, ScoreProposal PROVE KInv'
  OBVIOUS
<1> DEFINE v == [verdict |-> Verdict(results), results |-> results, flagged |-> Flagged(results)]
           p == checking[1]
<1>1. /\ p \in 1 .. Len(asserted) /\ ~Unchecked /\ verdicts' = Append(verdicts, v)
      /\ checking' = <<p + 1, 1>> /\ results' = <<>> /\ disk' = disk /\ asserted' = asserted
      /\ index' = index /\ lines' = lines /\ history' = history
  BY DEF ScoreProposal
<1>2. /\ asserted \in Seq(Proposal) /\ results \in Seq(ClaimResult) /\ verdicts \in Seq(GivenVerdict)
      /\ lines \in Seq(CachedLine)
      /\ Len(verdicts) \in Nat /\ p = Len(verdicts) + 1 /\ Len(asserted) \in Nat
      /\ checking[2] = Len(results) + 1 /\ Len(results) <= Len(ClaimsOf(p)) /\ Len(results) \in Nat
  BY <1>1 DEF KInv, ClaimsTypeOK, AtItsClaim
<1>3. v \in GivenVerdict
  BY <1>2, VerdictIsTyped
<1>4. Len(ClaimsOf(p)) \in Nat
  <2>1. asserted[p] \in Proposal
    BY <1>1, <1>2
  <2> QED BY <2>1, ClaimsAreClaims DEF ClaimsOf
<1>5. Len(results) = Len(ClaimsOf(p))
  <2>1. ~ (checking[2] <= Len(ClaimsOf(p)))
    BY <1>1 DEF Unchecked
  <2> HIDE DEF p
  <2> QED BY <1>2, <1>4, <2>1
<1>6. v.verdict = Verdict(results) /\ v.results = results /\ v.flagged = Flagged(results)
  OBVIOUS
<1> HIDE DEF v, p
<1>7. /\ verdicts' \in Seq(GivenVerdict) /\ Len(verdicts') = Len(verdicts) + 1
      /\ \A q \in 1 .. Len(verdicts) : verdicts'[q] = verdicts[q]
      /\ verdicts'[Len(verdicts) + 1] = v
  BY <1>1, <1>2, <1>3, AppendProperties
<1>8. checking'[1] = p + 1 /\ checking'[2] = 1 /\ checking' \in Nat \X Nat
  BY <1>1, <1>2
<1>9. ClaimsTypeOK'
  <2>1. <<>> \in Seq(ClaimResult)
    OBVIOUS
  <2> QED BY <1>1, <1>2, <1>7, <1>8, <2>1 DEF KInv, ClaimsTypeOK
<1>10. AtItsClaim'
  <2>1. checking'[1] # 0 /\ checking'[1] = Len(verdicts') + 1 /\ Len(verdicts') <= Len(asserted')
    BY <1>1, <1>2, <1>7, <1>8
  <2>2. results' = <<>> /\ Len(results') = 0 /\ checking'[2] = Len(results') + 1
    BY <1>1, <1>8
  <2>3. ASSUME checking'[1] \in 1 .. Len(asserted') PROVE 0 <= Len(ClaimsOf(checking[1])')
    <3>1. asserted'[checking'[1]] \in Proposal
      BY <1>1, <1>2, <2>3
    <3>2. ClaimsIn(asserted'[checking'[1]]) \in Seq(AnyClaim)
      BY <3>1, ClaimsAreClaims
    <3> QED BY <3>2 DEF ClaimsOf
  <2> QED BY <2>1, <2>2, <2>3 DEF AtItsClaim
<1>11. SeenIsPast'
  <2>1. HeldBy(disk)' = HeldBy(disk)
    BY <1>1 DEF HeldBy
  <2> QED BY <1>1, <2>1 DEF KInv, SeenIsPast
<1>12. ResultsAreEarned'
  <2>1. EarnedAll(ClaimsOf(checking[1])', results', DOMAIN disk', history')
    BY <1>1 DEF EarnedAll
  <2>2. DOMAIN verdicts = 1 .. Len(verdicts) /\ DOMAIN verdicts' = 1 .. Len(verdicts) + 1
    BY <1>2, <1>7
  <2>3. \A q \in 1 .. Len(verdicts) + 1 : q \in 1 .. Len(verdicts) \/ q = p
    BY <1>2
  <2>4. \A q \in DOMAIN verdicts' : /\ VerdictOf(verdicts'[q], ClaimsOf(q))
                                    /\ EarnedAll(ClaimsOf(q), verdicts'[q].results, DOMAIN disk, history)
    <3>1. ASSUME NEW q \in 1 .. Len(verdicts)
          PROVE  /\ VerdictOf(verdicts'[q], ClaimsOf(q))
                 /\ EarnedAll(ClaimsOf(q), verdicts'[q].results, DOMAIN disk, history)
      BY <1>7, <2>2 DEF KInv, ResultsAreEarned
    <3>2. VerdictOf(v, ClaimsOf(p)) /\ EarnedAll(ClaimsOf(p), v.results, DOMAIN disk, history)
      <4>1. EarnedAll(ClaimsOf(p), results, DOMAIN disk, history)
        BY DEF KInv, ResultsAreEarned, p
      <4> QED BY <1>5, <1>6, <4>1 DEF VerdictOf
    <3> QED BY <1>2, <1>7, <2>2, <2>3, <3>1, <3>2
  <2>5. \A q \in DOMAIN verdicts' : /\ VerdictOf(verdicts'[q], ClaimsIn(asserted'[q]))
                                    /\ EarnedAll(ClaimsIn(asserted'[q]), verdicts'[q].results,
                                                 DOMAIN disk', history')
    BY <1>1, <2>4 DEF ClaimsOf
  <2>6. EarnedAll(ClaimsIn(asserted'[checking'[1]]), results', DOMAIN disk', history')
    BY <2>1 DEF ClaimsOf
  <2> QED BY <2>5, <2>6 DEF ResultsAreEarned, ClaimsOf
<1> QED BY <1>9, <1>10, <1>11, <1>12 DEF KInv

(* An edit of the project takes away nothing of what the disk has held.    *)
LEMMA ChangeKeepsK == KInv /\ ChangeDisk => KInv'
<1> SUFFICES ASSUME KInv, ChangeDisk PROVE KInv'
  OBVIOUS
<1>1. /\ history' = history \cup HeldBy(disk') /\ asserted' = asserted /\ checking' = checking /\ index' = index
      /\ lines' = lines /\ results' = results /\ verdicts' = verdicts
  BY DEF ChangeDisk
<1>2. DOMAIN disk' \subseteq DOMAIN disk /\ \A f \in DOMAIN disk' : disk'[f] \in Nat
  <2>1. PICK f \in DOMAIN disk :
          \/ \E n \in Lengths \ {disk[f]} : disk' = [disk EXCEPT ![f] = n]
          \/ disk' = [g \in DOMAIN disk \ {f} |-> disk[g]]
    BY DEF ChangeDisk
  <2>2. \A g \in DOMAIN disk : disk[g] \in Nat
    BY DEF KInv, ClaimsTypeOK
  <2>3. CASE \E n \in Lengths \ {disk[f]} : disk' = [disk EXCEPT ![f] = n]
    <3>1. PICK n \in Lengths : disk' = [disk EXCEPT ![f] = n]
      BY <2>3
    <3>2. n \in Nat
      BY ClaimsAssumption
    <3> QED BY <2>2, <3>1, <3>2
  <2>4. CASE disk' = [g \in DOMAIN disk \ {f} |-> disk[g]]
    BY <2>2, <2>4
  <2> QED BY <2>1, <2>3, <2>4
<1>3. ClaimsTypeOK'
  BY <1>1, <1>2 DEF KInv, ClaimsTypeOK
<1>4. AtItsClaim'
  <2>1. \A p : ClaimsIn(asserted'[p]) = ClaimsIn(asserted[p])
    BY <1>1
  <2> QED BY <1>1, <2>1 DEF KInv, AtItsClaim, ClaimsOf
<1>5. SeenIsPast'
  <2>1. HeldBy(disk)' = HeldBy(disk')
    BY DEF HeldBy
  <2> QED BY <1>1, <2>1 DEF KInv, SeenIsPast
<1>6. ResultsAreEarned'
  <2>1. history \subseteq history'
    BY <1>1
  <2>2. EarnedAll(ClaimsIn(asserted'[checking'[1]]), results', DOMAIN disk', history')
    <3>1. EarnedAll(ClaimsIn(asserted[checking[1]]), results, DOMAIN disk, history)
      BY DEF KInv, ResultsAreEarned, ClaimsOf
    <3> QED BY <1>1, <1>2, <2>1, <3>1, EarnedStays
  <2>3. ASSUME NEW q \in DOMAIN verdicts'
        PROVE  /\ VerdictOf(verdicts'[q], ClaimsIn(asserted'[q]))
               /\ EarnedAll(ClaimsIn(asserted'[q]), verdicts'[q].results, DOMAIN disk', history')
    <3>1. /\ VerdictOf(verdicts[q], ClaimsIn(asserted[q]))
          /\ EarnedAll(ClaimsIn(asserted[q]), verdicts[q].results, DOMAIN disk, history)
      BY <1>1, <2>3 DEF KInv, ResultsAreEarned, ClaimsOf
    <3> QED BY <1>1, <1>2, <2>1, <3>1, EarnedStays
  <2> QED BY <2>2, <2>3 DEF ResultsAreEarned, ClaimsOf
<1> QED BY <1>3, <1>4, <1>5, <1>6 DEF KInv

(* The verifier is always at its claim, with results that were earned.     *)
LEMMA ClaimsIsInvariant == ClaimsSpec => []KInv
<1>1. KInv /\ [ClaimsNext]_claimVars => KInv'
  <2> SUFFICES ASSUME KInv, [ClaimsNext]_claimVars PROVE KInv'
    OBVIOUS
  <2>1. CASE UNCHANGED claimVars
    BY <2>1 DEF claimVars, KInv, ClaimsTypeOK, AtItsClaim, ClaimsOf, SeenIsPast, HeldBy, ResultsAreEarned
  <2> QED BY <2>1, BeginKeepsK, VerifyKeepsK, ScoreKeepsK, ChangeKeepsK DEF ClaimsNext
<1> QED BY <1>1, ClaimsStart, PTL DEF ClaimsSpec

-----------------------------------------------------------------------------
(* -- What the results say of the verdict.                                 *)
LEMMA QuotientIsLarge ==
  ASSUME NEW a \in Nat, NEW b \in Nat, b > 0, a >= 30 * b
  PROVE  ~ (a \div b < 30)
OBVIOUS

(* The thresholds of a verdict and of the list of likely hallucinations,   *)
(* by the total of the weights.                                            *)
LEMMA ScoresOfResults ==
  ASSUME NEW rs \in Seq(ClaimResult), NEW T \in Nat, NEW n \in Nat, T = Total(rs), n = Len(rs)
  PROVE  /\ Verdict(rs) = "verified" => n >= 1 /\ T >= 8000 * n
         /\ n >= 1 /\ T >= 8000 * n => Verdict(rs) = "verified"
         /\ Flagged(rs) => n >= 1 /\ T < 3000 * n
<1>1. CASE rs = <<>>
  <2>1. Verdict(rs) = "unverifiable" /\ Score(rs) = 50 /\ n = 0
    BY <1>1 DEF Verdict, Score
  <2>2. ~Flagged(rs)
    BY <2>1 DEF Flagged
  <2> QED BY <2>1, <2>2
<1>2. CASE rs # <<>>
  <2>1. n >= 1
    BY <1>2
  <2>2. Verdict(rs) = IF T >= 8000 * n THEN "verified" ELSE IF T >= 4000 * n THEN "partial" ELSE "hallucinated"
    BY <1>2 DEF Verdict
  <2>3. Flagged(rs) <=> (2 * T + 100 * n) \div (200 * n) < 30
    BY <1>2 DEF Flagged, Score
  <2>4. ASSUME T >= 3000 * n PROVE ~ Flagged(rs)
    <3>1. /\ 2 * T + 100 * n \in Nat /\ 200 * n \in Nat /\ 200 * n > 0
          /\ 2 * T + 100 * n >= 30 * (200 * n)
      BY <2>1, <2>4
    <3> QED BY <2>3, <3>1, QuotientIsLarge
  <2>5. 3000 * n \in Nat
    OBVIOUS
  <2> QED BY <2>1, <2>2, <2>4, <2>5
<1> QED BY <1>1, <1>2

(* The truth of a claim, with reference to the state and without.          *)
LEMMA TruthOfClaims ==
  ASSUME NEW c
  PROVE  (TrueOnce(c) <=> OnceIn(c, history)) /\ (TrueAlways(c) <=> AlwaysIn(c, DOMAIN disk, history))
<1>1. TrueOnce(c) <=> OnceIn(c, history)
  <2>1. LengthsOf(c.file) = LengthsIn(c.file, history)
    BY DEF LengthsOf, LengthsIn
  <2> QED BY <2>1 DEF TrueOnce, OnceIn
<1>2. TrueAlways(c) <=> AlwaysIn(c, DOMAIN disk, history)
  <2>1. LengthsOf(c.file) = LengthsIn(c.file, history)
    BY DEF LengthsOf, LengthsIn
  <2> QED BY <1>1, <2>1 DEF TrueAlways, AlwaysIn
<1> QED BY <1>1, <1>2

(* The verdict of one proposal, from the weights of its results.           *)
LEMMA OneVerdictIsEarned ==
  ASSUME KInv, NEW p \in DOMAIN verdicts
  PROVE  LET claims == ClaimsOf(p)
             found  == verdicts[p].results
             borne  == {i \in DOMAIN claims : TrueOnce(claims[i])}
         IN  /\ \A i \in DOMAIN claims :
                  /\ found[i].status = "verified" => i \in borne
                  /\ TrueAlways(claims[i]) => found[i].status # "hallucinated"
             /\ verdicts[p].verdict = "verified" => 3 * Cardinality(borne) >= Len(claims)
             /\ verdicts[p].flagged =>
                  3 * Cardinality({i \in DOMAIN claims : TrueAlways(claims[i])}) < Len(claims)
             /\ claims # <<>> /\ (\A i \in DOMAIN claims : TrueAlways(claims[i])) =>
                  verdicts[p].verdict = "verified"
<1> DEFINE claims == ClaimsOf(p)
           found  == verdicts[p].results
           n      == Len(claims)
           borne  == {i \in DOMAIN claims : TrueOnce(claims[i])}
           stays  == {i \in DOMAIN claims : TrueAlways(claims[i])}
           T      == Total(found)
<1>1. /\ found \in Seq(ClaimResult)
      /\ verdicts[p].verdict = Verdict(found) /\ verdicts[p].flagged = Flagged(found)
      /\ Len(found) = n /\ \A i \in DOMAIN found : EarnedIn(claims[i], found[i], DOMAIN disk, history)
      /\ claims \in Seq(AnyClaim)
  <2>1. verdicts[p] \in GivenVerdict
    BY DEF KInv, ClaimsTypeOK
  <2>2. found \in Seq(ClaimResult)
    BY <2>1 DEF GivenVerdict
  <2>3. VerdictOf(verdicts[p], ClaimsOf(p)) /\ EarnedAll(ClaimsOf(p), found, DOMAIN disk, history)
    BY DEF KInv, ResultsAreEarned
  <2>4. claims \in Seq(AnyClaim)
    <3>1. asserted[p] \in Proposal
      <4>1. /\ verdicts \in Seq(GivenVerdict) /\ asserted \in Seq(Proposal) /\ Len(verdicts) <= Len(asserted)
        BY DEF KInv, ClaimsTypeOK, AtItsClaim
      <4>2. p \in 1 .. Len(asserted)
        BY <4>1
      <4> QED BY <4>1, <4>2
    <3> QED BY <3>1, ClaimsAreClaims DEF ClaimsOf
  <2> QED BY <2>2, <2>3, <2>4 DEF VerdictOf, EarnedAll
<1> HIDE DEF claims, found
<1>2. n \in Nat /\ DOMAIN claims = 1 .. n /\ DOMAIN found = 1 .. n
  BY <1>1
<1> HIDE DEF n
<1>3. \A i \in 1 .. n : /\ found[i].status = "verified" => i \in borne
                        /\ i \in stays => found[i].status = "verified" /\ found[i].confidence >= 900
                        /\ i \in stays <=> TrueAlways(claims[i])
  BY <1>1, <1>2, TruthOfClaims DEF EarnedIn
<1>4. borne \in SUBSET (1 .. n) /\ stays \in SUBSET (1 .. n)
  BY <1>2
<1>5. (\A i \in 1 .. n : TrueAlways(claims[i])) => stays = 1 .. n
  BY <1>2
<1> HIDE DEF borne, stays
<1>6. /\ T \in Nat /\ Cardinality(borne) \in Nat /\ Cardinality(stays) \in Nat
      /\ T <= 7000 * n + 3000 * Cardinality(borne)
      /\ T >= 9000 * Cardinality(stays)
  <2>1. T \in Nat /\ Cardinality(borne) \in Nat /\ T <= 7000 * n + 3000 * Cardinality(borne)
    <3>1. /\ borne \in SUBSET (1 .. Len(found))
          /\ \A i \in 1 .. Len(found) : found[i].status = "verified" => i \in borne
      BY <1>1, <1>3, <1>4
    <3>2. /\ Total(found) \in Nat /\ Cardinality(borne) \in Nat
          /\ Total(found) <= 7000 * Len(found) + 3000 * Cardinality(borne)
      BY <1>1, <3>1, TotalIsBounded
    <3>3. Len(found) = n
      BY <1>1
    <3> QED BY <3>2, <3>3
  <2>2. Cardinality(stays) \in Nat /\ T >= 9000 * Cardinality(stays)
    <3>1. \A i \in stays : found[i].status = "verified" /\ found[i].confidence >= 900
      BY <1>3, <1>4
    <3> QED BY <1>1, <1>4, <3>1, TotalIsBounded
  <2> QED BY <2>1, <2>2
<1>7. /\ Verdict(found) = "verified" => n >= 1 /\ T >= 8000 * n
      /\ n >= 1 /\ T >= 8000 * n => Verdict(found) = "verified"
      /\ Flagged(found) => n >= 1 /\ T < 3000 * n
  BY <1>1, <1>2, <1>6, ScoresOfResults
<1>8. stays = 1 .. n => Cardinality(stays) = n
  BY <1>2, FS_Interval
<1> HIDE DEF T
<1>9. Verdict(found) = "verified" => 3 * Cardinality(borne) >= n
  BY <1>2, <1>6, <1>7
<1>10. Flagged(found) => 3 * Cardinality(stays) < n
  BY <1>2, <1>6, <1>7
<1>11. n >= 1 /\ stays = 1 .. n => Verdict(found) = "verified"
  BY <1>2, <1>6, <1>7, <1>8
<1>12. claims # <<>> => n >= 1
  BY <1>1, <1>2 DEF n
<1>13. ASSUME NEW i \in DOMAIN claims
       PROVE  /\ found[i].status = "verified" => i \in borne
              /\ TrueAlways(claims[i]) => found[i].status # "hallucinated"
  BY <1>2, <1>3
<1>14. claims # <<>> /\ (\A i \in DOMAIN claims : TrueAlways(claims[i])) => Verdict(found) = "verified"
  BY <1>2, <1>5, <1>11, <1>12
<1> QED BY <1>1, <1>9, <1>10, <1>13, <1>14 DEF claims, found, n, borne, stays

(* What the verifier says of a proposal is earned by the project, for      *)
(* every project, every proposals and whatever is edited meanwhile.        *)
THEOREM VerdictsAreAlwaysEarned == ClaimsSpec => []VerdictsAreEarned
<1>1. KInv => VerdictsAreEarned
  BY OneVerdictIsEarned DEF VerdictsAreEarned
<1> QED BY <1>1, ClaimsIsInvariant, PTL
=============================================================================
