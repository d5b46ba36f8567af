------------------------------- MODULE Claims -------------------------------
(***************************************************************************)
(* The verifier of the debate (verifier/): every claim of a proposal is    *)
(* checked against the disk, the code graph and the type evidence, without *)
(* a model call, and a proposal's results are weighed into a verdict.      *)
(* Confidences are thousandths.  The disk may change between two checks:   *)
(* what the verifier has read of a file, and the index of file names, stay *)
(* as they were when it first needed them.                                 *)
(***************************************************************************)
EXTENDS Integers, Sequences, FiniteSets

CONSTANTS
  Debates,       \* [disk, proposals]: a project and what is said of it
  Near,          \* [claimed stem, stem]: "same", "part", "near" or "far"
  Nodes,         \* names of the graph's nodes
  Within,        \* <<name, node>>: the name is a part of the node's name
  CallEdges,     \* <<caller, callee>> names with an edge in the graph
  Typed,         \* binding -> sequence of [source, close]: type evidence
  BindingPrefixes,      \* binding -> its prefixes, longest first
  Similar,       \* names for which semantic search finds something -> score
  MaxCached,     \* _MAX_CACHED_FILES
  MaxDiskEdits,  \* bound on changes of the disk meanwhile
  Lengths        \* what a file's length can become

SourceFile == [dirs : SUBSET STRING, stem : STRING, suffix : STRING]
LocationClaim ==
  [kind : {"file_location"}, file : SourceFile, line : {"none", "malformed", "inside", "outside"}]
ChainClaim   == [kind : {"call_chain"}, chain : Seq(STRING)]
PatternClaim == [kind : {"code_pattern"}, name : STRING]
TypeClaim    == [kind : {"resource_type"}, binding : DOMAIN BindingPrefixes, close : BOOLEAN]
AnyClaim     == LocationClaim \cup ChainClaim \cup PatternClaim \cup TypeClaim \cup [kind : {"other"}]
Proposal ==
  [explicit : {TRUE}, evidence : Seq(AnyClaim)] \cup
  [explicit : {FALSE}, location : Seq(LocationClaim), words : Seq(STRING), chains : Seq(ChainClaim)]
Evidence == [source : {"checker", "surface"}, close : BOOLEAN]

ASSUME ClaimsAssumption ==
  /\ \A d \in Debates : /\ DOMAIN d.disk \subseteq SourceFile /\ \A f \in DOMAIN d.disk : d.disk[f] \in Nat
                       /\ d.proposals \in Seq(Proposal)
  /\ \A b \in DOMAIN Typed : Typed[b] \in Seq(Evidence) \ {<<>>}
  /\ \A b \in DOMAIN BindingPrefixes : BindingPrefixes[b] \in Seq(STRING)
  /\ \A n \in DOMAIN Similar : Similar[n] \in 0 .. 1000
  /\ MaxCached \in Nat \ {0} /\ MaxDiskEdits \in Nat /\ Lengths \subseteq Nat

Unreadable == 0  \* the length that stands for a file over the read limit

VARIABLES
  disk,       \* [dirs, stem, suffix] -> number of lines
  diskEdits,  \* changes left
  asserted,   \* the proposals
  checking,   \* <<proposal, claim>> about to be checked
  index,      \* [built, files]: the files known when the index was built
  lines,      \* the files read of late, [file, length], the oldest first
  results,    \* results of the present proposal's claims
  verdicts,   \* verdict of each proposal
  history     \* ghost: <<file, length>> the disk has held since the start

claimVars == <<disk, diskEdits, asserted, checking, index, lines, results, verdicts, history>>

HeldBy(d) == {<<f, d[f]>> : f \in DOMAIN d}
ClaimsInit ==
  /\ disk = [f \in {} |-> 0] /\ asserted = <<>>
  /\ diskEdits = MaxDiskEdits /\ checking = <<0, 1>>
  /\ index = [built |-> FALSE, files |-> {}]
  /\ lines = <<>> /\ results = <<>> /\ verdicts = <<>>
  /\ history = {}

BeginDebate ==
  /\ checking = <<0, 1>> /\ checking' = <<1, 1>>
  /\ \E d \in Debates : disk' = d.disk /\ asserted' = d.proposals /\ history' = HeldBy(d.disk)
  /\ UNCHANGED <<diskEdits, index, lines, results, verdicts>>

NoFile == "no file"
Result(status, confidence, file) == [status |-> status, confidence |-> confidence, file |-> file]

-----------------------------------------------------------------------------
(* _fuzzy_resolve: the only file of that name, or of several the one that  *)
(* shares strictly more directories; else the best by stem.                *)
Names(known, file) == {f \in known : f.stem = file.stem /\ f.suffix = file.suffix}
Shared(file, f) == Cardinality(file.dirs \cap f.dirs)

MostShared(file, same) ==
  {f \in same : file.dirs # {} /\ \A g \in same \ {f} : Shared(file, f) > Shared(file, g)}

(* The stem's score, in tenths, with the shared directories.               *)
StemScore(file, f) ==
  LET likeness == Near[<<file.stem, f.stem>>]
      extension == IF f.suffix = file.suffix THEN 2 ELSE 0 IN
  Shared(file, f) + CASE likeness = "same" -> 8 + extension
                      [] likeness = "part" -> 5 + extension
                      [] likeness = "near" -> 3
                      [] likeness = "far"  -> 0

Candidates(known, file) == {f \in known : StemScore(file, f) > 3}
BestByStem(known, file) ==
  {f \in Candidates(known, file) :
     \A g \in Candidates(known, file) : StemScore(file, g) <= StemScore(file, f)}

(* The files it may resolve to, among equals whichever was listed first.   *)
FuzzyMatches(known, file) ==
  LET same == Names(known, file) IN
  IF Cardinality(same) = 1 THEN same
  ELSE IF same # {} THEN MostShared(file, same) ELSE BestByStem(known, file)

(* _verify_line, with the length of the file as it was first read: the     *)
(* claimed line is none, malformed, "inside" (the second one) or "outside" *)
CheckLine(file, line, exact, length) ==
  CASE line = "none" -> IF exact THEN Result("verified", 900, file) ELSE Result("partial", 700, file)
    [] OTHER ->
         LET unsettled == IF exact THEN "unverifiable" ELSE "partial" IN
         IF line = "malformed" \/ length = Unreadable THEN Result(unsettled, 0, file)
         ELSE IF line = "inside" /\ length >= 2 THEN Result(IF exact THEN "verified" ELSE "partial",
                                                            IF exact THEN 900 ELSE 600, file)
         ELSE Result(unsettled, 300, file)

(* _read_file: what is in the cache, else the file, for which the oldest   *)
(* entry of a full cache makes room.                                       *)
Cached(file) == {i \in DOMAIN lines : lines[i].file = file}
LengthOf(file) == IF Cached(file) # {} THEN lines[CHOOSE i \in Cached(file) : TRUE].length ELSE disk[file]
Read(file) ==
  IF Cached(file) # {} THEN lines
  ELSE Append(IF Len(lines) >= MaxCached THEN Tail(lines) ELSE lines, [file |-> file, length |-> disk[file]])
NeedsLines(line) == line \notin {"none", "malformed"}

(* _verify_location_claim: the path as claimed, else one like it.          *)
CheckLocation(claim) ==
  LET known == IF index.built THEN index.files ELSE DOMAIN disk
      Checked(file, exact) ==
        /\ results' = Append(results, CheckLine(file, claim.line, exact, LengthOf(file)))
        /\ lines' = IF NeedsLines(claim.line) THEN Read(file) ELSE lines
      Unfound == results' = Append(results, Result("hallucinated", 0, NoFile)) /\ UNCHANGED lines IN
  IF claim.file \in DOMAIN disk
    THEN Checked(claim.file, TRUE) /\ UNCHANGED index
    ELSE /\ index' = [built |-> TRUE, files |-> known]
         /\ \/ FuzzyMatches(known, claim.file) = {} /\ Unfound
            \/ \E f \in FuzzyMatches(known, claim.file) :
                 IF f \in DOMAIN disk THEN Checked(f, FALSE) ELSE Unfound

(* _verify_call_claim, with the share of edges the graph has.              *)
Joined(chain) == {i \in 1 .. Len(chain) - 1 : <<chain[i], chain[i + 1]>> \in CallEdges}
CheckChain(claim) ==
  LET total == Len(claim.chain) - 1
      valid == Cardinality(Joined(claim.chain)) IN
  IF total >= 1 /\ valid = total THEN Result("verified", 1000, NoFile)
  ELSE IF total >= 1 /\ 2 * valid >= total THEN Result("partial", (1000 * valid) \div total, NoFile)
  ELSE Result("hallucinated", 0, NoFile)

(* _verify_pattern_claim: a node whose name contains the target, else what *)
(* semantic search offers.                                                 *)
CheckPattern(claim) ==
  IF \E n \in Nodes : <<claim.name, n>> \in Within THEN Result("verified", 900, NoFile)
  ELSE IF claim.name \in DOMAIN Similar THEN Result("partial", Similar[claim.name], NoFile)
  ELSE Result("hallucinated", 0, NoFile)

(* _verify_type_claim: evidence of the binding, else of its longest prefix *)
(* that has some; the type checker's before the surface's.                 *)
FirstIn(P) == CHOOSE i \in P : \A j \in P : i <= j

EvidenceOf(binding) ==
  LET tried == <<binding>> \o BindingPrefixes[binding]
      known == {i \in DOMAIN tried : tried[i] \in DOMAIN Typed} IN
  IF known = {} THEN <<>> ELSE Typed[tried[FirstIn(known)]]

Selected(evidence) ==
  LET checked == {i \in DOMAIN evidence : evidence[i].source = "checker"} IN
  evidence[IF checked # {} THEN FirstIn(checked) ELSE 1]

CheckType(claim) ==
  LET evidence == EvidenceOf(claim.binding) IN
  IF evidence = <<>> THEN Result("unverifiable", 0, NoFile)
  ELSE IF Selected(evidence).close = claim.close THEN Result("verified", 900, NoFile)
  ELSE Result("hallucinated", 0, NoFile)

-----------------------------------------------------------------------------
(* _extract_claims: the explicit list if there is one, even an empty one;  *)
(* else the location, a pattern for each of the problem's first five words *)
(* that look like names, and the chains of the steps.                      *)
MaxWords == 5
Patterns(words) ==
  [i \in 1 .. (IF Len(words) < MaxWords THEN Len(words) ELSE MaxWords) |->
     [kind |-> "code_pattern", name |-> words[i]]]
ClaimsIn(said) ==
  IF said.explicit THEN said.evidence ELSE said.location \o Patterns(said.words) \o said.chains
ClaimsOf(p) == ClaimsIn(asserted[p])

Unchecked == checking[1] \in 1 .. Len(asserted) /\ checking[2] <= Len(ClaimsOf(checking[1]))
Claim == ClaimsOf(checking[1])[checking[2]]

CheckElsewhere(kinds, result) ==
  /\ Claim.kind \in kinds
  /\ results' = Append(results, result) /\ UNCHANGED <<index, lines>>

VerifyClaim ==
  /\ Unchecked
  /\ \/ Claim.kind = "file_location" /\ CheckLocation(Claim)
     \/ Claim.kind = "call_chain" /\ CheckElsewhere({"call_chain"}, CheckChain(Claim))
     \/ Claim.kind = "code_pattern" /\ CheckElsewhere({"code_pattern"}, CheckPattern(Claim))
     \/ Claim.kind = "resource_type" /\ CheckElsewhere({"resource_type"}, CheckType(Claim))
     \/ CheckElsewhere({"other"}, Result("unverifiable", 0, NoFile))
  /\ checking' = <<checking[1], checking[2] + 1>>
  /\ UNCHANGED <<disk, diskEdits, asserted, verdicts, history>>

(* A mutant: a corrected or half-found claim counts in full.               *)
FullWeight(r) == IF r.status = "unverifiable" THEN 3000 ELSE 10 * r.confidence

(* _score_proposal, in thousandths of a claim and tenths of a weight: a    *)
(* partial result counts seven tenths, an unverifiable one three.          *)
Weight(r) == CASE r.status = "verified"     -> 10 * r.confidence
               [] r.status = "partial"      -> 7 * r.confidence
               [] r.status = "unverifiable" -> 3000
               [] r.status = "hallucinated" -> 0

Total(rs) ==
  LET sum[i \in 0 .. Len(rs)] == IF i = 0 THEN 0 ELSE sum[i - 1] + Weight(rs[i])
  IN  sum[Len(rs)]

(* The scorer's list of likely hallucinations: a score, rounded to         *)
(* hundredths, below the threshold of three tenths.                        *)
Score(rs) == IF rs = <<>> THEN 50 ELSE (2 * Total(rs) + 100 * Len(rs)) \div (200 * Len(rs))
Flagged(rs) == Score(rs) < 30

Verdict(rs) ==
  IF rs = <<>> THEN "unverifiable"
  ELSE IF Total(rs) >= 8000 * Len(rs) THEN "verified"
  ELSE IF Total(rs) >= 4000 * Len(rs) THEN "partial"
  ELSE "hallucinated"

ScoreProposal ==
  /\ checking[1] \in 1 .. Len(asserted) /\ ~Unchecked
  /\ verdicts' = Append(verdicts, [verdict |-> Verdict(results), results |-> results,
                                   flagged |-> Flagged(results)])
  /\ checking' = <<checking[1] + 1, 1>> /\ results' = <<>>
  /\ UNCHANGED <<disk, diskEdits, asserted, index, lines, history>>

ChangeDisk ==
  /\ diskEdits > 0 /\ checking[1] \in 1 .. Len(asserted)
  /\ \E f \in DOMAIN disk :
       \/ \E n \in Lengths \ {disk[f]} : disk' = [disk EXCEPT ![f] = n]
       \/ disk' = [g \in DOMAIN disk \ {f} |-> disk[g]]
  /\ diskEdits' = diskEdits - 1 /\ history' = history \cup HeldBy(disk')
  /\ UNCHANGED <<asserted, checking, index, lines, results, verdicts>>

ClaimsNext == BeginDebate \/ VerifyClaim \/ ScoreProposal \/ ChangeDisk
ClaimsSpec == ClaimsInit /\ [][ClaimsNext]_claimVars
ClaimsEnd  == asserted # <<>> /\ checking[1] > Len(asserted)

-----------------------------------------------------------------------------
(* What the project says of a claim.  A location is true of one of the     *)
(* contents the disk has had, or of all of them.                           *)
FitsLine(line, length) == line = "none" \/ (line = "inside" /\ length >= 2)
LengthsOf(file) == {h[2] : h \in {k \in history : k[1] = file}}

TrueOnce(claim) ==
  CASE claim.kind = "file_location" -> \E n \in LengthsOf(claim.file) : FitsLine(claim.line, n)
    [] claim.kind = "call_chain"    -> Len(claim.chain) >= 2 /\ Joined(claim.chain) = 1 .. Len(claim.chain) - 1
    [] claim.kind = "code_pattern"  -> \E n \in Nodes : <<claim.name, n>> \in Within
    [] claim.kind = "resource_type" -> LET es == EvidenceOf(claim.binding)
                                       IN \E i \in DOMAIN es : es[i].close = claim.close
    [] OTHER -> FALSE

TrueAlways(claim) ==
  CASE claim.kind = "file_location" -> /\ claim.file \in DOMAIN disk
                                       /\ \A n \in LengthsOf(claim.file) : FitsLine(claim.line, n)
    [] claim.kind = "resource_type" -> LET es == EvidenceOf(claim.binding)
                                       IN es # <<>> /\ \A i \in DOMAIN es : es[i].close = claim.close
    [] OTHER -> TrueOnce(claim)

(* A verdict on a proposal is earned by the project, whatever was edited   *)
(* while its claims were checked: a claim found verified was true of the   *)
(* project at some time, a proposal is "verified" only if a third of its   *)
(* claims were, it is "verified" if all of them stayed true, it is listed  *)
(* as a likely hallucination only if fewer than a third did, and a claim   *)
(* that stayed true is never reported as hallucinated.                     *)
VerdictsAreEarned ==
  \A p \in DOMAIN verdicts :
    LET claims == ClaimsOf(p)
        found  == verdicts[p].results
        borne  == {i \in DOMAIN claims : TrueOnce(claims[i])} IN
    /\ \A i \in DOMAIN claims :
         /\ found[i].status = "verified" => i \in borne
         /\ TrueAlways(claims[i]) => found[i].status # "hallucinated"
    /\ verdicts[p].verdict = "verified" => 3 * Cardinality(borne) >= Len(claims)
    /\ verdicts[p].flagged => 3 * Cardinality({i \in DOMAIN claims : TrueAlways(claims[i])}) < Len(claims)
    /\ claims # <<>> /\ (\A i \in DOMAIN claims : TrueAlways(claims[i])) => verdicts[p].verdict = "verified"
=============================================================================
