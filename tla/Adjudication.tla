---------------------------- MODULE Adjudication ----------------------------
(***************************************************************************)
(* How each finding is to be handled (analysis/adjudication.py): by an     *)
(* entry of the user's intent memory, by an intent its own file documents  *)
(* (analysis/intent.py), by what the rule says of its patch, or by whether *)
(* its trigger is reachable.                                               *)
(*                                                                         *)
(* A file is [path, kind, lines]; its kind is "document", "source", or     *)
(* "passed over" for one that is skipped or cannot be read.  A line is     *)
(* [comment, kinds], with the kinds of intent its text matches in the      *)
(* order of the patterns.  Files come in the order of their paths.         *)
(***************************************************************************)
EXTENDS IntentMemory

CONSTANTS Repositories,                \* [files, buried, entries, findings]
          MaxIntentFiles, MaxIntents   \* max_files and max_facts of the scanner

IntentKinds == {"fail_stop", "intentional", "trade_off", "out_of_scope", "bounded_retry"}

Place       == [dots : BOOLEAN, name : STRING]
IntentLine  == [comment : BOOLEAN, kinds : Seq(IntentKinds)]
ProjectFile == [path : Place, kind : {"document", "source", "passed over"}, lines : Seq(IntentLine)]
DeclaredIntent == [label : STRING, path : Place, rule : STRING, source : Nat]
ReportedCase == [rule : STRING, path : Place, risky : BOOLEAN, unreachable : BOOLEAN]

ASSUME AdjudicationAssumption ==
  /\ {MaxIntentFiles, MaxIntents} \subseteq Nat \ {0}
  /\ Repositories \subseteq
       [files : Seq(ProjectFile), buried : BOOLEAN, entries : Seq(DeclaredIntent),
        findings : Seq(ReportedCase)]

IntentLabel(kind) ==
  CASE kind \in {"fail_stop", "intentional"} -> "intentional"
    [] kind \in {"trade_off", "bounded_retry"} -> "design_trade_off"
    [] kind = "out_of_scope" -> "out_of_scope"

LabelPriority(label) ==
  CASE label = "intentional" -> 0 [] label = "out_of_scope" -> 1 [] label = "design_trade_off" -> 2

VARIABLES
  repository,   \* none, or the one that is adjudicated
  place,        \* the file the scan looks at
  scanned,      \* how many it read
  intents,      \* the facts it found
  scanning,     \* does it go on?
  decided       \* the labels of the first findings

adjudicationVars == <<repository, place, scanned, intents, scanning, decided>>

AdjudicationInit ==
  /\ repository = <<>> /\ place = 1 /\ scanned = 0 /\ intents = <<>> /\ scanning = TRUE
  /\ decided = <<>>

Repository == repository[1]

Begin ==
  /\ repository = <<>>
  /\ \E r \in Repositories : repository' = <<r>>
  /\ UNCHANGED <<place, scanned, intents, scanning, decided>>

-----------------------------------------------------------------------------
(* _scan_text: the intents of each line that counts, a document's lines    *)
(* and a source's comments.                                                *)
FactsOfLine(file, n) ==
  LET line == file.lines[n] IN
  IF file.kind = "document" \/ line.comment
  THEN [k \in DOMAIN line.kinds |-> [path |-> file.path, line |-> n, kind |-> line.kinds[k]]]
  ELSE <<>>

FactsOfFile(file) ==
  LET facts[n \in 0 .. Len(file.lines)] ==
        IF n = 0 THEN <<>> ELSE facts[n - 1] \o FactsOfLine(file, n)
  IN  facts[Len(file.lines)]

UpToLimit(facts) == IF Len(facts) > MaxIntents THEN SubSeq(facts, 1, MaxIntents) ELSE facts

(* A directory to skip counts wherever it is in the absolute path: in a    *)
(* repository that is buried in one, every file is passed over.            *)
PassedOver(file) == Repository.buried \/ file.kind = "passed over"

(* scan: the next file, and the bounds that end the loop before it.        *)
ScanFile ==
  /\ repository # <<>> /\ scanning
  /\ place <= Len(Repository.files) /\ Len(intents) < MaxIntents /\ scanned < MaxIntentFiles
  /\ LET file == Repository.files[place] IN
     IF PassedOver(file)
     THEN UNCHANGED <<scanned, intents>>
     ELSE scanned' = scanned + 1 /\ intents' = UpToLimit(intents \o FactsOfFile(file))
  /\ place' = place + 1
  /\ UNCHANGED <<repository, scanning, decided>>

ScanEnds ==
  /\ repository # <<>> /\ scanning
  /\ \/ place > Len(Repository.files)
     \/ Len(intents) >= MaxIntents \/ scanned >= MaxIntentFiles
  /\ scanning' = FALSE
  /\ UNCHANGED <<repository, place, scanned, intents, decided>>

(* for_file: both paths without their leading dots.                        *)
FactsFor(path) ==
  {intents[i] : i \in {k \in DOMAIN intents : Stripped(intents[k].path) = Stripped(path)}}

(* Mutant: the first line speaks for the file.                             *)
SpeaksFirst(f, g) == f.line <= g.line

(* _label_from_intent: the label of least priority speaks for the file.    *)
Speaks(f, g) ==
  LET a == LabelPriority(IntentLabel(f.kind))
      b == LabelPriority(IntentLabel(g.kind))
  IN  a < b \/ (a = b /\ f.line <= g.line)

LabelFromIntents(facts) ==
  IntentLabel((CHOOSE f \in facts : \A g \in facts : Speaks(f, g)).kind)

(* Adjudicator._adjudicate_one.                                            *)
LabelFor(finding) ==
  LET declared == MatchingEntries(Repository.entries, finding.rule, finding.path)
      facts    == FactsFor(finding.path) IN
  CASE declared # <<>>                 -> Head(declared).label
    [] declared = <<>> /\ facts # {}   -> LabelFromIntents(facts)
    [] OTHER -> IF finding.risky THEN "design_trade_off"
                ELSE IF finding.unreachable THEN "theoretical" ELSE "actionable"

Decide ==
  /\ repository # <<>> /\ ~scanning /\ Len(decided) < Len(Repository.findings)
  /\ decided' = Append(decided, LabelFor(Repository.findings[Len(decided) + 1]))
  /\ UNCHANGED <<repository, place, scanned, intents, scanning>>

AdjudicationNext == Begin \/ ScanFile \/ ScanEnds \/ Decide

AdjudicationSpec == AdjudicationInit /\ [][AdjudicationNext]_adjudicationVars

AdjudicationEnd ==
  repository # <<>> /\ ~scanning /\ Len(decided) = Len(Repository.findings)

-----------------------------------------------------------------------------
(* What the files the scan may read say, all of it.                        *)
StatedIn(i) == IF PassedOver(Repository.files[i]) THEN <<>> ELSE FactsOfFile(Repository.files[i])

StatedUpTo(n) ==
  LET facts[i \in 0 .. Len(Repository.files)] == IF i = 0 THEN <<>> ELSE facts[i - 1] \o StatedIn(i)
  IN  facts[n]

Stated == StatedUpTo(Len(Repository.files))

(* The scan keeps what is stated in the order of the files, and leaves     *)
(* something out only at a bound.                                          *)
ScanIsABeginning ==
  (repository # <<>> /\ ~scanning) =>
    /\ IsPrefix(intents, Stated)
    /\ Len(intents) < Len(Stated) => Len(intents) = MaxIntents \/ scanned = MaxIntentFiles

(* "Missing intent always yields unknown, never a fabricated intent"       *)
(* (intent.py:11-12): a finding is kept from the actionable ones only by   *)
(* an entry about it, a text of its own file or its own rule; and within   *)
(* the bounds what its file says is heard, the strongest intent first,     *)
(* in whatever order the lines and files come.                             *)
DecisionsAreEarned ==
  /\ ScanIsABeginning
  /\ \A i \in DOMAIN decided :
       LET finding == Repository.findings[i]
           about  == {e \in ToSet(Repository.entries) : EntryMatches(e, finding.rule, finding.path)}
           said   == {IntentLabel(f.kind) : f \in {g \in ToSet(Stated) : Stripped(g.path) = Stripped(finding.path)}} IN
       /\ decided[i] # "actionable" =>
            \/ decided[i] \in {e.label : e \in about}
            \/ about = {} /\ decided[i] \in said
            \/ about = {} /\ (finding.risky \/ finding.unreachable)
       /\ (about = {} /\ said # {} /\ Len(intents) = Len(Stated)) =>
            decided[i] \in said /\ \A l \in said : LabelPriority(decided[i]) <= LabelPriority(l)
=============================================================================
