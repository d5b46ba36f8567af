----------------------------- MODULE Preflight -----------------------------
(***************************************************************************)
(* "smartbench preflight": before a report's findings are filed upstream,  *)
(* each is looked up in the branches and the history of the repository     *)
(* (frontends/git_branch_checker.py), in the user's intent memory, and in  *)
(* the issues of the upstream project (frontends/upstream_checker.py), and *)
(* gets one verdict.  What was discussed upstream is recorded in the       *)
(* memory, which "intent add" may be writing at the same time, and the     *)
(* next preflight of the report reads it.                                  *)
(*                                                                         *)
(* A finding is [rule, path, line, language, queries]: its line is 0 when  *)
(* it has none; queries is the number of searches its terms give (0 when   *)
(* none is distinctive, 2 when the precise one can be relaxed).            *)
(***************************************************************************)
EXTENDS IntentMemory, FeedbackPolicy

CONSTANTS Reports,      \* sequences of findings
          UserEntries,  \* what "intent add" may declare
          EventLogs,    \* recorded feedback
          Hints,        \* kinds of intent markers: "design", "decline"
          MaxFindings,  \* --max-findings
          MaxRuns,      \* bound: preflights of the report
          MaxKills      \* bound: commands killed

ReportedFinding ==
  [rule : STRING, path : [dots : BOOLEAN, name : STRING], line : Nat, language : STRING,
   queries : Nat]
RecordedEvent == [rule : STRING, language : STRING, actionable : BOOLEAN]

ASSUME PreflightAssumption ==
  /\ Reports \subseteq Seq(ReportedFinding) /\ EventLogs \subseteq Seq(RecordedEvent)
  /\ Hints \subseteq {"design", "decline"}
  /\ MaxFindings \in Nat \ {0} /\ MaxRuns \in Nat /\ MaxKills \in Nat

VARIABLES
  report,
  overlapping,    \* may commands overlap?
  memory,         \* the file intent.yaml
  at, index,      \* the step of the preflight, and the finding it is at
  declared,       \* the memory it loaded first
  fixed,          \* the files and lines for which a fix was found
  tries,          \* the searches it has made for the finding it is at
  results,        \* the status of each finding looked up
  limited,        \* was the search rate limit reached?
  pending,        \* the document it is about to write
  rows,           \* the verdicts, in the order they are shown
  adder, adding,  \* the step of "intent add", and the document it writes
  runs, kills,
  answers,        \* history: the last answer to a search for each finding, or ""
  fixable,        \* history: findings whose own lookup found a fix
  told,           \* history: findings recorded as discussed by earlier runs
  kept            \* history: entries whose command reported them saved

runVars == <<declared, fixed, tries, results, limited, pending, rows, answers, fixable>>
preflightVars == <<report, overlapping, memory, at, index, runVars, adder, adding,
                   runs, kills, told, kept>>

Cleared ==
  /\ fixed' = {} /\ tries' = 0 /\ answers' = [i \in DOMAIN report |-> ""]
  /\ results' = <<>> /\ limited' = FALSE /\ pending' = <<>> /\ rows' = <<>> /\ fixable' = {}

PreflightInit ==
  /\ report = <<>> /\ overlapping = FALSE
  /\ memory = AbsentFile
  /\ at = "none" /\ index = 1
  /\ declared = <<>> /\ fixed = {} /\ tries = 0 /\ results = <<>> /\ limited = FALSE /\ pending = <<>>
  /\ rows = <<>> /\ answers = <<>> /\ fixable = {}
  /\ adder = "idle" /\ adding = <<>> /\ runs = 0 /\ kills = 0 /\ told = {} /\ kept = {}

Findings == DOMAIN report

(* The report is there before any command.                                 *)
Given ==
  /\ at = "none" /\ at' = "idle"
  /\ report' \in Reports /\ overlapping' \in BOOLEAN
  /\ UNCHANGED <<memory, index, runVars, adder, adding, runs, kills, told, kept>>

(* Commands that do not overlap: one starts when the other has ended.      *)
MayStart == overlapping \/ (at \in {"idle", "done"} /\ adder = "idle")

(* A preflight reads the memory once, before anything else, and ends there *)
(* when that raises; --repo and --branches decide whether it looks at the  *)
(* branches.                                                               *)
Starts ==
  /\ at \in {"idle", "done"} /\ MayStart /\ runs < MaxRuns /\ runs' = runs + 1
  /\ Loads(memory)
  /\ declared' = LoadMemory(memory) /\ Cleared /\ index' = 1
  /\ at' \in {"branches", "searches"}
  /\ UNCHANGED <<report, overlapping, memory, adder, adding, kills, told, kept>>

(* The preflight ends with exit status 1, or is killed.                    *)
Stops ==
  /\ at' = "idle" /\ index' = 1 /\ declared' = <<>> /\ Cleared
  /\ UNCHANGED <<report, overlapping, adder, adding, runs, told, kept>>

Quits == Stops /\ UNCHANGED <<memory, kills>>

-----------------------------------------------------------------------------
(* GitBranchChecker.  The known refs are the local ones, and origin/<b>    *)
(* fetched for each active branch b that no ref goes by.  A ref has the    *)
(* file of a finding or not; its function there has more clean-up patterns *)
(* than on the scanned branch, or adds lines with some, or neither.        *)
Refs     == {"dev", "origin/dev", "release/1"}
BranchOf(ref) == IF ref = "release/1" THEN "release" ELSE "dev"
Contents == {"absent", "same", "more", "added"}

(* What is found out is kept by file and line.                             *)
PlaceOf(i) == <<report[i].path, report[i].line>>
Located(i) == report[i].path # NoPlace /\ report[i].line # 0

WithFix(found, i) == IF found THEN fixed \cup {PlaceOf(i)} ELSE fixed \ {PlaceOf(i)}

(* check(): of the refs of one branch, the first with a fix, in whatever   *)
(* order the set of their names is walked; a ref without the file is       *)
(* passed over.                                                            *)
Fixes(known, contents, branch) ==
  LET fixing == {r \in known : BranchOf(r) = branch /\ contents[r] \in {"more", "added"}}
  IN  IF fixing = {} THEN {{}} ELSE {{r} : r \in fixing}

(* Without a fix on any ref, any other commit of the file's history that   *)
(* brought or took a clean-up call counts as one.  The result takes the    *)
(* place of that of an earlier finding on the line.                        *)
CheckBranches(known, contents, history) ==
  /\ at = "branches" /\ index \in Findings
  /\ IF Located(index)
     THEN /\ \E d \in Fixes(known, contents, "dev"), r \in Fixes(known, contents, "release") :
               fixed' = WithFix(d \cup r # {} \/ history, index)
          /\ fixable' = IF history \/ \E ref \in known : contents[ref] \in {"more", "added"}
                        THEN fixable \cup {index} ELSE fixable
     ELSE UNCHANGED <<fixed, fixable>>
  /\ index' = index + 1
  /\ UNCHANGED <<report, overlapping, memory, at, declared, tries, results,
                 limited, pending, rows, answers, adder, adding, runs, kills, told, kept>>

(* The file is not in the working tree, or a git command raises: the       *)
(* finding gets an error, which is not a fix.                              *)
CheckFails ==
  /\ at = "branches" /\ index \in Findings /\ Located(index) /\ index' = index + 1
  /\ fixed' = WithFix(FALSE, index)
  /\ UNCHANGED <<report, overlapping, memory, at, declared, tries, results, limited, pending,
                 rows, answers, fixable, adder, adding, runs, kills, told, kept>>

(* Listing or fetching the branches raises, or the repository is none.     *)
CheckerFails == at = "branches" /\ index = 1 /\ Quits

(* --upstream is optional too.                                             *)
BranchesDone ==
  /\ at = "branches" /\ index = Len(report) + 1
  /\ at' \in {"searches", "rows"} /\ index' = 1
  /\ UNCHANGED <<report, overlapping, memory, runVars, adder, adding, runs,
                 kills, told, kept>>

-----------------------------------------------------------------------------
(* GitHubUpstreamChecker.check, over the first MaxFindings findings.       *)
Looked == SubSeq(report, 1, IF Len(report) < MaxFindings THEN Len(report) ELSE MaxFindings)

(* What a search returns: items of which one is open; closed items, one    *)
(* with a marker that says the behaviour is by design, or declined; closed *)
(* items without one; no item; no item and no request left; the rate       *)
(* limit; an HTTP error.                                                   *)
Hinted  == Hints
Items   == {"open", "closed"} \cup Hinted
Answers == Items \cup {"empty", "last", "limit", "error"}

StatusOf(answer) ==
  CASE answer = "open" -> "mentioned" [] answer \in Hinted -> "discussed"
    [] answer = "closed" -> "closed"  [] answer = "limit" -> "rate_limited"
    [] answer = "error" -> "error"    [] answer \in {"empty", "last"} -> "none"

Searched(status, more, answer) ==
  /\ results' = Append(results, status)
  /\ answers' = [answers EXCEPT ![index] = answer]
  /\ limited' = (limited \/ more) /\ index' = index + 1 /\ tries' = 0

(* A finding for which no request is sent.                                 *)
Unsearched ==
  /\ at = "searches" /\ index \in DOMAIN Looked
  /\ \/ limited /\ Searched("rate_limited", FALSE, "")
     \/ ~limited /\ report[index].queries = 0 /\ Searched("error", FALSE, "")
  /\ UNCHANGED <<report, overlapping, memory, at, declared, fixed, pending, rows,
                 fixable, adder, adding, runs, kills, told, kept>>

(* Mutant: an error goes on to the next finding without a result.          *)
SearchSkippingErrors(answer) ==
  /\ at = "searches" /\ index \in DOMAIN Looked /\ ~limited
  /\ tries < report[index].queries
  /\ IF answer = "empty" /\ tries + 1 < report[index].queries
     THEN tries' = tries + 1 /\ UNCHANGED <<answers, results, limited, index>>
     ELSE IF answer = "error"
     THEN index' = index + 1 /\ tries' = 0 /\ UNCHANGED <<results, limited, answers>>
     ELSE Searched(StatusOf(answer), answer \in {"limit", "last"}, answer)
  /\ UNCHANGED <<report, overlapping, memory, at, declared, fixed, pending, rows,
                 fixable, adder, adding, runs, kills, told, kept>>

(* One request: only an empty answer, with requests left, makes it try the *)
(* relaxed query.                                                          *)
Search(answer) ==
  /\ at = "searches" /\ index \in DOMAIN Looked /\ ~limited
  /\ tries < report[index].queries
  /\ IF answer = "empty" /\ tries + 1 < report[index].queries
     THEN tries' = tries + 1 /\ UNCHANGED <<answers, results, limited, index>>
     ELSE Searched(StatusOf(answer), answer \in {"limit", "last"}, answer)
  /\ UNCHANGED <<report, overlapping, memory, at, declared, fixed, pending, rows,
                 fixable, adder, adding, runs, kills, told, kept>>

(* An answer that is not JSON raises what the checker does not catch.      *)
SearchBreaks ==
  /\ at = "searches" /\ index \in DOMAIN Looked /\ ~limited /\ report[index].queries > 0
  /\ Quits

(* --record is the default.                                                *)
SearchesDone ==
  /\ at = "searches" /\ index > Len(Looked)
  /\ at' \in {"record", "rows"} /\ index' = 1
  /\ UNCHANGED <<report, overlapping, memory, runVars, adder, adding, runs,
                 kills, told, kept>>

-----------------------------------------------------------------------------
Discussed == {i \in DOMAIN results : results[i] = "discussed"}

(* The entry record_discussed makes of a finding; its source is the issue. *)
EntryFor(i) ==
  [label |-> IF answers[i] = "design" THEN "intentional" ELSE "design_trade_off",
   path |-> report[i].path, rule |-> report[i].rule, source |-> i]

(* The memory with an entry for each result that says discussed.           *)
WithDiscussed(entries) ==
  LET list[i \in 0 .. Len(results)] ==
        IF i = 0 THEN entries
        ELSE IF i \in Discussed THEN WithEntry(list[i - 1], EntryFor(i)) ELSE list[i - 1]
  IN  list[Len(results)]

(* record_discussed reads the memory again, and writes it when it has      *)
(* something to add.                                                       *)
RecordsDiscussed ==
  /\ at = "record" /\ Loads(memory)
  /\ LET before == LoadMemory(memory)
         after  == WithDiscussed(before) IN
     IF after = before
     THEN at' = "rows" /\ told' = told \cup Discussed /\ UNCHANGED pending
     ELSE at' = "truncate" /\ pending' = after /\ UNCHANGED told
  /\ UNCHANGED <<report, overlapping, memory, index, declared, fixed, tries,
                 results, limited, rows, answers, fixable, adder, adding, runs, kills, kept>>

RecordBreaks == at = "record" /\ ~Loads(memory) /\ Quits

(* The document with its entries up to the nth, whose lines after the      *)
(* label are cut off, or are those of another document.                    *)
CutAt(entries, n) ==
  EntriesFile(Append(SubSeq(entries, 1, n - 1), [entries[n] EXCEPT !.path = NoPlace, !.rule = NoRule]))

(* save() is write_text: it truncates the file, then writes it; after the  *)
(* text comes the rest of what another process has written meanwhile.      *)
Overwritten(file, entries) ==
  {EntriesFile(entries)} \cup
  (IF file.state = "empty" THEN {} ELSE {TornFile, BrokenFile, CutAt(entries, Len(entries))})

(* A part of the text is a document too when it is cut between two lines.  *)
PartlyWritten(file, entries) ==
  {file, TornFile, BrokenFile} \cup
  UNION {{CutAt(entries, n), EntriesFile(SubSeq(entries, 1, n))} : n \in DOMAIN entries}

Truncates ==
  /\ at = "truncate" /\ at' = "write" /\ memory' = EmptiedFile
  /\ UNCHANGED <<report, overlapping, index, runVars, adder, adding, runs, kills,
                 told, kept>>

Writes ==
  /\ at = "write" /\ at' = "rows"
  /\ memory' \in Overwritten(memory, pending)
  /\ kept' = kept \cup Range(pending)
  /\ told' = told \cup Discussed
  /\ UNCHANGED <<report, overlapping, index, runVars, adder, adding, runs, kills>>

-----------------------------------------------------------------------------
(* The verdict of a finding: a fix, then the memory as it was loaded, then *)
(* the upstream project; a lookup that failed, or was not made, and a      *)
(* closed issue without a marker leave "submit".                           *)
Verdict(i) ==
  LET status == IF i \in DOMAIN results THEN results[i] ELSE "none" IN
  IF PlaceOf(i) \in fixed THEN "already_fixed"
  ELSE IF MatchingEntries(declared, report[i].rule, report[i].path) # <<>> THEN "declared"
  ELSE IF status \in {"discussed", "mentioned"} THEN status ELSE "submit"

VerdictRank(verdict) ==
  CASE verdict = "already_fixed" -> 0 [] verdict = "declared" -> 1 [] verdict = "discussed" -> 2
    [] verdict = "mentioned" -> 3 [] verdict = "submit" -> 4

Score(events, i) == PriorFor(events, report[i].rule, report[i].language)

(* Mutant: the score comes before the verdict.                             *)
RowByScoreBefore(events, a, b) ==
  \/ Above(Score(events, a.finding), Score(events, b.finding))
  \/ /\ ~Above(Score(events, b.finding), Score(events, a.finding))
     /\ a.finding < b.finding

(* With --feedback: by verdict, then score, then place in the report.      *)
RowBefore(events, a, b) ==
  \/ VerdictRank(a.verdict) < VerdictRank(b.verdict)
  \/ /\ a.verdict = b.verdict
     /\ \/ Above(Score(events, a.finding), Score(events, b.finding))
        \/ /\ ~Above(Score(events, b.finding), Score(events, a.finding))
           /\ a.finding < b.finding

Rows(ranking, events) ==
  /\ at = "rows" /\ at' = "done"
  /\ LET inOrder == [i \in Findings |-> [finding |-> i, verdict |-> Verdict(i)]] IN
     rows' = IF ~ranking THEN inOrder
             ELSE Sorted(Range(inOrder), {p \in Range(inOrder) \X Range(inOrder) :
                                            RowBefore(events, p[1], p[2])})
  /\ UNCHANGED <<report, overlapping, memory, index, declared, fixed, tries, results, limited,
                 pending, answers, fixable, adder, adding, runs, kills, told, kept>>

(* The recorded feedback does not decode.                                  *)
RankingBreaks == at = "rows" /\ Quits

-----------------------------------------------------------------------------
(* "intent add" loads, adds and saves, in another process; it saves also   *)
(* when the entry was there.                                               *)
AddLoads(e) ==
  /\ adder = "idle" /\ at # "none" /\ MayStart /\ Loads(memory)
  /\ adding' = WithEntry(LoadMemory(memory), e) /\ adder' = "truncate"
  /\ UNCHANGED <<report, overlapping, memory, at, index, runVars, runs, kills,
                 told, kept>>

AddTruncates ==
  /\ adder = "truncate" /\ adder' = "write" /\ memory' = EmptiedFile
  /\ UNCHANGED <<report, overlapping, at, index, runVars, adding, runs, kills,
                 told, kept>>

AddWrites ==
  /\ adder = "write" /\ adder' = "idle"
  /\ memory' \in Overwritten(memory, adding)
  /\ kept' = kept \cup Range(adding) /\ adding' = <<>>
  /\ UNCHANGED <<report, overlapping, at, index, runVars, runs, kills, told>>

(* A command is killed between two steps, or as it writes; or its write    *)
(* fails.                                                                  *)
PreflightKilled ==
  /\ at \notin {"none", "idle", "done"} /\ kills < MaxKills /\ kills' = kills + 1
  /\ memory' \in IF at = "write" THEN PartlyWritten(memory, pending) ELSE {memory}
  /\ Stops

AddKilled ==
  /\ adder # "idle" /\ kills < MaxKills /\ kills' = kills + 1
  /\ memory' \in IF adder = "write" THEN PartlyWritten(memory, adding) ELSE {memory}
  /\ adder' = "idle" /\ adding' = <<>>
  /\ UNCHANGED <<report, overlapping, at, index, runVars, runs, told, kept>>

PreflightActs ==
  \/ \E known \in SUBSET Refs : \E contents \in [known -> Contents], history \in BOOLEAN :
       CheckBranches(known, contents, history)
  \/ CheckFails \/ CheckerFails \/ BranchesDone
  \/ Unsearched \/ (\E answer \in Answers : Search(answer)) \/ SearchBreaks \/ SearchesDone
  \/ RecordsDiscussed \/ RecordBreaks \/ Truncates \/ Writes
  \/ RankingBreaks \/ \E ranking \in BOOLEAN, events \in EventLogs : Rows(ranking, events)

PreflightNext ==
  \/ Given \/ Starts \/ PreflightActs
  \/ \E e \in UserEntries : AddLoads(e)
  \/ AddTruncates \/ AddWrites \/ PreflightKilled \/ AddKilled
PreflightSpec == PreflightInit /\ [][PreflightNext]_preflightVars

-----------------------------------------------------------------------------
PreflightTypeOK ==
  /\ at \in {"none", "idle", "branches", "searches", "record", "truncate", "write", "rows", "done"}
  /\ index \in 1 .. Len(report) + 1
  /\ memory.state \in {"absent", "empty", "torn", "broken", "whole"}
  /\ memory.state # "whole" => memory.entries = <<>>
  /\ Len(results) <= Len(Looked)
  /\ fixable \cup told \subseteq Findings
  /\ adder \in {"idle", "truncate", "write"} /\ runs \in 0 .. MaxRuns /\ kills \in 0 .. MaxKills

(* What the world says of finding i, as far as this run was told.          *)
AskedOpen(i)   == answers[i] = "open"
AskedHinted(i) == answers[i] \in Hinted
Covers(e, i)   == EntryMatches(e, report[i].rule, report[i].path)

Undisturbed == ~overlapping /\ kills = 0

(* The last finding of the place of finding i had a fix, by its lookup.    *)
LastIsFixable(i) ==
  \E j \in fixable : /\ PlaceOf(j) = PlaceOf(i)
                      /\ \A k \in Findings : k > j /\ PlaceOf(k) = PlaceOf(i) => k \in fixable

(* cli/main.py:1277, 1306: a lookup of the branches is kept for a file and *)
(* a line, so findings on one line share a verdict: that of the last of    *)
(* them, which may hide a fix found for another, or claim one for a        *)
(* finding whose own lookup failed.                                        *)
FixesAreOfTheLine(i, verdict) ==
  IF verdict = "already_fixed" THEN Located(i) /\ LastIsFixable(i)
  ELSE i \in fixable =>
         \E k \in Findings \ fixable : k > i /\ PlaceOf(k) = PlaceOf(i)

(* cli/main.py:1358-1376: a verdict other than "submit" is about the       *)
(* finding of its row, or its line: a fix was found there, an entry the    *)
(* user or a discussion put into the memory covers it (in a memory nobody  *)
(* was disturbed in writing), or the answer to its own search says so,     *)
(* whatever lookups of other findings failed.                              *)
VerdictsAreOwn ==
  at = "done" => \A k \in DOMAIN rows :
    LET i == rows[k].finding
        verdict == rows[k].verdict IN
    /\ FixesAreOfTheLine(i, verdict)
    /\ verdict = "declared" /\ Undisturbed => \E e \in kept : Covers(e, i)
    /\ verdict = "discussed" => AskedHinted(i)
    /\ verdict = "mentioned" => AskedOpen(i)
    /\ verdict = "submit" => ~AskedHinted(i) /\ ~AskedOpen(i)

(* cli/main.py:1386-1425: feedback orders the rows, within a verdict, and  *)
(* neither drops one nor changes its verdict.                              *)
FeedbackOnlyOrders ==
  at = "done" =>
    /\ Len(rows) = Len(report) /\ {rows[k].finding : k \in DOMAIN rows} = Findings
    /\ \A k \in DOMAIN rows : rows[k].verdict = Verdict(rows[k].finding)
    /\ \/ \A k \in DOMAIN rows : rows[k].finding = k
       \/ \A j, k \in DOMAIN rows : j < k =>
            VerdictRank(rows[j].verdict) <= VerdictRank(rows[k].verdict)

(* Does an entry with this path match it?  Not when the path has a leading *)
(* dot, as the entry keeps it and is compared with the stripped one; nor   *)
(* when, taken for a pattern, it matches other names: pages/[id].tsx.      *)
FindsItself(path) == ~path.dots /\ Globs(path.name, path.name)

(* upstream_checker.py:336: a finding recorded as discussed is not filed   *)
(* by a later preflight, even offline, if no other command wrote the       *)
(* memory at the same time and its path matches itself.                    *)
DiscussedIsRemembered ==
  at = "done" /\ Undisturbed => \A k \in DOMAIN rows :
    rows[k].finding \in told \ Discussed /\ FindsItself(report[rows[k].finding].path) =>
      rows[k].verdict \in {"already_fixed", "declared"}

(* adjudication.py:155: an entry whose command ended stays in the memory.  *)
(* It takes two commands at once, or one killed while it writes, to lose   *)
(* one; an unreadable memory counts as empty and is then written over.     *)
DeclaredIsKept ==
  Undisturbed /\ at # "write" /\ adder # "write" => kept \subseteq Range(LoadMemory(memory))

(* Neither a preflight (record_discussed) nor "intent add" loses what the  *)
(* user or the upstream project has declared, whatever the other commands  *)
(* wrote before, unless they overlap or one is killed as it writes.        *)
MemoryIsKept == PreflightTypeOK /\ DiscussedIsRemembered /\ DeclaredIsKept
=============================================================================
