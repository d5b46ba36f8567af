------------------------------- MODULE Engine -------------------------------
(***************************************************************************)
(* The deterministic engine (core/engine/engine.py) and the command that   *)
(* reports its result (cli/unified.py, cli/main.py): parse each language,  *)
(* link, run each rule, drop what is not sure enough, attach evidence,     *)
(* count, adjudicate, save, exit.  Frontends, files, the linker, rules,    *)
(* evidence and outputs may each fail.                                     *)
(*                                                                         *)
(* A language has units, its source files; a rule returns any set of the   *)
(* units of its languages as findings.  Message texts are left out, an     *)
(* error is <<what failed, of what>>.                                      *)
(***************************************************************************)
EXTENDS Lists, SequencesExt

CONSTANTS
  Requests,    \* the configurations of a run
  Registered,  \* the registry: a sequence of rules
  Units,       \* files, each [language, role]
  Adapted,     \* languages with a frontend
  Level        \* of each of them: how well it supports what rules require

AnyLanguage == {"any language"}
AllRoles    == {"production", "test"}
Severities  == {"error", "warning", "info"}
Statuses    == {"full", "partial", "unknown", "unsupported"}
Outputs     == <<"sarif", "json", "html">>

SourceUnit == [language : STRING, role : AllRoles]
EngineRule ==
  [id : STRING, languages : SUBSET STRING, requires : Statuses \cup {"nothing"}, roles : SUBSET AllRoles,
   sure : BOOLEAN, severity : Severities, llm : BOOLEAN, enabled : BOOLEAN]
StateRuleFile == [name : STRING, unreadable : BOOLEAN, rules : Seq(EngineRule)]
EngineFinding == [rule : STRING, unit : SourceUnit, sure : BOOLEAN, severity : Severities]
EngineRequest ==
  [languages : Seq(STRING), rules : SUBSET STRING, files : Seq(StateRuleFile), llm : BOOLEAN,
   single : BOOLEAN, sure : BOOLEAN, packs : Nat, failOn : Severities \cup {"none"},
   reader : SUBSET EngineFinding, trajectory : BOOLEAN]

ASSUME EngineAssumption ==
  /\ Requests \subseteq EngineRequest /\ \A r \in Requests : IsFiniteSet(r.reader)
  /\ Registered \in Seq(EngineRule)
  /\ Units \subseteq SourceUnit /\ IsFiniteSet(Units)
  /\ Adapted \subseteq STRING /\ Level \in [Adapted -> Statuses]

VARIABLES
  request, enginePhase,
  frontend,   \* of the languages so far: what became of parsing each
  agenda,     \* the rules still to run
  assessed,   \* analysis_status: the status of each rule id
  reported,   \* result.findings
  errors,     \* result.errors, of which only the presence matters
  packed,     \* the findings with an evidence pack
  counted,    \* result.stats
  readerMerged,     \* has the session taken the findings of the project reader?
  saved, exitCode,
  returned,   \* history: what rules returned
  ran         \* history: rules whose analysis returned

engineVars == <<request, enginePhase, frontend, agenda, assessed, reported, errors,
                packed, counted, readerMerged, saved, exitCode, returned, ran>>

NoRequest == [languages |-> <<>>, rules |-> {}, files |-> <<>>, llm |-> FALSE, single |-> FALSE,
              sure |-> FALSE, packs |-> 0, failOn |-> "none", reader |-> {}, trajectory |-> FALSE]
NoStats   == [total |-> 0, bySeverity |-> <<>>, byStatus |-> <<>>]
NotYet    == 9

EngineInit ==
  /\ request = NoRequest /\ enginePhase = "request"
  /\ frontend = <<>> /\ agenda = <<>> /\ assessed = <<>>
  /\ reported = <<>> /\ errors = {} /\ packed = {} /\ counted = NoStats /\ readerMerged = FALSE
  /\ saved = <<>> /\ exitCode = NotYet /\ returned = {} /\ ran = {}

-----------------------------------------------------------------------------
Languages == ToSet(request.languages)
ParsedAt  == {i \in DOMAIN frontend : frontend[i] # "raised"}
Parsed    == {request.languages[i] : i \in ParsedAt}
Supports(rule, language) == rule.languages = AnyLanguage \/ language \in rule.languages
AskedFor(rule) == request.rules = {} \/ rule.id \in request.rules

(* A rule that asks the model needs --llm, one disabled by default needs   *)
(* to be named.                                                            *)
Runs(r) == (r.llm => request.llm) /\ (r.enabled \/ r.id \in request.rules)

RuleIds(rules) == {rules[i].id : i \in DOMAIN rules}

(* Those of some rules that fit and whose id is not taken, by a known rule *)
(* or an earlier one of them.                                              *)
NewAt(known, rules, fitting) ==
  {i \in fitting : /\ rules[i].id \notin RuleIds(known)
                   /\ \A j \in fitting : j < i => rules[j].id # rules[i].id}
WithRules(known, rules, fitting) == known \o AtPositions(rules, NewAt(known, rules, fitting))

(* The rules registered for one language after the other, without those    *)
(* --rule leaves out.                                                      *)
ForLanguage(language) == {i \in DOMAIN Registered : Supports(Registered[i], language)}

ForLanguages ==
  LET upTo[n \in 0 .. Len(request.languages)] ==
        IF n = 0 THEN <<>> ELSE WithRules(upTo[n - 1], Registered, ForLanguage(request.languages[n]))
  IN  upTo[Len(request.languages)]

Applicable == AtPositions(ForLanguages, {i \in DOMAIN ForLanguages : AskedFor(ForLanguages[i])})

(* Rules of a file of state rules that are asked for and fit a language;   *)
(* an id that is taken is an error and not a rule.                         *)
Wanted(file) ==
  {i \in DOMAIN file.rules : /\ ~file.unreadable /\ AskedFor(file.rules[i])
                             /\ \E l \in Languages : Supports(file.rules[i], l)}

WithFiles(k) ==
  LET upTo[n \in 0 .. k] ==
        IF n = 0 THEN Applicable
        ELSE WithRules(upTo[n - 1], request.files[n].rules, Wanted(request.files[n]))
  IN  upTo[k]
WithStateRules == WithFiles(Len(request.files))

NotTaken(k) ==
  LET file == request.files[k] IN Wanted(file) \ NewAt(WithFiles(k - 1), file.rules, Wanted(file))

StateRuleErrors ==
  {<<"load", file.name>> : file \in {f \in ToSet(request.files) : f.unreadable}}
  \cup UNION {{<<"duplicate", request.files[k].rules[i].id>> : i \in NotTaken(k)} : k \in DOMAIN request.files}

-----------------------------------------------------------------------------
(* A frontend raises, parses every file, or parses with errors, which its  *)
(* IR notes; for one file they stay there, and a frontend that raises or   *)
(* is missing ends the run.                                                *)
ParseOutcomes == {"whole", "partly", "raised"}
AllParsed == Len(frontend) = Len(request.languages)

Requested ==
  /\ enginePhase = "request" /\ request' \in Requests /\ enginePhase' = "parse"
  /\ UNCHANGED <<frontend, agenda, assessed, reported, errors, packed, counted, readerMerged, saved,
                 exitCode, returned, ran>>

Parse(outcome) ==
  LET language == request.languages[Len(frontend) + 1]
      became   == IF language \in Adapted THEN outcome ELSE "raised" IN
  /\ enginePhase = "parse" /\ ~AllParsed
  /\ frontend' = Append(frontend, became)
  /\ enginePhase' = IF request.single /\ became = "raised" THEN "report" ELSE "parse"
  /\ errors' = IF became = "raised" /\ (request.single \/ language \in Adapted)
               THEN errors \cup {<<"parse", language>>} ELSE errors
  /\ UNCHANGED <<request, agenda, assessed, reported, packed, counted, readerMerged, saved,
                 exitCode, returned, ran>>

(* Mutant: the errors of the frontends are not collected.                  *)
FrontendErrorsLost == {}

(* _collect_frontend_errors: it reads the meta of the merged IR, and a     *)
(* merge keeps the meta of the IR it started from, so what the frontends   *)
(* of later languages noted is gone by then.                               *)
FirstParsed == {i \in ParsedAt : \A j \in ParsedAt : i <= j}

FrontendErrors ==
  IF request.single THEN {}
  ELSE {<<"frontend", request.languages[i]>> : i \in {k \in FirstParsed : frontend[k] = "partly"}}

(* Merge, collect, link, choose the rules.  Without an IR no rule runs.    *)
Link(fails) ==
  /\ enginePhase = "parse" /\ AllParsed
  /\ agenda' = IF Parsed = {} THEN <<>> ELSE WithStateRules
  /\ errors' = errors \cup FrontendErrors \cup StateRuleErrors
                      \cup (IF fails /\ Parsed # {} THEN {<<"link", "ir">>} ELSE {})
  /\ enginePhase' = "rules"
  /\ UNCHANGED <<request, frontend, assessed, reported, packed, counted, readerMerged, saved,
                 exitCode, returned, ran>>

-----------------------------------------------------------------------------
Rank(status) == CASE status = "unknown" -> 0 [] status = "unsupported" -> 1
                  [] status = "partial" -> 2 [] status = "full" -> 3

(* assess_requirements: the weakest of the languages the rule is assessed  *)
(* for, which are those of the IR when it supports none of them.           *)
StatusIn(rule, language) ==
  IF rule.requires = "nothing" THEN "unknown"
  ELSE IF Rank(Level[language]) < Rank(rule.requires) THEN "unsupported" ELSE Level[language]

AssessedFor(rule) ==
  LET targets == {l \in Parsed : Supports(rule, l)} IN IF targets = {} THEN Parsed ELSE targets

Status(rule) ==
  LET statuses == {StatusIn(rule, l) : l \in AssessedFor(rule)}
  IN  CHOOSE s \in statuses : \A t \in statuses : Rank(s) <= Rank(t)

UnitsFor(rule) == {u \in Units : u.language \in Parsed /\ Supports(rule, u.language)}

InScope(rule, unit) == unit.role \in rule.roles

FindingAt(rule, unit) ==
  [rule |-> rule.id, unit |-> unit, sure |-> rule.sure, severity |-> rule.severity]

(* _execute_rule, for the next rule: it is left out, skipped, raises, or   *)
(* finds something at some units, where those outside its roles are left   *)
(* out.                                                                    *)
LeaveOut ==
  /\ enginePhase = "rules" /\ agenda # <<>> /\ ~Runs(Head(agenda))
  /\ agenda' = Tail(agenda)
  /\ UNCHANGED <<request, enginePhase, frontend, assessed, reported, errors, packed,
                 counted, readerMerged, saved, exitCode, returned, ran>>

Assess(rule) ==
  assessed' = [id \in DOMAIN assessed \cup {rule.id} |->
                 IF id = rule.id THEN Status(rule) ELSE assessed[id]]

RuleFails(unsupported) ==
  LET rule == Head(agenda) IN
  /\ enginePhase = "rules" /\ agenda # <<>> /\ Runs(rule)
  /\ unsupported = (Status(rule) = "unsupported")
  /\ Assess(rule) /\ agenda' = Tail(agenda)
  /\ errors' = errors \cup {<<IF unsupported THEN "skipped" ELSE "failed", rule.id>>}
  /\ UNCHANGED <<request, enginePhase, frontend, reported, packed, counted, readerMerged, saved,
                 exitCode, returned, ran>>

RuleFinds(units) ==
  LET rule  == Head(agenda)
      found == {FindingAt(rule, u) : u \in {v \in units : InScope(rule, v)}} IN
  /\ enginePhase = "rules" /\ agenda # <<>> /\ Runs(rule) /\ Status(rule) # "unsupported"
  /\ units \subseteq UnitsFor(rule)
  /\ Assess(rule) /\ agenda' = Tail(agenda)
  /\ reported' = reported \o SetToSeq(found)
  /\ returned' = returned \cup found /\ ran' = ran \cup {rule.id}
  /\ UNCHANGED <<request, enginePhase, frontend, errors, packed, counted, readerMerged, saved, exitCode>>

-----------------------------------------------------------------------------
IsSure(finding) == finding.sure

Filter ==
  /\ enginePhase = "rules" /\ agenda = <<>> /\ enginePhase' = "packs"
  /\ reported' = IF request.sure THEN AtPositions(reported, {i \in DOMAIN reported : IsSure(reported[i])})
                  ELSE reported
  /\ UNCHANGED <<request, frontend, agenda, assessed, errors, packed, counted, readerMerged, saved,
                 exitCode, returned, ran>>

(* The first findings get evidence; retrieving some of it may fail, and so *)
(* may the graph it comes from.                                            *)
Served == IF Parsed = {} THEN 0
          ELSE IF Len(reported) < request.packs THEN Len(reported) ELSE request.packs

Packs(failed) ==
  /\ enginePhase = "packs" /\ failed \subseteq 1..Served
  /\ packed' = {reported[i] : i \in (1..Served) \ failed}
  /\ errors' = errors \cup (IF failed = {} THEN {} ELSE {<<"evidence", "findings">>})
  /\ enginePhase' = "count"
  /\ UNCHANGED <<request, frontend, agenda, assessed, reported, counted, readerMerged, saved,
                 exitCode, returned, ran>>

CountOf(findings, status) ==
  [total      |-> Len(findings),
   bySeverity |-> [s \in Severities |->
                     Cardinality({i \in DOMAIN findings : findings[i].severity = s})],
   byStatus   |-> [s \in Statuses |-> Cardinality({id \in DOMAIN status : status[id] = s})]]

Count ==
  /\ enginePhase = "count" /\ counted' = CountOf(reported, assessed)
  /\ enginePhase' = IF request.single \/ reported = <<>> THEN "report" ELSE "adjudicate"
  /\ UNCHANGED <<request, frontend, agenda, assessed, reported, errors, packed, readerMerged, saved,
                 exitCode, returned, ran>>

(* Labels change no finding the model sees.                                *)
Adjudicate ==
  /\ enginePhase = "adjudicate" /\ enginePhase' = "report"
  /\ UNCHANGED <<request, frontend, agenda, assessed, reported, errors, packed, counted, readerMerged,
                 saved, exitCode, returned, ran>>

(* The scan, the merge or the adjudication raises: what was found by then  *)
(* is what the run returns.                                                *)
DiagnosticFails(step) ==
  /\ \/ step = "scan" /\ enginePhase = "parse" /\ frontend = <<>>
     \/ step = "merge" /\ enginePhase = "parse" /\ AllParsed /\ Cardinality(ParsedAt) > 1
     \/ step = "adjudicate" /\ enginePhase = "adjudicate"
  /\ errors' = errors \cup {<<"diagnostic", step>>} /\ enginePhase' = "report"
  /\ UNCHANGED <<request, frontend, agenda, assessed, reported, packed, counted, readerMerged, saved,
                 exitCode, returned, ran>>

-----------------------------------------------------------------------------

(* _refresh_stats.                                                         *)
Refreshed(stats, findings, status) == CountOf(findings, status)

HasIR == Parsed # {} /\ <<"diagnostic", "merge">> \notin errors

(* The session takes the findings of the project reader, those it does not *)
(* have, and one more status.                                              *)
ReaderMerges ==
  LET new == request.reader \ ToSet(reported) IN
  /\ enginePhase = "report" /\ request.reader # {} /\ HasIR /\ ~readerMerged
  /\ reported' = reported \o SetToSeq(new) /\ readerMerged' = TRUE
  /\ assessed' = [id \in DOMAIN assessed \cup {"project_resource_lifecycle"} |->
                    IF id = "project_resource_lifecycle" THEN "partial" ELSE assessed[id]]
  /\ counted' = Refreshed(counted, reported', assessed')
  /\ UNCHANGED <<request, enginePhase, frontend, agenda, errors, packed, saved, exitCode,
                 returned, ran>>

ReadyToReport == enginePhase = "report" /\ (request.reader # {} /\ HasIR => readerMerged)

(* Building the trajectory may raise, which ends the command before any    *)
(* output; storing it may not.                                             *)
RecordTrajectory(raises) ==
  /\ ReadyToReport /\ (raises => request.trajectory)
  /\ enginePhase' = IF raises THEN "done" ELSE "save"
  /\ exitCode' = IF raises THEN 2 ELSE exitCode
  /\ UNCHANGED <<request, frontend, agenda, assessed, reported, errors, packed, counted, readerMerged, saved,
                 returned, ran>>

Save(raises) ==
  LET name == Outputs[Len(saved) + 1] IN
  /\ enginePhase = "save" /\ Len(saved) < Len(Outputs)
  /\ saved' = IF raises THEN saved ELSE Append(saved, <<name, reported>>)
  /\ enginePhase' = IF raises THEN "done" ELSE "save"
  /\ exitCode' = IF raises THEN 2 ELSE exitCode
  /\ UNCHANGED <<request, frontend, agenda, assessed, reported, errors, packed, counted, readerMerged,
                 returned, ran>>

Height(level) == CASE level = "info" -> 1 [] level = "warning" -> 2 [] level = "error" -> 3

Gating == IF request.failOn = "none" THEN {}
          ELSE {i \in DOMAIN reported : Height(reported[i].severity) >= Height(request.failOn)}

Exit ==
  /\ enginePhase = "save" /\ Len(saved) = Len(Outputs)
  /\ enginePhase' = "done" /\ exitCode' = IF Gating = {} THEN 0 ELSE 1
  /\ UNCHANGED <<request, frontend, agenda, assessed, reported, errors, packed, counted, readerMerged, saved,
                 returned, ran>>

EngineNext ==
  \/ Requested
  \/ \E outcome \in ParseOutcomes : Parse(outcome)
  \/ \E fails \in BOOLEAN : Link(fails)
  \/ LeaveOut
  \/ \E unsupported \in BOOLEAN : RuleFails(unsupported)
  \/ \E units \in SUBSET Units : RuleFinds(units)
  \/ Filter
  \/ \E failed \in SUBSET (1..Served) : Packs(failed)
  \/ Count \/ Adjudicate \/ ReaderMerges
  \/ \E step \in {"scan", "merge", "adjudicate"} : DiagnosticFails(step)
  \/ \E raises \in BOOLEAN : RecordTrajectory(raises) \/ Save(raises)
  \/ Exit
EngineSpec == EngineInit /\ [][EngineNext]_engineVars

EngineTypeOK ==
  /\ enginePhase \in {"request", "parse", "rules", "packs", "count", "adjudicate",
                     "report", "save", "done"}
  /\ request \in Requests \cup {NoRequest} /\ Len(frontend) <= Len(request.languages)
  /\ \A id \in DOMAIN assessed : assessed[id] \in Statuses
  /\ packed \subseteq returned /\ ran \subseteq DOMAIN assessed /\ exitCode \in {0, 1, 2, NotYet}

-----------------------------------------------------------------------------
Stopped == <<"diagnostic", "scan">> \in errors \/ <<"diagnostic", "merge">> \in errors

(* A run of the whole project that reports no error raised for no language *)
(* it has a frontend for, parsed the first of them without an error, and   *)
(* every rule that applies ran to its end.  (A project none of whose       *)
(* languages has a frontend reports no error either, and its rules did not *)
(* run: the antecedent asks for one.)                                      *)
CleanMeansComplete ==
  enginePhase = "done" /\ errors = {} /\ ~request.single /\ Languages \cap Adapted # {} =>
    /\ \A i \in DOMAIN request.languages : request.languages[i] \in Adapted => i \in ParsedAt
    /\ \A i \in FirstParsed : frontend[i] = "whole"
    /\ \A rule \in ToSet(WithStateRules) : Runs(rule) => rule.id \in ran

(* Files that did not parse are told of the first parsed language, and of  *)
(* no other: "repository where N files failed to parse indistinguishable   *)
(* from a clean repository" (engine.py:557) is what a second language is.  *)
OnlyTheFirstIsTold ==
  enginePhase = "done" /\ ~Stopped =>
    \A i \in DOMAIN frontend :
      <<"frontend", request.languages[i]>> \in errors <=>
        ~request.single /\ \E k \in FirstParsed : /\ frontend[k] = "partly"
                                                 /\ request.languages[k] = request.languages[i]

(* Whatever failed, what is reported is what the rules returned in their   *)
(* scope and surely enough, and what the reader added, each once; the      *)
(* statistics are of that report; every output holds it; and --fail-on     *)
(* exits with 1 exactly when the report has such a finding.                *)
ReportAgrees ==
  enginePhase = "done" =>
    /\ ToSet(reported) = {f \in returned : request.sure => f.sure}
                            \cup (IF HasIR THEN request.reader ELSE {})
    /\ Cardinality(ToSet(reported)) = Len(reported)
    /\ counted # NoStats => counted = CountOf(reported, assessed)
    /\ counted = NoStats => Stopped \/ request.single
    /\ \A i \in DOMAIN saved : saved[i][2] = reported
    /\ exitCode = 1 <=> (Len(saved) = Len(Outputs) /\ Gating # {})

(* diagnose() and run_unified_diagnosis() tell what they did: a run        *)
(* without errors was complete but for files of later languages that did   *)
(* not parse, which are never told, and findings, statistics, files and    *)
(* exit code agree, whichever parts failed.                                *)
ReportIsHonest == EngineTypeOK /\ CleanMeansComplete /\ OnlyTheFirstIsTold /\ ReportAgrees
=============================================================================
