----------------------------- MODULE Diagnostics ----------------------------
(***************************************************************************)
(* Diagnostic tools on a scanned project (diagnostics/registry, executor,  *)
(* tools): those that fit its languages and the kind of the problem are    *)
(* run one after the other, and what they found becomes a report, or a     *)
(* part of the debate's context.                                           *)
(***************************************************************************)
EXTENDS ProjectScanner

CONSTANTS
  Installed   \* what can be installed: sets of names of binaries

VARIABLES
  request,   \* the request, once made: [mode, strategy] or [mode, words, fast, system]
  binaries,  \* the binaries installed
  toRun,     \* tools still to run
  diagnoses,   \* what those run gave
  report     \* <<what the debate is shown>>, once formatted
diagnosticVars == <<request, binaries, toRun, diagnoses, report>>

DiagnosticsInit == request = <<>> /\ binaries = {} /\ toRun = <<>> /\ diagnoses = <<>> /\ report = <<>>

-----------------------------------------------------------------------------
(* The registered tools, in their order (ALL_TOOLS).                       *)
Tool(name, languages, categories, system, binary) ==
  [name |-> name, languages |-> languages, categories |-> categories, system |-> system, binary |-> binary]
Every == {"python", "go", "cpp", "c", "java", "kotlin", "javascript", "rust", "mixed", "unknown"}
Tools ==
  <<Tool("dmesg", Every, {"crash", "startup_failure"}, TRUE, TRUE),
    Tool("ps", Every, {"deadlock", "performance", "memory_leak"}, TRUE, TRUE),
    Tool("vmstat", Every, {"performance", "memory_leak"}, TRUE, TRUE),
    Tool("go", {"go"}, {"performance", "memory_leak", "deadlock", "concurrency"}, FALSE, TRUE),
    Tool("python", {"python"}, {"performance", "memory_leak", "startup_failure", "dependency"}, FALSE, FALSE),
    Tool("cpp", {"cpp", "c"}, {"crash", "memory_leak", "performance"}, FALSE, FALSE),
    Tool("java", {"java", "kotlin"}, {"deadlock", "memory_leak", "performance"}, FALSE, FALSE),
    Tool("static_analysis", Every, {"code_quality", "security"}, FALSE, FALSE)>>

(* infer_problem_category: the first group one of whose words is said.     *)
KeywordGroups ==
  <<"deadlock", "memory_leak", "crash", "startup_failure", "concurrency", "security", "dependency",
    "configuration", "performance", "code_quality">>
Inferred(words, fast) ==
  LET said == SelectSeq(KeywordGroups, LAMBDA c : c \in words) IN
  CASE fast -> "performance"
    [] ~fast /\ said # <<>> -> said[1]
    [] OTHER -> "code_quality"

StrategyCategory ==
  [performance_analysis |-> "performance", correctness_audit |-> "code_quality",
   architecture_review |-> "code_quality", security_scan |-> "security", hotspot_analysis |-> "performance"]
Category(r) ==
  IF r.mode = "symptoms" THEN Inferred(r.words, r.fast)
    ELSE IF r.strategy \in DOMAIN StrategyCategory THEN StrategyCategory[r.strategy] ELSE "unknown"

(* resolve_languages: the concrete ones of the fingerprint, each once.     *)
ConcreteFirst(primary, others) ==   \* mutant: a concrete first language is taken to be the only one
  IF primary \in {"mixed", "unknown"} /\ others # <<>> THEN others ELSE <<primary>>
Concrete(primary, others) ==
  LET named == <<primary>> \o others
      said  == EachOnce(AtPositions(named, {i \in DOMAIN named : named[i] \notin {"mixed", "unknown"}})) IN
  IF said = <<>> THEN <<primary>> ELSE said
SpokenIn == Concrete(fp.primary, fp.secondary)

Available(t, installed) == t.binary => t.name \in installed
Fits(t, category, system, installed) ==
  /\ t.languages \cap Range(SpokenIn) # {} /\ category \in t.categories
  /\ t.system => system
  /\ Available(t, installed)
FindTools(category, system, installed) ==
  AtPositions(Tools, {i \in DOMAIN Tools : Fits(Tools[i], category, system, installed)})
HealthCheck ==
  {<<t.name, Available(t, binaries)>> : t \in {u \in Range(Tools) : u.languages \cap Range(SpokenIn) # {}}}

-----------------------------------------------------------------------------
(* What a command says (_run_command): a time-out, a missing program or    *)
(* another failure is a return code; "telling" output shows the pattern    *)
(* that is looked for.                                                     *)
Output == [ok : BOOLEAN, telling : BOOLEAN]
Found(tool, success, symptom, tips, said) ==
  [tool |-> tool, success |-> success, symptom |-> symptom, tips |-> tips, said |-> said]

(* dmesg, ps and vmstat: a failed command is a failed diagnosis; for a     *)
(* category without a pattern the output is only evidence.                 *)
Watched == [dmesg |-> {"crash", "startup_failure"}, ps |-> {"deadlock", "memory_leak"},
            vmstat |-> {"performance", "memory_leak"}]
SystemTool(name, category) ==
  {Found(name, o.ok, o.ok /\ o.telling /\ category \in Watched[name], {}, <<o>>) : o \in Output}

GoTool(category) ==
  {Found("go", FALSE, FALSE, {}, <<v>>) : v \in {o \in Output : ~o.ok}} \cup
  {CASE category = "concurrency" -> Found("go", o.telling \/ o.ok, o.telling, {}, <<o>>)
     [] category = "performance" -> Found("go", o.ok, FALSE, {"cpu profile", "goroutines"}, <<o>>)
     [] category = "memory_leak" -> Found("go", TRUE, FALSE, {"heap profile"}, <<>>)
     [] OTHER -> Found("go", TRUE, FALSE, {}, <<>>) : o \in Output}

(* PythonDiagTool: at start-up the project's files are parsed, one with a  *)
(* syntax error is a symptom and one that cannot be read is passed over;   *)
(* otherwise tips, the profile's with an entry file if there is one.       *)
Parses == SUBSET {"parsed", "syntax error", "unreadable"}
ProfileTarget ==
  LET known == SelectSeq(<<"main.py", "app.py", "cli.py", "pkg/__main__.py">>, LAMBDA e : e \in project.entries) IN
  IF known = <<>> THEN "placeholder" ELSE known[1]
PythonTool(category) ==
  CASE category = "startup_failure" ->
         {Found("python", TRUE, "syntax error" \in p, {}, <<[ok |-> TRUE, telling |-> "syntax error" \in p]>>) : p \in Parses}
    [] category = "dependency"  -> {Found("python", TRUE, FALSE, {"pip check"}, <<>>)}
    [] category = "performance" -> {Found("python", TRUE, FALSE, {ProfileTarget}, <<>>)}
    [] OTHER -> {Found("python", TRUE, FALSE, {"tracemalloc"}, <<>>)}

(* CPPDiagTool asks whether its programs are there, JavaDiagTool nothing.  *)
CppTool(category) ==
  {Found("cpp", TRUE, FALSE,
         CASE category = "crash" -> {IF there THEN "gdb" ELSE "install gdb", "sanitizer"}
           [] category = "memory_leak" -> IF there THEN {"valgrind"} ELSE {}
           [] OTHER -> IF there THEN {"perf"} ELSE {}, <<>>) : there \in BOOLEAN}
JavaTool(category) ==
  {Found("java", TRUE, FALSE,
         {CASE category = "deadlock" -> "jstack" [] category = "memory_leak" -> "jmap" [] OTHER -> "jcmd"}, <<>>)}

(* StaticAnalysisTool: the linters of every language of the project.       *)
Linters == [python |-> {"ruff", "mypy", "bandit"}, go |-> {"vet", "staticcheck", "golangci-lint"},
            rust |-> {"clippy", "audit"}, cpp |-> {"clang-tidy", "cppcheck"}]
StaticTool ==
  {Found("static_analysis", TRUE, FALSE, UNION {Linters[l] : l \in Range(SpokenIn) \cap DOMAIN Linters}, <<>>)}

Diagnoses(name, category) ==
  CASE name \in DOMAIN Watched -> SystemTool(name, category)
    [] name = "go"     -> GoTool(category)
    [] name = "python" -> PythonTool(category)
    [] name = "cpp"    -> CppTool(category)
    [] name = "java"   -> JavaTool(category)
    [] OTHER           -> StaticTool

-----------------------------------------------------------------------------
(* run_diagnose_mode, or run_tools_for_strategy for a debate, which never  *)
(* asks the system and has nothing to say of an unknown strategy.          *)
BeginDiagnosis ==
  /\ Scanned /\ request = <<>>
  /\ \E r \in project.asks, m \in Installed :
       /\ request' = <<r>> /\ binaries' = m
       /\ toRun' = FindTools(Category(r), r.mode = "symptoms" /\ r.system, m)
  /\ UNCHANGED <<scanVars, diagnoses, report>>

(* A tool that raises has failed; the next one runs all the same.          *)
RunTool ==
  /\ request # <<>> /\ toRun # <<>>
  /\ \E r \in Diagnoses(Head(toRun).name, Category(request[1])) \cup {Found(Head(toRun).name, FALSE, FALSE, {}, <<>>)} :
       diagnoses' = Append(diagnoses, r)
  /\ toRun' = Tail(toRun)
  /\ UNCHANGED <<scanVars, request, binaries, report>>

(* Of a failed tool only that it failed is shown (_format_tool_results);   *)
(* a report for the user also says which tools there are.                  *)
Shown(r) == [tool |-> r.tool, success |-> r.success, symptom |-> r.success /\ r.symptom,
             tips |-> IF r.success THEN r.tips ELSE {}]
Format ==
  /\ request # <<>> /\ toRun = <<>> /\ report = <<>>
  /\ report' = <<[shown |-> [i \in DOMAIN diagnoses |-> Shown(diagnoses[i])],
                 health |-> IF request[1].mode = "symptoms" THEN HealthCheck ELSE {}]>>
  /\ UNCHANGED <<scanVars, request, binaries, toRun, diagnoses>>

DiagnosticsNext == (ScanNext /\ UNCHANGED diagnosticVars) \/ BeginDiagnosis \/ RunTool \/ Format
DiagnosticsSpec == ScanInit /\ DiagnosticsInit /\ [][DiagnosticsNext]_<<scanVars, diagnosticVars>>
DiagnosticsEnd == report # <<>> \/ (Scanned /\ project.asks = {})

-----------------------------------------------------------------------------
(* The tools that speak for the project, from the files of the checkout to *)
(* the report: each registered tool of the problem's category, for any     *)
(* language that has more than 15 % of the files or more files than every  *)
(* other, is in the report once, in the order of the registry, if it is    *)
(* installed; no other is, one that fails takes no other away, and the     *)
(* system is looked at only by a user who allows it.                       *)
Weighty == {l \in LanguagesOf(fp.walked) :
              \/ 100 * ShareOf(l)[1] > 15 * ShareOf(l)[2]
              \/ \A k \in LanguagesOf(fp.walked) \ {l} : ShareOf(l)[1] > ShareOf(k)[1]}
Due(t) == /\ Category(request[1]) \in t.categories /\ t.languages \cap Weighty # {}
          /\ t.system => request[1].mode = "symptoms" /\ request[1].system
          /\ t.binary => t.name \in binaries
ToolsCoverProject ==
  (report # <<>> /\ Weighty # {}) =>
    /\ LET due == AtPositions(Tools, {i \in DOMAIN Tools : Due(Tools[i])}) IN
       [i \in DOMAIN report[1].shown |-> report[1].shown[i].tool] = [i \in DOMAIN due |-> due[i].name]
    /\ request[1].mode = "symptoms" =>
         \A t \in Range(Tools) : t.languages \cap Weighty # {} => <<t.name, Available(t, binaries)>> \in report[1].health

(* A symptom in the report was seen in the output of a command, and a tool *)
(* that is shown as successful without one ran no command that failed or   *)
(* showed it; the linters are those of all the languages that weigh.       *)
ToolsReportWhatTheySaw ==
  report # <<>> =>
    \A i \in DOMAIN report[1].shown :
      LET shown == report[1].shown[i]
          said == Range(diagnoses[i].said) IN
      /\ shown.symptom => \E o \in said : o.telling
      /\ (shown.success /\ ~shown.symptom) => \A o \in said : o.ok
      /\ (shown.success /\ shown.tool = "static_analysis") =>
           \A l \in Weighty \cap DOMAIN Linters : Linters[l] \subseteq shown.tips

(* From scan to report (scanner.py, executor.py, tools.py): the            *)
(* fingerprint says what the walk saw, every tool that fits is run         *)
(* whatever failed before it, and the report has what the tools said.      *)
DiagnosisIsFaithful == FingerprintIsFaithful /\ ToolsCoverProject /\ ToolsReportWhatTheySaw
=============================================================================
