--------------------------- MODULE ProjectScanner ---------------------------
(***************************************************************************)
(* The fingerprint of a project (detector/scanner, detector/fingerprint):  *)
(* one bounded walk, then passes that each add a fact.  No model is asked. *)
(* What a pass cannot read it leaves out, and the next one still runs.     *)
(***************************************************************************)
EXTENDS Lists, Integers, TLC, SequencesExt

CONSTANTS
  Checkouts,        \* the projects: see Checkout below
  MaxWalked,        \* max_files of the scanner
  MaxDirectories,   \* directories of the walk (20000)
  MaxSamples, MaxAttempts,  \* files whose lines are counted, and tried (20, 200)
  MaxDependencies,  \* dependency names kept (500)
  GitAnswers        \* sets of the facts git can answer for

(* A checkout is a record of                                               *)
(*   walk       the files in the order of the walk: [lang, lines, safe,    *)
(*              dir], lang "other" for what is no source, 0 lines for what *)
(*              cannot be read, unsafe for a link out of the project, dir  *)
(*              the number of its directory in that order;                 *)
(*   directories  how many directories there are to walk;                  *)
(*   manifests  those of the root, then those of each directory in it: a   *)
(*              sequence of sets of [name, place, readable, words], place  *)
(*              being the rank of its path among the sorted paths;         *)
(*   layout     the groups of directory names the root has;                *)
(*   entries    the entry files it has;                                    *)
(*   asks       what a user may ask of the tools there.                    *)
ManifestNames == {"go.mod", "Makefile", "package.json", "requirements.txt", "Pipfile"}

(* No file is of a language called mixed or unknown, and a manifest says a *)
(* number of words.                                                        *)
ASSUME ScannerAssumption ==
  /\ MaxWalked \in Nat /\ MaxDirectories \in Nat /\ MaxSamples \in Nat /\ MaxAttempts \in Nat /\ MaxDependencies \in Nat
  /\ \A c \in Checkouts :
       /\ c.walk \in Seq([lang : STRING \ {"mixed", "unknown"}, lines : Nat, safe : BOOLEAN,
                         dir : Nat])
       /\ c.directories \in Nat /\ \A i \in DOMAIN c.walk : c.walk[i].dir <= c.directories
       /\ c.manifests # <<>>
       /\ c.manifests \in Seq(SUBSET [name : ManifestNames, place : Nat, readable : BOOLEAN,
                                     words : SUBSET STRING])
       /\ \A d \in DOMAIN c.manifests :
            IsFiniteSet(c.manifests[d]) /\ \A m \in c.manifests[d] : IsFiniteSet(m.words)

VARIABLES checkout, fp, pass
scanVars == <<checkout, fp, pass>>

NoFingerprint ==
  [primary |-> "unknown", secondary |-> <<>>, truncated |-> FALSE, walked |-> <<>>, manifests |-> {},
   framework |-> "none", build |-> "", type |-> "unknown", sources |-> 0, loc |-> 0, git |-> {},
   dependencies |-> <<>>, entries |-> {}]
ScanInit == checkout = <<>> /\ fp = NoFingerprint /\ pass = "idle"

BeginScan == /\ pass = "idle" /\ \E c \in Checkouts : checkout' = <<c>>
             /\ fp' = NoFingerprint /\ pass' = "walk"
project == checkout[1]
Add(facts, next) == fp' = facts /\ pass' = next /\ UNCHANGED checkout

-----------------------------------------------------------------------------
(* The walk (_collect_project_files): it stops at one directory too many;  *)
(* one file too many is noticed, and cut off again.                        *)
Beginning(s, n) == SubSeq(s, 1, IF Len(s) > n THEN n ELSE Len(s))
Reached    == {i \in DOMAIN project.walk : project.walk[i].safe /\ project.walk[i].dir <= MaxDirectories}
SafeFiles  == AtPositions(project.walk, Reached)
Truncated  == Len(SafeFiles) > MaxWalked \/ project.directories > MaxDirectories
Collect ==
  /\ pass = "walk"
  /\ Add([fp EXCEPT !.walked = Beginning(SafeFiles, MaxWalked), !.truncated = Truncated], "languages")

(* Languages by the number of their files (_detect_languages): first       *)
(* found, first named; a language is secondary above 15 %, and the first   *)
(* joins the others when it has less than 60 %.                            *)
Sources(files) == {i \in DOMAIN files : files[i].lang # "other"}
FilesOf(files, lang) == {i \in DOMAIN files : files[i].lang = lang}
LanguagesOf(files) == {files[i].lang : i \in Sources(files)}
CountOf(files, lang) == Cardinality(FilesOf(files, lang))
Outnumbers(files, a, b) ==
  \/ CountOf(files, a) > CountOf(files, b)
  \/ CountOf(files, a) = CountOf(files, b) /\ \E i \in FilesOf(files, a) : \A j \in FilesOf(files, b) : i < j
ByCount(files) ==
  LET langs == LanguagesOf(files) IN Sorted(langs, {x \in langs \X langs : Outnumbers(files, x[1], x[2])})
Significant(files, lang) == 100 * CountOf(files, lang) > 15 * Cardinality(Sources(files))
Dominant(files, lang) == 10 * CountOf(files, lang) >= 6 * Cardinality(Sources(files))

LanguagesBy(files) ==
  LET ordered == ByCount(files)
      rest == Tail(ordered)
      others == AtPositions(rest, {i \in DOMAIN rest : Significant(files, rest[i])}) IN
  IF Dominant(files, ordered[1]) \/ Len(ordered) < 2
    THEN [primary |-> ordered[1], secondary |-> others]
    ELSE [primary |-> "mixed", secondary |-> Append(others, ordered[1])]

DetectLanguages ==
  /\ pass = "languages"
  /\ Add(IF LanguagesOf(fp.walked) = {} THEN fp
           ELSE LET found == LanguagesBy(fp.walked) IN
                [fp EXCEPT !.primary = found.primary, !.secondary = found.secondary], "manifests")

-----------------------------------------------------------------------------
(* Manifests, in the order of _MANIFEST_MAP; a Makefile says nothing of    *)
(* the language.                                                           *)
ManifestMap ==
  <<[name |-> "go.mod", lang |-> "go", build |-> "go_modules", signals |-> <<"gin", "grpc">>],
    [name |-> "Makefile", lang |-> "unknown", build |-> "make", signals |-> <<>>],
    [name |-> "package.json", lang |-> "javascript", build |-> "npm", signals |-> <<"express", "react">>],
    [name |-> "requirements.txt", lang |-> "python", build |-> "pip", signals |-> <<"fastapi", "flask">>],
    [name |-> "Pipfile", lang |-> "python", build |-> "", signals |-> <<>>]>>
OfName(name) == CHOOSE m \in Range(ManifestMap) : m.name = name

(* The manifest that stands for the language when no source file does.     *)
Speaking(dirs) == [dir : DOMAIN dirs, row : {i \in DOMAIN ManifestMap : ManifestMap[i].name # "Makefile"}]
FirstManifest(dirs) ==
  LET found == {s \in Speaking(dirs) : \E m \in dirs[s.dir] : m.name = ManifestMap[s.row].name} IN
  {s \in found : \A t \in found : s.dir < t.dir \/ (s.dir = t.dir /\ s.row <= t.row)}

DetectManifests ==
  /\ pass = "manifests"
  /\ LET first == FirstManifest(project.manifests)
         named == [fp EXCEPT !.manifests = UNION Range(project.manifests)] IN
     Add(IF fp.primary = "unknown" /\ first # {}
           THEN [named EXCEPT !.primary = ManifestMap[(CHOOSE s \in first : TRUE).row].lang]
           ELSE named, "framework")

(* The framework is the first signal of the first readable manifest that   *)
(* has one (_detect_framework).                                            *)
SignalsOf(m) == OfName(m.name).signals
SignalsIn(m) == {k \in DOMAIN SignalsOf(m) : m.readable /\ SignalsOf(m)[k] \in m.words}
Framework(manifests) ==
  LET telling == {m \in manifests : SignalsIn(m) # {}}
      first   == CHOOSE m \in telling : \A n \in telling : m.place <= n.place IN
  IF telling = {} THEN "none"
    ELSE SignalsOf(first)[CHOOSE k \in SignalsIn(first) : \A j \in SignalsIn(first) : k <= j]
DetectFramework ==
  pass = "framework" /\ Add([fp EXCEPT !.framework = Framework(fp.manifests)], "build")

(* _detect_build_system goes through a Python set of names: which of them  *)
(* comes first depends on the process.                                     *)
DetectBuildSystem ==
  /\ pass = "build"
  /\ LET builds == {OfName(m.name).build : m \in fp.manifests} \ {""} IN
     IF builds = {} THEN Add(fp, "type")
       ELSE \E b \in builds : Add([fp EXCEPT !.build = b], "type")

-----------------------------------------------------------------------------
(* What kind of project it is (_detect_project_type): its directories,     *)
(* then its entry files if no framework is known, then the framework.      *)
LayoutTypes ==
  <<<<"raft", "distributed_system">>, <<"api", "web_service">>, <<"cmd", "web_service">>,
    <<"src", "cli_tool">>, <<"etl", "data_pipeline">>, <<"deploy", "infrastructure">>>>
EntryTypes == <<<<"main.go", "web_service">>, <<"app.py", "web_service">>, <<"cli.py", "cli_tool">>>>
FrameworkTypes == [f \in {"gin", "express", "fastapi", "flask"} |-> "web_service"] @@ [f \in {"grpc"} |-> "rpc_service"]

ProjectType(facts) ==
  LET laidOut == SelectSeq(LayoutTypes, LAMBDA t : t[1] \in project.layout /\ (t[1] = "src" => facts.primary = "cpp"))
      entered == SelectSeq(EntryTypes, LAMBDA t : t[1] \in project.entries /\ facts.framework = "none") IN
  CASE laidOut # <<>> -> laidOut[1][2]
    [] laidOut = <<>> /\ entered # <<>> -> entered[1][2]
    [] laidOut = <<>> /\ entered = <<>> /\ facts.framework \in DOMAIN FrameworkTypes -> FrameworkTypes[facts.framework]
    [] OTHER -> "unknown"
DetectProjectType == pass = "type" /\ Add([fp EXCEPT !.type = ProjectType(fp)], "count")

(* Lines are counted in the first files that can be read and taken for the *)
(* average of all (_count_files).                                          *)
SampledLines(files) ==
  LET tried == Beginning(AtPositions(files, Sources(files)), MaxAttempts) IN
  Beginning(AtPositions(tried, {i \in DOMAIN tried : tried[i].lines > 0}), MaxSamples)
TotalLines(sample) ==
  LET sum[i \in 0 .. Len(sample)] == IF i = 0 THEN 0 ELSE sum[i - 1] + sample[i].lines IN sum[Len(sample)]
Estimate(files) ==
  LET sample == SampledLines(files) IN
  IF sample = <<>> THEN 0 ELSE (TotalLines(sample) * Cardinality(Sources(files))) \div Len(sample)
CountFiles ==
  pass = "count" /\ Add([fp EXCEPT !.sources = Cardinality(Sources(fp.walked)), !.loc = Estimate(fp.walked)], "git")

-----------------------------------------------------------------------------
(* Four git commands, any of which can fail, time out or be missing        *)
(* (_detect_git): the first decides whether the others are run.            *)
DetectGit ==
  /\ pass = "git"
  /\ \E inside \in BOOLEAN, answered \in GitAnswers :
       Add([fp EXCEPT !.git = IF inside THEN {"repository"} \cup answered ELSE {}], "dependencies")

(* Dependencies of the root's manifests, each named once, up to a limit    *)
(* (_detect_dependencies): Go's first, then Python's, then Node's.         *)
DependenciesIn(name) == UNION {m.words : m \in {r \in Head(project.manifests) : r.name = name /\ r.readable}}
NamesIn(name) == SetToSeq(DependenciesIn(name))
EachOnce(s) == AtPositions(s, {i \in DOMAIN s : \A j \in 1 .. i - 1 : s[j] # s[i]})
AllNames == NamesIn("go.mod") \o NamesIn("requirements.txt") \o NamesIn("package.json")
Dependencies == Beginning(EachOnce(AllNames), MaxDependencies)
DetectDependencies == pass = "dependencies" /\ Add([fp EXCEPT !.dependencies = Dependencies], "entries")

(* Entry files (_detect_entry_points): some of any project, some only of   *)
(* one whose primary language they are in.                                 *)
OwnEntries == [go |-> {"api/main.go"}, python |-> {"main.py"}]
DetectEntryPoints ==
  /\ pass = "entries"
  /\ LET own == IF fp.primary \in DOMAIN OwnEntries THEN OwnEntries[fp.primary] ELSE {} IN
     Add([fp EXCEPT !.entries = project.entries \cap ({t[1] : t \in Range(EntryTypes)} \cup own)], "done")

ScanNext ==
  \/ BeginScan \/ Collect \/ DetectLanguages \/ DetectManifests \/ DetectFramework \/ DetectBuildSystem
  \/ DetectProjectType \/ CountFiles \/ DetectGit \/ DetectDependencies \/ DetectEntryPoints
Scanned == pass = "done"

-----------------------------------------------------------------------------
(* The fingerprint says what the checkout holds, however the passes order  *)
(* and cut it. It is truncated exactly when files were left out or a       *)
(* directory was not entered. Each language with more than 15 % of the     *)
(* files, and one no other exceeds, is named, and one with at least 60 %   *)
(* stands alone in front; a manifest speaks for the language only where    *)
(* there is no source. A framework is named exactly when a readable        *)
(* manifest mentions one. The estimate of the lines lies between what the  *)
(* shortest and the longest of the files would give, and a command of git  *)
(* that fails takes no other fact away.                                    *)
ShareOf(lang) == <<CountOf(fp.walked, lang), Cardinality(Sources(fp.walked))>>
FingerprintIsFaithful ==
  Scanned =>
    LET safe == {i \in DOMAIN project.walk : project.walk[i].safe}
        named == (Range(fp.secondary) \cup {fp.primary}) \ {"mixed"}
        all == Sources(fp.walked)
        lengths == {fp.walked[i].lines : i \in all} \ {0} IN
    /\ fp.truncated <=> Len(fp.walked) < Cardinality(safe) \/ project.directories > MaxDirectories
    /\ all # {} =>
         /\ \A i \in all : LET share == ShareOf(fp.walked[i].lang) IN
              /\ 100 * share[1] > 15 * share[2] => fp.walked[i].lang \in named
              /\ fp.primary = fp.walked[i].lang <=> 10 * share[1] >= 6 * share[2]
         /\ \E l \in named : \A i \in all : ShareOf(fp.walked[i].lang)[1] <= ShareOf(l)[1]
         /\ IsInjective(fp.secondary) /\ named \subseteq {fp.walked[i].lang : i \in all}
    /\ (all = {} /\ \E m \in fp.manifests : m.name # "Makefile") => fp.primary # "unknown"
    /\ fp.framework = "none" <=>
         \A m \in fp.manifests : ~m.readable \/ m.words \cap Range(OfName(m.name).signals) = {}
    /\ lengths # {} => fp.loc \in 0 .. Max(lengths) * fp.sources
    /\ (Cardinality(lengths) = 1 /\ SampledLines(fp.walked) # <<>>) => fp.loc = Max(lengths) * fp.sources
    /\ IsInjective(fp.dependencies)
=============================================================================
