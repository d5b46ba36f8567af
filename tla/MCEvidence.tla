----------------------------- MODULE MCEvidence -----------------------------
(***************************************************************************)
(* What an audit gathers before a debate and what becomes of its proposals *)
(* afterwards: the scan, the tools, the retrieval and its index, the       *)
(* verifier, the sandbox, and the pipeline round them, each on a small     *)
(* instance.  A behaviour takes one of them, and the others do not move.   *)
(***************************************************************************)
EXTENDS PatchSandbox, Claims, Retrieval, VectorIndex, Diagnostics, AuditPipeline

CONSTANT Parts
VARIABLE kind
vars == <<kind, sandboxVars, claimVars, retrievalVars, indexVars, scanVars, diagnosticVars, auditVars>>

(* -- Patches: a project of two files, a link and a built file, whose      *)
(*    tests want the two files to agree or both to be new.                 *)
MCWorkspaceTree == [a |-> "v1", b |-> "v1", link |-> "symlink", out |-> "v1"]
MCPassing == {t \in [{"a", "b"} -> {"v1", "v2", "v3"}] : t["a"] = t["b"] \/ t["a"] = "v3"}

Diff(headers, expects, gives) ==
  [kind |-> "diff", headers |-> headers, expects |-> expects, gives |-> gives]
Fix(path, patch) == [path |-> path, absolute |-> FALSE, command |-> TRUE, patch |-> patch]

GoodFix == Fix("a", Diff({"a"}, "v1", "v3"))
BadFix  == Fix("a", Diff({"a"}, "v1", "v2"))
LateFix == Fix("b", Diff({"b"}, "v2", "v1"))
MCProposals ==
  {GoodFix, BadFix, LateFix, Fix("out", Diff({"out"}, "v1", "v2")), [GoodFix EXCEPT !.absolute = TRUE],
   Fix("", Diff({"a"}, "v1", "v2")), Fix("link", Diff({"link"}, "v1", "v2")), Fix("gone", Diff({"gone"}, "v1", "v2")),
   Fix("a", Diff({"a", "b"}, "v1", "v2")), [BadFix EXCEPT !.command = FALSE],
   Fix("a", [Diff({"a"}, "v1", "v2") EXCEPT !.kind = "large"])}

MCWorkspaces ==
  {[tree |-> MCWorkspaceTree, submission |-> <<p>>] : p \in MCProposals} \cup
  {[tree |-> [c |-> "v1"] @@ MCWorkspaceTree, submission |-> <<GoodFix, p>>] : p \in {BadFix, LateFix}} \cup
  {[tree |-> MCWorkspaceTree, submission |-> <<BadFix, GoodFix>>]}

-----------------------------------------------------------------------------
(* -- Claims: two files of one name, a third with a name like theirs, and  *)
(*    claims of every kind; explicit lists of them, or a location and the  *)
(*    problem's words.                                                     *)
File(dirs, stem, suffix) == [dirs |-> dirs, stem |-> stem, suffix |-> suffix]
MCDisk == (File({"api"}, "load", "py") :> 3) @@ (File({"web"}, "load", "py") :> 1)
          @@ (File({"web"}, "loader", "py") :> 2) @@ (File({}, "main", "go") :> 2)
Stems == {"load", "loader", "main", "lord"}
MCNear == [s \in Stems \X Stems |->
             CASE s[1] = s[2] -> "same"
               [] {s[1], s[2]} = {"load", "loader"} -> "part"
               [] {s[1], s[2]} = {"load", "lord"} -> "near"
               [] OTHER -> "far"]

Location(file, line) == [kind |-> "file_location", file |-> file, line |-> line]
Locations ==
  {Location(File({"api"}, "load", "py"), line) : line \in {"none", "inside", "outside", "malformed"}} \cup
  {Location(File({"web", "src"}, "load", "py"), "inside"), Location(File({}, "load", "py"), "none"),
   Location(File({"web"}, "lord", "py"), "inside"), Location(File({}, "main", "go"), "inside"),
   Location(File({"web"}, "load", "go"), "none")}
Chain(names) == [kind |-> "call_chain", chain |-> names]
OtherClaims ==
  {Chain(<<"serve", "read">>), Chain(<<"serve", "read", "none">>), Chain(<<"serve">>),
   [kind |-> "code_pattern", name |-> "serve"], [kind |-> "code_pattern", name |-> "memory"], [kind |-> "code_pattern", name |-> "leak"],
   [kind |-> "resource_type", binding |-> "resp.Body", close |-> TRUE],
   [kind |-> "resource_type", binding |-> "req", close |-> TRUE],
   [kind |-> "resource_type", binding |-> "lost", close |-> TRUE], [kind |-> "other"]}

Explicit(evidence) == [explicit |-> TRUE, evidence |-> evidence]
Extracted(location, words, chains) ==
  [explicit |-> FALSE, location |-> location, words |-> words, chains |-> chains]
MCSaid ==
  {Explicit(<<>>), Explicit(<<[kind |-> "code_pattern", name |-> ""]>>)} \cup
  {Explicit(<<l, c, d>>) : l \in Locations, c \in OtherClaims, d \in OtherClaims} \cup
  {Extracted(<<l>>, words, chains) : l \in Locations, chains \in {<<>>, <<Chain(<<"serve", "read">>)>>},
     words \in {<<>>, <<"serve">>, <<"serve", "leak", "memory", "read", "close", "lost">>}}

MCDebates ==
  {[disk |-> MCDisk, proposals |-> <<said>>] : said \in MCSaid} \cup
  {[disk |-> MCDisk, proposals |-> <<Explicit(<<l>>), Explicit(<<k, l>>)>>] : l \in Locations, k \in Locations}

MCNodes  == {"serve", "readAll", "memoryPool"}
MCWithin == {<<"serve", "serve">>, <<"read", "readAll">>, <<"memory", "memoryPool">>} \cup {<<"", n>> : n \in MCNodes}
MCCallEdges == {<<"serve", "read">>}
MCSimilar   == ("leak" :> 950)
MCTyped  == ("resp" :> <<[source |-> "surface", close |-> FALSE], [source |-> "checker", close |-> TRUE]>>)
            @@ ("req" :> <<[source |-> "surface", close |-> FALSE]>>)
MCPrefixes == [b \in {"resp.Body", "req", "lost"} |-> IF b = "resp.Body" THEN <<"resp">> ELSE <<>>]

-----------------------------------------------------------------------------
(* -- Questions to the graph and the retrievers.                           *)
Classes(counts) ==   \* files of the classes 0, 1, ..., so many of each
  FlattenSeq([c \in 1 .. Len(counts) |-> [i \in 1 .. counts[c] |-> [priority |-> c - 1, name |-> i]]])
SampleQuestions ==
  {[about |-> "sample", files |-> Classes(counts)] : counts \in (0 .. 9) \X (0 .. 7) \X (0 .. 2)}

Function(file, start, name) == [file |-> file, start |-> start, name |-> name]
Mention(file, line, name) == [file |-> file, line |-> line, name |-> name]
CallQuestions ==
  {[about |-> "calls", files |-> [f \in {"m", "n"} |-> 5], functions |-> functions, mentions |-> mentions] :
     functions \in {{Function("m", 1, "run"), Function("m", 3, second), Function("n", 2, third), Function("n", 4, "end")} :
                      second \in {"run", "go", "end"}, third \in {"run", "go"}},
     mentions \in {{Mention(file, line, name), Mention("n", 3, name)} :
                     file \in {"m", "n"}, line \in 1 .. 5, name \in {"run", "go", "end", "print"}}}

LinkedPairs == {{}, {<<"a", "b">>, <<"b", "c">>}, {<<"a", "b">>, <<"c", "b">>, <<"c", "d">>, <<"d", "d">>},
          {<<"a", "b">>, <<"b", "c">>, <<"c", "a">>, <<"c", "d">>}}
ExpandQuestions ==
  {[about |-> "expand", edges |-> edges, direction |-> direction, hops |-> hops, seeds |-> seeds] :
     edges \in LinkedPairs, direction \in {"in", "out", "both"}, hops \in 0 .. 3, seeds \in {{"a"}, {"b", "d"}}}

SeedQuestions == {[about |-> "seeds", counts |-> counts] : counts \in [1 .. 3 -> 1 .. 3]}

Ranked(paths) == [i \in 1 .. Len(paths) |-> [file |-> paths[i], rank |-> i]]
SelectQuestions ==
  {[about |-> "select", ranked |-> Ranked(paths), named |-> named, limit |-> limit] :
     paths \in {<<>>, <<1, 1, 2>>, <<1, 1, 1, 1, 2, 3>>, <<3, 1, 3, 3, 2>>}, named \in SUBSET (1 .. 3) , limit \in 0 .. 5}

(* Files with lines of one character but a long one, and with every line,  *)
(* or one in four, that is not blank.                                      *)
Symbol(start, end) == [start |-> start, end |-> end]
Long(length, place) == [l \in 1 .. length |-> IF l = place THEN 9 ELSE 1]
ChunkQuestions ==
  {[about |-> "chunks", lines |-> length, size |-> 3, overlap |-> overlap, nodes |-> nodes, heading |-> 2,
    widths |-> Long(length, long), written |-> {l \in 1 .. length : l % every = 0}, room |-> room, left |-> left] :
     length \in {1, 4, 6, 7, 10, 13}, overlap \in 0 .. 2, long \in {0, 2, 9}, every \in {1, 4}, room \in {7, 40}, left \in {0, 2, 20},
     nodes \in {<<>>, <<Symbol(1, 4)>>, <<Symbol(8, 0), Symbol(3, 4)>>, <<Symbol(6, 12), Symbol(2, 1), Symbol(6, 7)>>}}

Section(file, body) == [file |-> file, header |-> 3, body |-> body]
ContextQuestions ==
  {[about |-> "context", graph |-> graph, vector |-> vector, max |-> max, weight |-> weight, marker |-> 2] :
     graph \in {<<>>, <<Section("f", 4)>>, <<Section("f", 1), Section("g", 9)>>},
     vector \in {<<>>, <<Section("g", 2)>>, <<Section("h", 5), Section("g", 1)>>},
     max \in {1, 4, 9, 14, 30}, weight \in {1, 30, 60, 99}}

CodeNode(id, type, name, words, path, place) ==
  [id |-> id, kind |-> type, name |-> name, words |-> words, path |-> path, sig |-> {}, stem |-> IF type = "file" THEN name ELSE "",
   place |-> place, old |-> FALSE]
Library ==
  <<CodeNode("p", "function", "parse", {"parse"}, {"load"}, 4), CodeNode("l", "function", "loader", {"loader"}, {"pars"}, 3),
    [CodeNode("c", "class", "parse", {"parse", "load"}, {"old"}, 2) EXCEPT !.old = TRUE], CodeNode("f", "file", "load", {"load"}, {"load"}, 1),
    [CodeNode("s", "function", "send", {"send"}, {"net"}, 5) EXCEPT !.sig = {"pars"}]>>
Wordy == {"parse", "load", "loader", "pars", "send", "old", "net", "other"}
MCNamedIn == {<<"send", "send">>, <<"parse", "parse">>, <<"load", "loader">>, <<"loader", "loader">>, <<"load", "load">>}
MCBands == <<"function", "class", "file">>
MCMatch == [p \in Wordy \X Wordy |-> CASE p[1] = p[2] -> 10
                                      [] {p[1], p[2]} = {"load", "loader"} -> 5
                                      [] {p[1], p[2]} = {"parse", "pars"} -> 5
                                      [] OTHER -> 0]
SearchQuestions ==
  {[about |-> "search", nodes |-> Library, word |-> word, tokens |-> tokens] : word \in {"parse", "load", "?"}, tokens \in SUBSET (Wordy \ {"old", "other"})} \cup
  {[about |-> "hotspots", nodes |-> Library, names |-> names] : names \in {<<>>, <<"send", "parse">>, <<"parse", "parse">>, <<"load", "loader">>}} \cup
  {[about |-> "rank", nodes |-> Library, tokens |-> {"parse"}, edges |-> edges, seeds |-> seeds, limit |-> limit] :
     edges \in {{}, {<<"p", "s">>, <<"s", "l">>, <<"s", "f">>, <<"s", "s">>}, {<<"f", "c">>, <<"f", "p">>, <<"f", "l">>}},
     seeds \in {<<"p">>, <<"c", "l">>, <<"l", "p", "l">>}, limit \in {0, 1, 3, 5}} \cup
  {[about |-> "format", header |-> 2, unreadable |-> gone,
    blocks |-> [i \in 1 .. 4 |-> [file |-> files4[i], length |-> lengths[i]]]] :
     gone \in {{}, {"f"}}, files4 \in {<<"f", "f", "g", "f">>, <<"g", "f", "g", "h">>}, lengths \in [1 .. 4 -> {1, 4, 9}]} \cup
  {[about |-> "focus", lines |-> length, from |-> from, to |-> to, room |-> room] :
     length \in {0, 1, 9}, from \in -1 .. 10, to \in {0, 4, 9, 20}, room \in {0, 2, 5}}

MCQuestions == SearchQuestions \cup SampleQuestions \cup CallQuestions \cup ExpandQuestions \cup SeedQuestions
               \cup SelectQuestions \cup ChunkQuestions \cup ContextQuestions

-----------------------------------------------------------------------------
(* -- The vector index: sources of which two give as many chunks and one   *)
(* gives none; machines with every model, the small one, or none.          *)
MCVersions == {"v1", "v2", "bare"}
MCChunked  == [v \in MCVersions |-> IF v = "bare" THEN 0 ELSE 2]
MCMachines == {{"e5", "mini", "sklearn"}, {"mini", "sklearn"}, {"sklearn"}, {}}

-----------------------------------------------------------------------------
(* -- Projects to scan: mixtures of languages around the thresholds, files *)
(* that cannot be read, manifests with and without sources, layouts; and   *)
(* what is asked of the tools there.                                       *)
Walk(langs) == FlattenSeq([i \in DOMAIN langs |-> [n \in 1 .. langs[i][2] |-> [lang |-> langs[i][1], lines |-> 10, safe |-> TRUE, dir |-> i]]])
Manifest(name, place, words) == [name |-> name, place |-> place, readable |-> TRUE, words |-> words]
Plain == [walk |-> <<>>, directories |-> 4, manifests |-> <<{}>>, layout |-> {}, entries |-> {}, asks |-> {}]

Symptoms(words, fast, system) == [mode |-> "symptoms", words |-> words, fast |-> fast, system |-> system]
Strategy(name) == [mode |-> "strategy", strategy |-> name]
Quick == {Symptoms({"security"}, FALSE, TRUE), Symptoms({"concurrency", "performance"}, FALSE, FALSE), Strategy("hotspot_analysis")}
Slow ==
  {Symptoms({}, TRUE, TRUE), Symptoms({"startup_failure"}, FALSE, TRUE), Symptoms({"memory_leak", "deadlock"}, FALSE, TRUE),
   Symptoms({"memory_leak"}, FALSE, FALSE), Symptoms({"crash"}, FALSE, TRUE), Symptoms({"dependency"}, FALSE, FALSE), 
   Strategy("security_scan"), Strategy("unheard of")}
Mixture(p, g, c) == [Plain EXCEPT !.walk = Walk(<<<<"python", p>>, <<"go", g>>, <<"cpp", c>>, <<"other", 1>>>>)]
Mixtures ==
  {[Mixture(p, g, c) EXCEPT !.asks = Quick] : p \in 0 .. 5, g \in 0 .. 3, c \in 0 .. 2} \cup
  {[m EXCEPT !.asks = Slow, !.entries = {"pkg/__main__.py"}] : m \in {Mixture(4, 2, 0), Mixture(2, 0, 2)}}
Lengthy ==
  {[Plain EXCEPT !.walk = [i \in 1 .. 3 |-> [lang |-> IF i = o THEN "other" ELSE "go", lines |-> ls[i], safe |-> i # u, dir |-> i]]] :
     ls \in [1 .. 3 -> {0, 3, 10}], o \in 0 .. 3, u \in 0 .. 3}
Described ==
  {[Plain EXCEPT !.walk = w, !.layout = l, !.entries = e,
                 !.manifests = <<{Manifest("Makefile", 2, {})}, {[Manifest("go.mod", 1, {"grpc", "gin"}) EXCEPT !.readable = r]} \cup m>>] :
     w \in {<<>>, Walk(<<<<"cpp", 1>>>>)}, l \in {{}, {"src"}, {"etl", "raft"}}, e \in {{}, {"main.py", "cli.py", "api/main.go"}},
     r \in BOOLEAN, m \in {{}, {Manifest("requirements.txt", 3, {"flask", "Django"})}}} \cup
  {[Plain EXCEPT !.manifests = <<{Manifest("go.mod", 1, g), Manifest("package.json", 2, {"react", "express"})}>>] :
     g \in {{}, {"echo", "react", "kit"}}}
Wide == {[Mixture(p, 1, 1) EXCEPT !.directories = d] : p \in {0, 7, 8}, d \in 4 .. 5} \cup
        {[Plain EXCEPT !.directories = 6, !.walk = [i \in 1 .. 6 |-> [lang |-> "go", lines |-> 3, safe |-> i # u, dir |-> i]]] : u \in 3 .. 6}
MCCheckouts == Mixtures \cup Lengthy \cup Described \cup Wide

MCInstalled == {{}, {"dmesg", "ps"}, {"go", "ps", "vmstat"}}

-----------------------------------------------------------------------------
(* -- Audits: one good command line, and others that differ from it in one *)
(* or two respects; answers that are ordinary, odd, or about a fallback.   *)
Ordinary ==
  [mode |-> "quick", input |-> "directory", key |-> TRUE, ir |-> "full", concern |-> "slow", hot |-> TRUE, verify |-> TRUE,
   workers |-> 1, sandbox |-> TRUE, feedback |-> "none", save |-> TRUE, output |-> "file", readme |-> "readable",
   entries |-> <<[file |-> "main", readable |-> TRUE], [file |-> "gone", readable |-> FALSE], [file |-> "late", readable |-> TRUE]>>]
Unusual ==
  {[Ordinary EXCEPT !.mode = "wizard", !.key = k, !.save = FALSE] : k \in BOOLEAN} \cup
  {[Ordinary EXCEPT !.input = i, !.hot = FALSE, !.concern = "security"] : i \in {"git", "nothing", "filesystem root"}} \cup
  {[Ordinary EXCEPT !.ir = ir, !.key = k, !.readme = r] : ir \in {"no fingerprint", "none", "bare"}, k \in BOOLEAN, r \in {"readable", "escaped"}} \cup
  {[Ordinary EXCEPT !.key = FALSE], [Ordinary EXCEPT !.workers = 2, !.verify = FALSE, !.concern = "design"],
   [Ordinary EXCEPT !.feedback = "undecodable"],
   [Ordinary EXCEPT !.feedback = "usable", !.sandbox = FALSE, !.output = "no parent", !.concern = "other"]}
MCSetups == {Ordinary} \cup Unusual

Suggests(fact, title, odd) == [fact |-> fact, title |-> title, odd |-> odd]
MCAnswers ==
  {<<>>, <<Suggests("node", "secret", "nothing"), Suggests("rule", "plain", "nothing"), Suggests("node", "plain", "nothing")>>,
   <<Suggests("protocol", "plain", "nothing")>>, <<Suggests("main", "plain", "nothing"), Suggests("readme", "secret", "nothing")>>,
   <<Suggests("rule", "plain", "nothing"), Suggests("node", "plain", "line")>>, <<Suggests("node", "plain", "evidence")>>}

-----------------------------------------------------------------------------
SandboxSteps == kind = "patch" /\ SandboxNext /\ UNCHANGED <<kind, claimVars, retrievalVars, indexVars, scanVars, diagnosticVars, auditVars>>
ClaimSteps   == kind = "claim" /\ ClaimsNext /\ UNCHANGED <<kind, sandboxVars, retrievalVars, indexVars, scanVars, diagnosticVars, auditVars>>
RetrievalSteps == kind = "retrieval" /\ RetrievalNext /\ UNCHANGED <<kind, sandboxVars, claimVars, indexVars, scanVars, diagnosticVars, auditVars>>
IndexSteps == kind = "index" /\ IndexNext /\ UNCHANGED <<kind, sandboxVars, claimVars, retrievalVars, scanVars, diagnosticVars, auditVars>>
ToolSteps  == kind = "tools" /\ DiagnosticsNext /\ UNCHANGED <<kind, sandboxVars, claimVars, retrievalVars, indexVars, auditVars>>
PipelineSteps == kind = "audit" /\ PipelineNext /\ UNCHANGED <<kind, sandboxVars, claimVars, retrievalVars, indexVars, scanVars, diagnosticVars>>

Done == /\ \/ kind = "patch" /\ SandboxEnd
           \/ kind = "claim" /\ ClaimsEnd
           \/ kind = "retrieval" /\ RetrievalEnd
           \/ kind = "index" /\ IndexEnd
           \/ kind = "tools" /\ DiagnosticsEnd
           \/ kind = "audit" /\ PipelineEnd
        /\ UNCHANGED vars

Init == kind \in Parts /\ SandboxInit /\ ClaimsInit /\ RetrievalInit /\ IndexInit
        /\ ScanInit /\ DiagnosticsInit /\ PipelineInit
Next == SandboxSteps \/ ClaimSteps \/ RetrievalSteps \/ IndexSteps \/ ToolSteps \/ PipelineSteps \/ Done
Spec == Init /\ [][Next]_vars
=============================================================================
