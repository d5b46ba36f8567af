----------------------------- MODULE MCAnalyses -----------------------------
(***************************************************************************)
(* The parts of one analysis, each on a small instance: a behaviour takes  *)
(* one of them, and the others do not move.                                *)
(***************************************************************************)
EXTENDS Engine, ProjectReader, CallFlow, Linker, RetryLoops, TaintFlow, ShardPlan, Adjudication

CONSTANT Parts
VARIABLE kind
vars == <<kind, engineVars, readerVars, searchVars, linkVars, retryVars, taintVars, planVars, adjudicationVars>>

(* -- The engine: two languages, of which Python's support is full and Go's *)
(*    is partial, a third one without a frontend, four rules and two files  *)
(*    of state rules.                                                      *)
MCAdapted == {"python", "go"}
MCLevel   == [python |-> "full", go |-> "partial"]
MCUnits   == {[language |-> "python", role |-> "production"], [language |-> "python", role |-> "test"],
              [language |-> "go", role |-> "production"]}

Rule(id, languages, requires, severity) ==
  [id |-> id, languages |-> languages, requires |-> requires, severity |-> severity,
   llm |-> FALSE, enabled |-> TRUE, roles |-> AllRoles, sure |-> TRUE]

MCRegistered ==
  <<[Rule("race", {"python"}, "full", "error") EXCEPT !.roles = {"production"}],
    Rule("locks", {"go", "python"}, "full", "warning"),
    [Rule("style", AnyLanguage, "nothing", "info") EXCEPT !.sure = FALSE],
    [Rule("review", {"go"}, "nothing", "info") EXCEPT !.llm = TRUE],
    [Rule("pedantic", {"go"}, "partial", "info") EXCEPT !.enabled = FALSE]>>

StateFile(name, unreadable, rules) == [name |-> name, unreadable |-> unreadable, rules |-> rules]
MCStateFiles ==
  <<StateFile("a", FALSE, <<Rule("order", {"go"}, "partial", "error")>>),
    StateFile("b", TRUE, <<>>),
    StateFile("c", FALSE, <<Rule("order", AnyLanguage, "nothing", "info")>>)>>

Ask(languages) == [NoRequest EXCEPT !.languages = languages, !.failOn = "warning", !.packs = 1]
ReaderFinding ==
  [rule |-> "project_resource_lifecycle", unit |-> [language |-> "go", role |-> "production"],
   sure |-> TRUE, severity |-> "warning"]

MCRequests ==
  {Ask(<<>>), Ask(<<"python">>), Ask(<<"c">>), [Ask(<<"go">>) EXCEPT !.single = TRUE],
   [Ask(<<"c">>) EXCEPT !.single = TRUE],
   [Ask(<<"python", "go">>) EXCEPT !.sure = TRUE, !.trajectory = TRUE],
   [Ask(<<"go", "python">>) EXCEPT !.rules = {"locks", "pedantic", "order"}, !.failOn = "none",
                                   !.files = MCStateFiles],
   [Ask(<<"go", "c">>) EXCEPT !.llm = TRUE, !.reader = {ReaderFinding}, !.failOn = "error"]}

-----------------------------------------------------------------------------
(* -- The reader: one function that acquires and releases, in several      *)
(*    shapes, and for the inventory three functions in two files.     *)
Operation(kind_, file, scope) ==
  [kind |-> kind_, file |-> file, scope |-> scope, symbol |-> <<"", "">>, first |-> <<"", "">>,
   host |-> 0, receiver |-> <<"", "">>, results |-> <<>>, uses |-> {}, returns |-> {}]

Fetch    == <<"api", "Fetch">>
Release(path, method) ==
  [Operation("defer", 1, 1) EXCEPT !.symbol = <<"r", method>>, !.receiver = <<"r", path>>]

(* call, its assignment, a cleanup, a use, and a last operation.           *)
FetchFunction(path, last) ==
  <<[Operation("call", 1, 1) EXCEPT !.symbol = Fetch, !.host = 2, !.results = <<"r", "_">>],
    [Operation("assign", 1, 1) EXCEPT !.first = Fetch],
    Release(path, "Close"),
    [Operation("use", 1, 1) EXCEPT !.uses = {<<"r", path>>}],
    CASE last = "again"   -> Release(path, "Close")
      [] last = "stop"    -> Release(path, "Stop")
      [] last = "return"  -> [Operation("return", 1, 1) EXCEPT !.returns = {"r"}]>>

ArcsOf(pairs) == {[from |-> p[1], to |-> p[2], kind |-> "next"] : p \in pairs}
Shapes ==
  {ArcsOf({<<1, 2>>, <<2, 3>>, <<3, 4>>, <<4, 5>>}), ArcsOf({<<1, 2>>, <<2, 4>>, <<4, 3>>, <<3, 5>>}),
   ArcsOf({<<1, 2>>, <<2, 3>>, <<3, 4>>, <<2, 4>>, <<4, 5>>})}

Type(id, type, symbol) == [op |-> 1, id |-> id, type |-> type, symbol |-> symbol]
TypeSets == {{}, {Type(1, "Client", "api.Client.Fetch")},
             {Type(1, "Client", "api.Client.Fetch"), Type(2, "Conn", "")}}

Candidate(id, methods, mode, path) ==
  [id |-> id, op |-> 1, symbol |-> Fetch, index |-> 1, methods |-> methods, mode |-> mode,
   path |-> path, type |-> IF mode = "typed_method" THEN "Client" ELSE "",
   canonical |-> IF mode = "typed_method" THEN {"api.Client.Fetch"} ELSE {}]

MCCandidates ==
  {Candidate(1, {"Close"}, "exact", ""), [Candidate(1, {"Close"}, "exact", "") EXCEPT !.symbol = <<"", "fetch">>],
   Candidate(1, {"Close", "Stop"}, "exact", "Body"), [Candidate(2, {"Close"}, "exact", "") EXCEPT !.op = 3],
   Candidate(2, {"Close"}, "method_shape", "Body"), Candidate(2, {"Close"}, "typed_method", "Body"),
   Candidate(2, {"Close"}, "typed_method", ""), [Candidate(1, {"Close"}, "exact", "") EXCEPT !.index = 2]}

MCAnswers == {<<>>} \cup {<<c>> : c \in MCCandidates} \cup
             {<<c, d>> : c \in {k \in MCCandidates : k.id = 1}, d \in {k \in MCCandidates : k.mode # "exact"}}

ReadProjects ==
  {[project |-> [ops |-> FetchFunction(path, last), arcs |-> arcs_, types |-> types], answers |-> MCAnswers] :
     path \in {"", "Body"}, last \in {"again", "stop", "return"}, arcs_ \in Shapes, types \in TypeSets}

(* A function of the inventory: some calls, perhaps with a cleanup.        *)
Listed(scope, shape) ==
  [i \in 1 .. shape.calls |-> [Operation("call", shape.file, scope) EXCEPT !.results = <<"r">>]]
  \o (IF shape.cleanup THEN <<Operation("defer", shape.file, scope)>> ELSE <<>>)

ScopeShapes == [calls : {1, 2}, file : {1, 2}, cleanup : BOOLEAN]
InventoryProjects ==
  {[project |-> [ops |-> FlattenSeq([s \in 1 .. 3 |-> Listed(s, shapes[s])]), arcs |-> {},
                 types |-> {Type(1, "Client", ""), Type(2, "Conn", "")}], answers |-> {}] :
     shapes \in [1 .. 3 -> ScopeShapes]}

MCProjects == {[project |-> NoProject, answers |-> {}]} \cup ReadProjects \cup InventoryProjects

-----------------------------------------------------------------------------
(* -- Paths: a main function 1 that calls function 8, from one or two of   *)
(*    its assignments or by itself; 8 may call itself, and may not return. *)
Node(kind_, scope, host) == [kind |-> kind_, scope |-> scope, host |-> host]

MainProgram(alone, twice, callee, recursive) ==
  [ops |-> <<Node("function", 1, 0), Node("assign", 1, 0), Node("call", 1, IF alone THEN 0 ELSE 2),
             Node("assign", 1, 0), Node("call", 1, 4), Node("other", 1, 0), Node("return", 1, 0),
             Node("function", 8, 0), Node("assign", 8, 0), Node("call", 8, 9), Node(callee, 8, 0)>>,
   flow |-> {<<4, 6>>, <<6, 7>>, <<9, 11>>} \cup (IF alone THEN {<<2, 3>>, <<3, 4>>} ELSE {<<2, 4>>}),
   first |-> [f \in {1, 8} |-> f + 1],
   calls |-> {<<3, 8>>} \cup (IF twice THEN {<<5, 8>>} ELSE {}) \cup (IF recursive THEN {<<10, 8>>} ELSE {})]

MCPrograms == {MainProgram(alone, twice, callee, recursive) :
                 alone \in BOOLEAN, twice \in BOOLEAN, callee \in {"return", "other"}, recursive \in BOOLEAN}
MCQueries  == [p \in MCPrograms |-> (DOMAIN p.ops) \X (DOMAIN p.ops)]

-----------------------------------------------------------------------------
(* -- Links: a type A with two methods, a type B with one, and functions   *)
(*    that make them; the calls of main in any order.                      *)
Func(qualified, namespace, receiver, returns, parameters) ==
  [qualified |-> qualified, namespace |-> namespace, receiver |-> receiver, returns |-> returns,
   parameters |-> parameters, exits |-> Len(returns)]
Parameter(name, kind_) == [name |-> name, kind |-> kind_]

MCFunctions ==
  <<Func(<<"pkg", "main">>, "pkg", "", <<>>, <<>>),
    Func(<<"pkg", "A", "run">>, "pkg", "A", <<"B">>,
         <<Parameter("self", "receiver"), Parameter("x", "fixed"), Parameter("rest", "variadic")>>),
    Func(<<"pkg", "B", "run">>, "pkg", "B", <<>>, <<Parameter("x", "fixed"), Parameter("more", "kwarg")>>),
    Func(<<"pkg", "makeA">>, "pkg", "", <<"A">>, <<>>),
    Func(<<"lib", "makeB">>, "lib", "", <<"B">>, <<>>),
    Func(<<"lib", "B", "stop">>, "lib", "B", <<>>, <<>>),
    Func(<<"pkg", "A", "again">>, "pkg", "A", <<>>, <<>>)>>

CallOf(scope, target, receiver, results, arguments) ==
  [scope |-> scope, target |-> target, receiver |-> receiver, results |-> results, arguments |-> arguments]

MCCalls ==
  {CallOf(1, <<"makeA">>, "", <<"v">>, <<>>), CallOf(1, <<"v", "run">>, "v", <<"w">>, <<"", "", "x">>),
   CallOf(1, <<"w", "run">>, "w", <<>>, <<"", "y">>), CallOf(1, <<"w", "stop">>, "w", <<>>, <<>>),
   CallOf(1, <<"lib", "makeB">>, "lib", <<"v">>, <<>>), CallOf(1, <<"run">>, "", <<>>, <<>>),
   CallOf(7, <<"self", "run">>, "self", <<>>, <<>>)}

MCSources ==
  {[functions |-> MCFunctions, calls |-> order, declared |-> known,
    channels |-> {[scope |-> 1, at |-> 1, channel |-> "ch", kind |-> "send"],
                  [scope |-> 1, at |-> 2, channel |-> "ch", kind |-> "receive"]}] :
     order \in {s \in [1 .. 4 -> MCCalls] : Cardinality({s[i] : i \in 1 .. 4}) = 4},
     known \in {{}, {<<1, "w", "">>}, {<<1, "w", "A">>}}}

-----------------------------------------------------------------------------
(* -- Retries: an endless loop calls, tests the error and on failure goes  *)
(*    through up to three operations, then on or back to the loop head;    *)
(*    otherwise it handles the result.                                     *)
Plain(kind_) ==
  [kind |-> kind_, risky |-> FALSE, error |-> "", tests |-> "", failsOn |-> "", sets |-> {}, reads |-> {},
   limits |-> FALSE, pauses |-> FALSE, records |-> FALSE]

OnFailure ==
  {[Plain("call") EXCEPT !.records = TRUE], [Plain("call") EXCEPT !.pauses = TRUE], Plain("call"),
   [Plain("branch") EXCEPT !.limits = TRUE], [Plain("branch") EXCEPT !.reads = {"err", "n"}],
   [Plain("branch") EXCEPT !.reads = {"err"}]}

Arc(from, to, kind_) == [from |-> from, to |-> to, kind |-> kind_]

Retrier(path, outcome, continues, endless, handled) ==
  LET last == 5 + Len(path)      \* the continue, or the handling of the result
      handle == last + 1
      stop   == last + 2 IN
  [ops |-> <<Plain("loop"), [Plain("assign") EXCEPT !.sets = {"err", "n"}],
             [Plain("call") EXCEPT !.risky = TRUE, !.error = "err"],
             [Plain("branch") EXCEPT !.tests = "err", !.failsOn = outcome, !.reads = {"err"}]>>
           \o path \o <<Plain("continue"), handled, Plain("return")>>,
   arcs |-> {Arc(1, 2, "body"), Arc(3, 2, "next"), Arc(2, 4, "next"), Arc(4, 5, outcome),
             Arc(4, handle, IF outcome = "true" THEN "false" ELSE "true"), Arc(handle, 1, "loop_back"),
             IF continues THEN Arc(last, 1, "loop_back") ELSE Arc(last, handle, "next")}
            \cup {Arc(4 + i, 5 + i, IF path[i].kind = "branch" THEN "false" ELSE "next") : i \in DOMAIN path}
            \cup {Arc(4 + i, IF path[i].limits THEN stop ELSE handle, "true") :
                    i \in {k \in DOMAIN path : path[k].kind = "branch"}},
   loop |-> [at |-> 1, endless |-> endless]]

MCRetriers ==
  {Retrier(path, outcome, continues, endless, handled) :
     path \in UNION {[1 .. n -> OnFailure] : n \in 0 .. 3}, outcome \in {"true", "false"},
     continues \in BOOLEAN, endless \in {TRUE}, handled \in {Plain("call"), [Plain("call") EXCEPT !.records = TRUE]}}
  \cup {Retrier(<<>>, "true", TRUE, FALSE, Plain("call"))}

-----------------------------------------------------------------------------
(* -- Plans: directories "api", "api:1" and "misc".                        *)
MCSpelling == 2 :> <<1, 1>>

-----------------------------------------------------------------------------
(* -- Data flow: functions of four statements over a request, another      *)
(*    parameter and two locals, the last of which hands one of them on.    *)
Exp(kind_, at_) == [kind |-> kind_, at |-> at_]
NameAt(name, at_) == [kind |-> "name", at |-> at_, name |-> name]
Of(kind_, at_, e) == [kind |-> kind_, at |-> at_, of |-> e]
Compose(at_, parts) == [kind |-> "compose", at |-> at_, parts |-> parts]

Call(at_, arguments) == [kind |-> "call", at |-> at_, arguments |-> arguments]
Mapped(i, callback) ==
  [kind |-> "map", at |-> i, of |-> NameAt("x", i + 10), callback |-> callback]

Expressions(i) ==
  {NameAt("id", i), NameAt("x", i), Exp("source", i), Exp("constant", i), Call(i, <<NameAt("x", i + 10)>>),
   Of("method", i, NameAt("x", i + 10)), Of("member", i, NameAt("req", i + 10)),
   Mapped(i, Exp("constant", i + 20)), Mapped(i, NameAt(Item, i + 20)), Mapped(i, NameAt("y", i + 20)),
   Compose(i, <<NameAt("x", i + 10), NameAt("id", i + 20)>>),
   Compose(i, <<NameAt("x", i + 10), Call(i + 20, <<>>), NameAt("y", i + 30)>>)}

Sets(kind_, name, e) == [kind |-> kind_, name |-> name, exp |-> e, at |-> e.at, optional |-> FALSE]
Perhaps(s) == [s EXCEPT !.optional = TRUE]
SinkOf(e) == [kind |-> "sink", at |-> e.at, argument |-> e]

Statements(i) ==
  {Sets("assign", "x", e) : e \in Expressions(i)} \cup
  {Sets("assign", "y", NameAt("x", i)), Sets("assign", "y", Exp("constant", i)),
   Sets("augment", "x", Exp("constant", i)), Sets("compound", "x", Exp("source", i)),
   Sets("unpack", "x", Exp("source", i)), Sets("unpack", "x", Exp("constant", i)),
   Perhaps(Sets("assign", "x", Exp("constant", i))), Perhaps(Sets("assign", "x", Exp("source", i)))}

(* A sink inside an assignment, alone or beside an input.                  *)
Embedded(i) ==
  {Sets("assign", "x", SinkOf(NameAt("x", i))), Sets("assign", "y", SinkOf(NameAt("x", i))),
   Sets("assign", "x", Compose(i, <<SinkOf(NameAt("x", i + 10)), Exp("source", i + 20)>>))}

Final(i) == {Sets("call", "", SinkOf(e)) : e \in Expressions(i)}

MCBodies ==
  [params : {{[name |-> "req", request |-> TRUE, at |-> 1], [name |-> "id", request |-> FALSE, at |-> 2]}},
   statements : Statements(100) \X Statements(200)
                \X (Embedded(300) \cup {Perhaps(Sets("assign", "x", NameAt("id", 300))),
                                        Sets("augment", "x", NameAt("id", 300)),
                                        Sets("assign", "x", Call(300, <<NameAt("y", 310)>>))})
                \X Final(400)]

-----------------------------------------------------------------------------
(* -- Handling: three files, two of which differ by a dot, that state      *)
(*    intents in comments, code or prose, and three findings.              *)
PathNamed(name, dots) == [dots |-> dots, name |-> name]
Says(comment, kinds) == [comment |-> comment, kinds |-> kinds]
Texts == {<<>>, <<Says(TRUE, <<"trade_off", "bounded_retry">>), Says(FALSE, <<"intentional">>)>>,
          <<Says(TRUE, <<"out_of_scope">>), Says(TRUE, <<"fail_stop">>)>>}
FilesAt(path) == {[path |-> path, kind |-> k, lines |-> text] :
                    k \in {"document", "source", "passed over"}, text \in Texts}

MCWildcards == ("*" :> {"a", "b", "no path"}) @@ ("[b]" :> {"b"})
EntryOn(rule, path) == [label |-> "theoretical", path |-> path, rule |-> rule, source |-> 0]
FindingIn(rule, path) == [rule |-> rule, path |-> path, risky |-> FALSE, unreachable |-> FALSE]

MCRepositories ==
  {[files |-> <<f, g, h>>, buried |-> buried, entries |-> entries,
    findings |-> <<FindingIn("leak", PathNamed("a", FALSE)), [FindingIn("retry", PathNamed("b", FALSE)) EXCEPT !.risky = TRUE],
                   [FindingIn(NoRule, NoPlace) EXCEPT !.unreachable = TRUE]>>] :
     f \in FilesAt(PathNamed("a", TRUE)), g \in FilesAt(PathNamed("a", FALSE)), h \in FilesAt(PathNamed("b", FALSE)),
     buried \in BOOLEAN,
     entries \in {<<>>, <<EntryOn("leak", PathNamed("[b]", FALSE)), [EntryOn("retry", NoPlace) EXCEPT !.label = "intentional"]>>,
                  <<EntryOn(NoRule, PathNamed("a", TRUE)), EntryOn(NoRule, PathNamed("*", FALSE))>>,
                  <<EntryOn(NoRule, PathNamed("[b]", FALSE)), EntryOn("leak", PathNamed("a", FALSE))>>}}

-----------------------------------------------------------------------------
EngineSteps ==
  kind = "engine" /\ EngineNext
  /\ UNCHANGED <<kind, readerVars, searchVars, linkVars, retryVars, taintVars, planVars, adjudicationVars>>
ReaderSteps ==
  kind = "reader" /\ ReaderNext
  /\ UNCHANGED <<kind, engineVars, searchVars, linkVars, retryVars, taintVars, planVars, adjudicationVars>>
PathSteps ==
  kind = "path" /\ SearchNext
  /\ UNCHANGED <<kind, engineVars, readerVars, linkVars, retryVars, taintVars, planVars, adjudicationVars>>
LinkSteps ==
  kind = "link" /\ LinkNext
  /\ UNCHANGED <<kind, engineVars, readerVars, searchVars, retryVars, taintVars, planVars, adjudicationVars>>
RetrySteps ==
  kind = "retry" /\ RetryNext
  /\ UNCHANGED <<kind, engineVars, readerVars, searchVars, linkVars, taintVars, planVars, adjudicationVars>>
TaintSteps ==
  kind = "taint" /\ TaintNext
  /\ UNCHANGED <<kind, engineVars, readerVars, searchVars, linkVars, retryVars, planVars, adjudicationVars>>
PlanSteps ==
  kind = "plan" /\ PlanNext
  /\ UNCHANGED <<kind, engineVars, readerVars, searchVars, linkVars, retryVars, taintVars, adjudicationVars>>
AdjudicationSteps ==
  kind = "adjudication" /\ AdjudicationNext
  /\ UNCHANGED <<kind, engineVars, readerVars, searchVars, linkVars, retryVars, taintVars, planVars>>

Done == /\ \/ kind = "engine" /\ enginePhase = "done"
           \/ kind = "reader" /\ readerPhase = "end"
           \/ kind = "path" /\ answer # "none yet"
           \/ kind = "link" /\ linking = "done"
           \/ kind = "retry" /\ RetryEnd
           \/ kind = "taint" /\ TaintEnd
           \/ kind = "plan" /\ planning = "done"
           \/ kind = "adjudication" /\ AdjudicationEnd
        /\ UNCHANGED vars

Init == /\ kind \in Parts
        /\ EngineInit /\ ReaderInit /\ SearchInit /\ LinkInit /\ RetryInit /\ TaintInit /\ PlanInit
        /\ AdjudicationInit
Next == EngineSteps \/ ReaderSteps \/ PathSteps \/ LinkSteps \/ RetrySteps \/ TaintSteps \/ PlanSteps
        \/ AdjudicationSteps \/ Done
Spec == Init /\ [][Next]_vars
=============================================================================
