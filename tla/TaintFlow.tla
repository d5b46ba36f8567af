----------------------------- MODULE TaintFlow ------------------------------
(***************************************************************************)
(* The data-flow rule (flow/taint_simple.py): the statements of a function *)
(* in source order, a value for each variable, and a finding for each call *)
(* of a sink whose first argument is not known to be harmless.             *)
(*                                                                         *)
(* An expression is a record [kind, at, ...]: at is its place in the       *)
(* source, and the other fields are what its kind has.  A statement sets a *)
(* name: "assign"; "augment", Python's x += e; "compound", JavaScript's    *)
(* x += e or x.y = e; "unpack", x, _ = e; or sets none: "call".  One that  *)
(* is optional stands under a condition, and an execution may skip it;     *)
(* loops are left out.                                                     *)
(***************************************************************************)
EXTENDS Naturals, Sequences, FiniteSets, SequencesExt

CONSTANT Bodies   \* functions: [params, statements]

VARIABLES body, statement, environment, flows,
          truth,     \* history: what each name is computed from in an execution
          reached    \* history: what each sink is handed in that execution

taintVars == <<body, statement, environment, flows, truth, reached>>

NoBody == [params |-> {}, statements |-> <<>>]
TaintInit == /\ body = NoBody /\ statement = 0 /\ environment = <<>> /\ flows = {}
             /\ truth = <<>> /\ reached = {}

-----------------------------------------------------------------------------
(* TaintTracker: values and their traces.                                  *)
TraceStep(what, at) == [what |-> what, at |-> at]
Value(state, trace) == [state |-> state, trace |-> trace]

Harmless    == Value("not tainted", <<>>)
Unknown     == Value("unknown", <<>>)
Source(at)  == Value("tainted", <<TraceStep("source", at)>>)

(* create_tainted_value for a request object, else of unknown origin.      *)
ParameterValue(p) ==
  IF p.request THEN Value("tainted", <<TraceStep("source", p.at)>>)
  ELSE Value("unknown", <<TraceStep("parameter", p.at)>>)

PropagateTaint(v, at) == [v EXCEPT !.trace = Append(@, TraceStep("step", at))]

(* TaintState.combine over all values.                                     *)
CombinedState(values) ==
  LET states == {v.state : v \in ToSet(values)} IN
  CASE "tainted" \in states -> "tainted"
    [] "tainted" \notin states /\ "unknown" \in states -> "unknown"
    [] OTHER -> "not tainted"

Once(steps) == FoldLeft(LAMBDA kept, s : IF s \in ToSet(kept) THEN kept ELSE Append(kept, s), <<>>, steps)

CombineValues(values, at) ==
  IF values = <<>> THEN Harmless
  ELSE Value(CombinedState(values),
             Append(Once(FlattenSeq([i \in DOMAIN values |-> values[i].trace])), TraceStep("step", at)))

-----------------------------------------------------------------------------
RECURSIVE Evaluate(_, _)
ReceiverValue(e, known) == PropagateTaint(Evaluate(e.of, known), e.at)

Evaluate(e, known) ==
  CASE e.kind = "name" /\ e.name \in DOMAIN known -> PropagateTaint(known[e.name], e.at)
    [] e.kind = "source"  -> Source(e.at)          \* req.query, sys.argv, input()
    [] e.kind = "member"  -> ReceiverValue(e, known)
    [] e.kind = "method"  -> ReceiverValue(e, known)   \* join, trim, ...
    [] e.kind = "map"     -> IF Evaluate(e.callback, <<>>).state = "not tainted" THEN Harmless
                             ELSE ReceiverValue(e, known)
    [] e.kind = "constant" -> Harmless
    [] e.kind = "compose" -> CombineValues([i \in DOMAIN e.parts |-> Evaluate(e.parts[i], known)], e.at)
    [] OTHER -> Unknown                            \* a name not bound, another call

-----------------------------------------------------------------------------
(* What an execution computes.  from: the inputs and parameters a value    *)
(* depends on; strays: the steps on its way that the rule reads otherwise. *)
Pure == [from |-> {}, strays |-> {}]
From(origin) == [from |-> {origin}, strays |-> {}]
Strayed(v, how) == [v EXCEPT !.strays = @ \cup {how}]
Joint(values) == [from |-> UNION {v.from : v \in values}, strays |-> UNION {v.strays : v \in values}]
Held(name, held) == IF name \in DOMAIN held THEN held[name] ELSE Pure

(* The element a callback is given.                                        *)
Item == "item"

RECURSIVE NamesIn(_)
NamesIn(e) ==
  CASE e.kind = "name" -> {e.name}
    [] e.kind \in {"member", "method"} -> NamesIn(e.of)
    [] e.kind = "map" -> NamesIn(e.of) \cup NamesIn(e.callback)
    [] e.kind = "compose" -> UNION {NamesIn(e.parts[k]) : k \in DOMAIN e.parts}
    [] e.kind = "call" -> UNION {NamesIn(e.arguments[k]) : k \in DOMAIN e.arguments}
    [] e.kind = "sink" -> NamesIn(e.argument)
    [] OTHER -> {}

RECURSIVE Computed(_, _)
Computed(e, held) ==
  CASE e.kind = "name"    -> Held(e.name, held)
    [] e.kind = "source"  -> From("source")
    [] e.kind \in {"member", "method"} -> Computed(e.of, held)
    [] e.kind = "map" ->
         LET given == (Item :> Computed(e.of, held)) @@ held
             made  == Computed(e.callback, given) IN
         IF e.callback.kind = "constant" \/ NamesIn(e.callback) = {Item}
           THEN made ELSE Strayed(made, "callback")
    [] e.kind = "compose" -> Joint({Computed(e.parts[k], held) : k \in DOMAIN e.parts})
    [] e.kind = "call" /\ e.arguments # <<>> ->
         Strayed(Joint({Computed(e.arguments[k], held) : k \in DOMAIN e.arguments}), "opaque")
    [] e.kind = "sink"    -> Strayed(Computed(e.argument, held), "opaque")
    [] OTHER -> Pure

Executed(s, held) ==
  LET made == Computed(s.exp, held) IN
  CASE s.kind = "assign" -> (s.name :> made) @@ held
    [] s.kind \in {"augment", "compound"} ->
         (s.name :> Strayed(Joint({Held(s.name, held), made}), "augmented")) @@ held
    [] s.kind = "unpack" -> (s.name :> Strayed(made, "unpacked")) @@ held
    [] OTHER -> held

SkippedOver(s, held) ==
  IF s.kind = "call" THEN held ELSE (s.name :> Strayed(Held(s.name, held), "skipped")) @@ held

-----------------------------------------------------------------------------
BeginBody ==
  /\ body = NoBody /\ body' \in Bodies
  /\ environment' = [n \in {p.name : p \in body'.params} |->
                       ParameterValue(CHOOSE p \in body'.params : p.name = n)]
  /\ truth' = [n \in {p.name : p \in body'.params} |->
                 From(IF \E p \in body'.params : p.name = n /\ p.request THEN "source" ELSE "parameter")]
  /\ statement' = 1 /\ UNCHANGED <<flows, reached>>

(* _assign_binding: a target that is not one name changes nothing, and an  *)
(* augmented assignment is one as any other, in Python; in JavaScript it   *)
(* has a node type of its own, which is passed over.                       *)
Binds(s) == s.kind \in {"assign", "augment"}

Bound(s, known) ==
  IF ~Binds(s) THEN known
  ELSE [n \in DOMAIN known \cup {s.name} |->
          IF n = s.name THEN PropagateTaint(Evaluate(s.exp, known), s.at) ELSE known[n]]

(* Mutant: a finding only where the caller's control is proven.            *)
SureVerdict(v) == IF v.state = "tainted" THEN {"confirmed"} ELSE {}

(* _inspect_sink.                                                          *)
Verdict(v) ==
  CASE v.state = "tainted" -> {"confirmed"}
    [] v.state = "unknown" /\ \E i \in DOMAIN v.trace : v.trace[i].what = "parameter" -> {"unproven"}
    [] OTHER -> {}

(* The calls of sinks in an expression; a callback is a function of its    *)
(* own.                                                                    *)
RECURSIVE SinksIn(_)
SinksIn(e) ==
  CASE e.kind = "sink" -> {e} \cup SinksIn(e.argument)
    [] e.kind \in {"member", "method", "map"} -> SinksIn(e.of)
    [] e.kind = "compose" -> UNION {SinksIn(e.parts[k]) : k \in DOMAIN e.parts}
    [] e.kind = "call" -> UNION {SinksIn(e.arguments[k]) : k \in DOMAIN e.arguments}
    [] OTHER -> {}

Inspected(e, known) ==
  LET v == Evaluate(e.argument, known) IN
  {[sink |-> e.at, says |-> says, first |-> v.trace[1].what] : says \in Verdict(v)}

(* An execution evaluates the argument of a sink before it assigns.        *)
Given(e, s) ==
  LET v == Computed(e.argument, truth) IN
  IF Binds(s) /\ s.name \in NamesIn(e.argument) THEN Strayed(v, "rebound") ELSE v

(* The children of an assignment, with the sinks among them, are walked    *)
(* after it has been bound; every statement is walked, once.               *)
WalkStatement ==
  LET s == body.statements[statement]
      known == Bound(s, environment) IN
  /\ statement \in DOMAIN body.statements
  /\ environment' = known /\ statement' = statement + 1
  /\ flows' = flows \cup UNION {Inspected(e, known) : e \in SinksIn(s.exp)}
  /\ \/ /\ truth' = Executed(s, truth)
        /\ reached' = reached \cup {[sink |-> e.at, given |-> Given(e, s)] : e \in SinksIn(s.exp)}
     \/ s.optional /\ truth' = SkippedOver(s, truth) /\ UNCHANGED reached
  /\ UNCHANGED body

TaintEnd == body # NoBody /\ statement > Len(body.statements)
TaintNext == BeginBody \/ WalkStatement

-----------------------------------------------------------------------------
SaidOf(sink) == {f.says : f \in {g \in flows : g.sink = sink}}

Due(from) ==
  IF "source" \in from THEN {"confirmed"} ELSE IF "parameter" \in from THEN {"unproven"} ELSE {}

(* Whatever execution is taken, a sink is reported as confirmed exactly    *)
(* when its argument is computed from an input there, and as unproven      *)
(* exactly when only from a parameter, unless the value came through a     *)
(* step the rule reads otherwise: an augmented assignment (its old value   *)
(* is forgotten, taint_simple.py:174-177, or the new one is), an unpacked  *)
(* assignment (195), the argument of another call (288), a callback that   *)
(* reads more than its element, a conditional assignment that was not      *)
(* executed, or a sink inside the assignment of the name it reads, which   *)
(* is judged after it (177-182).  Of these, only the last three and an     *)
(* unpacked assignment can make a confirmation wrong.                      *)
FlowVerdictsAreExact ==
  TaintEnd =>
    \A r \in reached :
      /\ r.given.strays = {} => SaidOf(r.sink) = Due(r.given.from)
      /\ r.given.strays \subseteq {"augmented", "opaque"} /\ "confirmed" \in SaidOf(r.sink) =>
           "source" \in r.given.from
=============================================================================
