------------------------------- MODULE Linker -------------------------------
(***************************************************************************)
(* The semantic linker (analysis/interprocedural.py): rounds over the      *)
(* calls, each linked when exactly one function can be meant; what a       *)
(* linked function returns gives types to variables, which lets later      *)
(* calls be resolved.  Then arguments, returns and channels are linked.    *)
(*                                                                         *)
(* A name is a sequence, <<"pkg", "Type", "run">>; a type the last part of *)
(* one, "" for one that is not a single type.                              *)
(***************************************************************************)
EXTENDS Naturals, Sequences, FiniteSets, SequencesExt

CONSTANT Sources  \* programs: [functions, calls, declared, channels]

(* Functions and calls have names, and a call stands in a function.        *)
ASSUME LinkAssumption ==
  \A p \in Sources :
    /\ Len(p.calls) \in Nat /\ DOMAIN p.calls = 1 .. Len(p.calls)
    /\ \A f \in DOMAIN p.functions : p.functions[f].qualified \in Seq(STRING) \ {<<>>}
    /\ \A c \in DOMAIN p.calls :
         p.calls[c].target \in Seq(STRING) \ {<<>>} /\ p.calls[c].scope \in DOMAIN p.functions

VARIABLES
  code,         \* the program
  pending,      \* calls of this round still to look at
  nextPending, typeProgress, roundSize,
  targets,      \* resolutions: the function of each linked call
  how,          \* the way each was resolved
  localTypes,   \* {<<scope, variable, type>>}
  linkEdges, linking

linkVars == <<code, pending, nextPending, typeProgress, roundSize, targets, how, localTypes,
              linkEdges, linking>>

NoCode == [functions |-> <<>>, calls |-> <<>>, declared |-> {}, channels |-> {}]

LinkInit ==
  /\ code = NoCode /\ pending = <<>> /\ nextPending = <<>> /\ typeProgress = FALSE /\ roundSize = 0
  /\ targets = <<>> /\ how = <<>> /\ localTypes = {} /\ linkEdges = {} /\ linking = "start"

Functions == DOMAIN code.functions
Function(f) == code.functions[f]
CallAt(c)   == code.calls[c]
Simple(name) == Last(name)

-----------------------------------------------------------------------------
(* _function_indices and _resolve_call.                                    *)
Exact(name)         == {f \in Functions : Function(f).qualified = name}
InNamespace(ns, s)  == {f \in Functions : ns # "" /\ Function(f).namespace = ns /\ Simple(Function(f).qualified) = s}
BySimple(s)         == {f \in Functions : Simple(Function(f).qualified) = s}
Methods(ns, type, s) ==
  {f \in Functions : Function(f).receiver = type /\ Function(f).namespace = ns /\ Simple(Function(f).qualified) = s}
MethodsGlobal(type, s) ==
  {f \in Functions : Function(f).receiver = type /\ Simple(Function(f).qualified) = s}

(* self.run inside pkg.Type.method is pkg.Type.run.                        *)
Contextual(call) ==
  LET inside == Function(call.scope).qualified IN
  IF call.target[1] = "self" /\ Len(call.target) > 1 /\ Len(inside) > 2
  THEN Exact(Front(inside) \o Tail(call.target)) ELSE {}

TypesOfVariable(types, call) == {t[3] : t \in {u \in types : u[1] = call.scope /\ u[2] = call.receiver}} \ {""}

Typed(call, types) ==
  LET receivers == TypesOfVariable(types, call)
      type      == CHOOSE t \in receivers : TRUE
      scoped    == Methods(Function(call.scope).namespace, type, Simple(call.target)) IN
  IF Cardinality(receivers) # 1 THEN {}
  ELSE Exact(<<type, Simple(call.target)>>) \cup scoped
       \cup (IF scoped = {} THEN MethodsGlobal(type, Simple(call.target)) ELSE {})

Near(call) == InNamespace(Function(call.scope).namespace, Simple(call.target))

ResolvedBy(call, types) ==
  CASE Exact(call.target) # {} -> [way |-> "qualified", found |-> Exact(call.target)]
    [] Exact(call.target) = {} /\ Len(call.target) = 1 /\ Cardinality(Near(call)) = 1 ->
         [way |-> "namespace", found |-> Near(call)]
    [] Exact(call.target) = {} /\ Len(call.target) > 1 /\ Contextual(call) # {} ->
         [way |-> "lexical_receiver", found |-> Contextual(call)]
    [] Exact(call.target) = {} /\ Len(call.target) > 1 /\ Contextual(call) = {} ->
         [way |-> "typed_receiver", found |-> Typed(call, types)]
    [] OTHER -> [way |-> "unique_simple", found |-> BySimple(Simple(call.target))]

IsOne(call, types) == Cardinality(ResolvedBy(call, types).found) = 1
TheOne(call, types) == CHOOSE f \in ResolvedBy(call, types).found : TRUE

(* _propagate_return_types: one type for one result, otherwise in order.   *)
Learned(call, f) ==
  LET returns == Function(f).returns IN
  IF Len(returns) = 1 /\ Len(call.results) # 1 THEN {}
  ELSE {<<call.scope, call.results[i], returns[i]>> :
          i \in {k \in DOMAIN returns \cap DOMAIN call.results : returns[k] # "" /\ call.results[k] # ""}}

-----------------------------------------------------------------------------
(* link().                                                                 *)
BeginLink ==
  /\ linking = "start" /\ code' \in Sources
  /\ pending' = [i \in DOMAIN code'.calls |-> i]
  /\ roundSize' = Len(code'.calls)
  /\ localTypes' = code'.declared /\ linking' = "round"
  /\ UNCHANGED <<nextPending, typeProgress, targets, how, linkEdges>>

TryCall ==
  LET c == Head(pending)
      call == CallAt(c)
      one == IsOne(call, localTypes) IN
  /\ linking = "round" /\ pending # <<>> /\ pending' = Tail(pending)
  /\ IF one
     THEN LET f == TheOne(call, localTypes) IN
          /\ targets' = [x \in DOMAIN targets \cup {c} |-> IF x = c THEN f ELSE targets[x]]
          /\ how' = [x \in DOMAIN how \cup {c} |-> IF x = c THEN ResolvedBy(call, localTypes).way ELSE how[x]]
          /\ localTypes' = localTypes \cup Learned(call, f)
          /\ typeProgress' = (typeProgress \/ ~(Learned(call, f) \subseteq localTypes))
          /\ UNCHANGED nextPending
     ELSE nextPending' = Append(nextPending, c) /\ UNCHANGED <<targets, how, localTypes, typeProgress>>
  /\ UNCHANGED <<code, roundSize, linkEdges, linking>>

(* Mutant: the calls are gone through once.                                *)
IsLastAtOnce == ~typeProgress \/ Len(nextPending) <= roundSize

(* No call of this round was linked.                                       *)
IsLast == Len(nextPending) = roundSize /\ ~typeProgress

EndRound ==
  /\ linking = "round" /\ pending = <<>>
  /\ linking' = IF nextPending = <<>> \/ IsLast THEN "edges" ELSE "round"
  /\ pending' = nextPending /\ roundSize' = Len(nextPending)
  /\ nextPending' = <<>> /\ typeProgress' = FALSE
  /\ UNCHANGED <<code, targets, how, localTypes, linkEdges>>

-----------------------------------------------------------------------------
(* _link_arguments: a named argument goes to the parameter of that name or *)
(* to the keyword sink, another to the next fixed parameter and then to    *)
(* the variadic one; a receiver takes none.                                *)
Parameters(f) == SelectSeq(Function(f).parameters, LAMBDA p : p.kind # "receiver")
Fixed(f)      == SelectSeq(Parameters(f), LAMBDA p : p.kind = "fixed")

Sink(f, kind) == {p \in ToSet(Parameters(f)) : p.kind = kind}
Named(f, name) ==
  LET same == {p \in ToSet(Parameters(f)) : p.name = name}
  IN  IF same # {} THEN same ELSE Sink(f, "kwarg")

PlaceOf(arguments, i) == Cardinality({k \in 1 .. i : arguments[k] = ""})

Takes(f, arguments, i) ==
  IF arguments[i] # "" THEN Named(f, arguments[i])
  ELSE IF PlaceOf(arguments, i) <= Len(Fixed(f)) THEN {Fixed(f)[PlaceOf(arguments, i)]}
  ELSE Sink(f, "variadic")

LinkEdge(from, to, kind) == [from |-> from, to |-> to, kind |-> kind]

ArgumentEdges(c) ==
  UNION {{LinkEdge(<<c, i>>, <<targets[c], p.name>>, "argument") : p \in Takes(targets[c], CallAt(c).arguments, i)} :
           i \in DOMAIN CallAt(c).arguments}

(* _add_call_link.                                                         *)
CallEdges(c) ==
  {LinkEdge(<<c>>, <<targets[c]>>, "calls")} \cup ArgumentEdges(c)
  \cup {LinkEdge(<<targets[c], r>>, <<c>>, "returns") : r \in 1 .. Function(targets[c]).exits}

(* Sends and receives of one channel in one function.                      *)
Synchronized ==
  {LinkEdge(<<p[1].scope, p[1].at>>, <<p[2].scope, p[2].at>>, "synchronizes") :
     p \in {x \in code.channels \X code.channels :
        /\ x[1].kind = "send" /\ x[2].kind = "receive"
        /\ x[1].scope = x[2].scope /\ x[1].channel = x[2].channel}}

LinkAll ==
  /\ linking = "edges" /\ linking' = "done"
  /\ linkEdges' = UNION {CallEdges(c) : c \in DOMAIN targets} \cup Synchronized
  /\ UNCHANGED <<code, pending, nextPending, typeProgress, roundSize, targets, how, localTypes>>

LinkNext == BeginLink \/ TryCall \/ EndRound \/ LinkAll
LinkSpec == LinkInit /\ [][LinkNext]_linkVars

-----------------------------------------------------------------------------
(* The rounds stop when nothing more can be said, and not before: with all *)
(* the types known at the end, no call that was left out means exactly one *)
(* function; and every linked call meant its function with the types known *)
(* at some time, so its name is that function's.                           *)
LinkIsComplete ==
  linking \in {"edges", "done"} =>
    \A c \in DOMAIN code.calls :
      IF c \in DOMAIN targets
      THEN Simple(CallAt(c).target) = Simple(Function(targets[c]).qualified)
      ELSE ~IsOne(CallAt(c), localTypes)
=============================================================================
