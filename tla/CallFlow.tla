------------------------------ MODULE CallFlow ------------------------------
(***************************************************************************)
(* The interprocedural control-flow graph (analysis/icfg.py): its arcs, of *)
(* which those into and out of a function are taken by matching frames,    *)
(* and the bounded breadth-first search for a path between two operations. *)
(***************************************************************************)
EXTENDS Lists, SequencesExt

CONSTANTS Programs,    \* each [ops, flow, first, calls]
          Queries,     \* of each program: pairs of operations to find a path between
          MaxCallDepth, MaxSteps

VARIABLES icfg, asked, searchQueue, seen, steps, answer

searchVars == <<icfg, asked, searchQueue, seen, steps, answer>>

NoProgram == [ops |-> <<>>, flow |-> {}, first |-> <<>>, calls |-> {}]

(* Arcs lead from operations to operations, and calls to functions, as the *)
(* constructor keeps no others.                                            *)
ASSUME CallFlowAssumption ==
  /\ MaxCallDepth \in Nat /\ MaxSteps \in Nat
  /\ \A program \in Programs :
       LET all == DOMAIN program.ops
           functions == {o \in all : program.ops[o].kind = "function"} IN
       /\ program.ops \in Seq([kind : STRING, scope : Nat, host : Nat])
       /\ program.flow \subseteq all \X all
       /\ program.calls \subseteq all \X functions
       /\ \A f \in functions : program.first[f] \in all
       /\ Queries[program] \subseteq all \X all

SearchInit ==
  icfg = NoProgram /\ asked = <<0, 0>> /\ searchQueue = <<>> /\ seen = {} /\ steps = 0
  /\ answer = "none yet"

Operations   == DOMAIN icfg.ops
KindOf(o)    == icfg.ops[o].kind
ScopeOf(o)   == icfg.ops[o].scope
Callees(c)   == {p[2] : p \in {q \in icfg.calls : q[1] = c}}
IsResolved(c) == Callees(c) # {}
HostOf(c)    == IF icfg.ops[c].host = 0 THEN c ELSE icfg.ops[c].host

(* Where a call goes on: what follows the operation that contains it.      *)
Continuations(c) == {p[2] : p \in {q \in icfg.flow : q[1] = HostOf(c)}}

ResolvedHosts == {icfg.ops[c].host : c \in {o \in Operations : IsResolved(o)}} \ {0}

-----------------------------------------------------------------------------
(* _build: the arcs.                                                       *)
Step(from, to, kind, call) == [from |-> from, to |-> to, kind |-> kind, call |-> call]

(* A resolved embedded call owns what follows its host.                    *)
FlowSteps == {Step(p[1], p[2], "flow", 0) : p \in {q \in icfg.flow : q[1] \notin ResolvedHosts}}
EmbeddedSteps ==
  {Step(icfg.ops[c].host, c, "embedded", c) :
     c \in {o \in Operations : KindOf(o) = "call" /\ icfg.ops[o].host \in Operations}}
EnterSteps == {Step(p[1], p[2], "enter", p[1]) : p \in icfg.calls}
EntrySteps == {Step(f, icfg.first[f], "entry", 0) : f \in {o \in Operations : KindOf(o) = "function"}}
ReturnSteps ==
  UNION {{Step(x[1], n, "return", x[2]) : n \in Continuations(x[2])} :
           x \in {y \in Operations \X Operations :
                    KindOf(y[1]) = "return" /\ ScopeOf(y[1]) \in Callees(y[2])}}

StepsFrom(o) ==
  {s \in FlowSteps \cup EmbeddedSteps \cup EnterSteps \cup EntrySteps \cup ReturnSteps : s.from = o}

-----------------------------------------------------------------------------
(* path().                                                                 *)
Frame(s) == [call |-> s.call, callee |-> s.to]

(* Mutant: a function returns to any of its callers.                       *)
MayReturnAnywhere(s, stack) == stack # <<>> /\ Last(stack).callee = ScopeOf(s.from)

MayReturn(s, stack) ==
  /\ stack # <<>> /\ s.call = Last(stack).call
  /\ Last(stack).callee = ScopeOf(s.from) /\ s.to \in Continuations(Last(stack).call)

MayTake(s, stack) ==
  CASE s.kind = "enter"  -> Len(stack) < MaxCallDepth
    [] s.kind = "return" -> MayReturn(s, stack)
    [] OTHER -> TRUE

Stack(s, stack) == CASE s.kind = "enter"  -> Append(stack, Frame(s))
                     [] s.kind = "return" -> Front(stack)
                     [] OTHER -> stack

(* Arcs are taken in the order of their targets, their kinds' names and    *)
(* their calls.                                                            *)
KindRank == [enter |-> 1, return |-> 2, flow |-> 3, embedded |-> 4, entry |-> 5]

Ahead(a, b) ==
  \/ a.to < b.to
  \/ a.to = b.to /\ KindRank[a.kind] < KindRank[b.kind]
  \/ a.to = b.to /\ KindRank[a.kind] = KindRank[b.kind] /\ a.call < b.call

Ordered(set) == Sorted(set, {x \in set \X set : Ahead(x[1], x[2])})

AskPath ==
  /\ answer = "none yet" /\ icfg = NoProgram
  /\ icfg' \in Programs /\ asked' \in Queries[icfg']
  /\ IF asked'[1] = asked'[2] THEN answer' = "path" /\ UNCHANGED searchQueue
     ELSE searchQueue' = <<[at |-> asked'[1], stack |-> <<>>]>> /\ UNCHANGED answer
  /\ UNCHANGED <<seen, steps>>

Expand ==
  LET state == Head(searchQueue)
      taken == Ordered({s \in StepsFrom(state.at) : MayTake(s, state.stack)})
      next  == [i \in DOMAIN taken |-> [at |-> taken[i].to, stack |-> Stack(taken[i], state.stack)]]
      found == \E i \in DOMAIN taken : taken[i].to = asked[2] IN
  /\ answer = "none yet" /\ searchQueue # <<>> /\ steps < MaxSteps
  /\ IF state \in seen
     THEN searchQueue' = Tail(searchQueue) /\ UNCHANGED <<seen, steps, answer>>
     ELSE /\ seen' = seen \cup {state} /\ steps' = steps + Len(taken)
          /\ searchQueue' = IF found THEN <<>> ELSE Tail(searchQueue) \o next
          /\ answer' = IF found THEN "path" ELSE answer
  /\ UNCHANGED <<icfg, asked>>

NoPathFound ==
  /\ answer = "none yet" /\ icfg # NoProgram /\ (searchQueue = <<>> \/ steps >= MaxSteps)
  /\ answer' = IF searchQueue = <<>> THEN "no path" ELSE "gave up"
  /\ UNCHANGED <<icfg, asked, searchQueue, seen, steps>>

SearchNext == AskPath \/ Expand \/ NoPathFound

SearchSpec == SearchInit /\ [][SearchNext]_searchVars

-----------------------------------------------------------------------------
(* Runs of the program, without frames: within[d] has the pairs of one     *)
(* function of which the second is reached from the first when calls nest  *)
(* at most d deep, a call standing for any run of its callee from its      *)
(* first operation to a return.                                            *)
Closure(pairs) ==
  LET reach[n \in 0 .. Cardinality(Operations)] ==
        IF n = 0 THEN {<<o, o>> : o \in Operations}
        ELSE LET before == reach[n - 1] IN
             before \cup {<<x[1][1], x[2][2]>> : x \in {y \in before \X pairs : y[1][2] = y[2][1]}}
  IN  reach[Cardinality(Operations)]

Direct == {<<s.from, s.to>> : s \in FlowSteps \cup EmbeddedSteps \cup EntrySteps}
Across(inner) ==
  UNION {{c} \X Continuations(c) :
    c \in {k \in Operations : \E f \in Callees(k), r \in Operations :
             KindOf(r) = "return" /\ ScopeOf(r) = f /\ <<f, r>> \in inner}}

Within ==
  LET within[d \in 0 .. MaxCallDepth] ==
        IF d = 0 THEN Closure(Direct)
        ELSE LET inner == within[d - 1] IN Closure(Direct \cup Across(inner))
  IN  within

(* The functions called where the sources lead within their function.      *)
Entered(sources, inner) ==
  UNION {Callees(c) : c \in {o \in Operations : \E s \in sources : <<s, o>> \in inner}}

RunsTo(source, target) ==
  LET within == [d \in 0 .. MaxCallDepth |-> Within[d]]
      reached[d \in 0 .. MaxCallDepth] ==
        IF d = 0 THEN {source}
        ELSE LET before == reached[d - 1] IN Entered(before, within[MaxCallDepth - (d - 1)])
  IN  \E d \in 0 .. MaxCallDepth : \E s \in reached[d] : <<s, target>> \in within[MaxCallDepth - d]

(* The search says there is a path exactly when the program has a run from *)
(* one operation to the other whose calls nest at most that deep, each     *)
(* return going back to its own call; unless it ran out of steps.          *)
PathsAreMatched ==
  /\ answer = "path"    => RunsTo(asked[1], asked[2])
  /\ answer = "no path" => ~RunsTo(asked[1], asked[2])
=============================================================================
