------------------------------ MODULE Lowering ------------------------------
(***************************************************************************)
(* Lowering a function body to a control-flow graph, as the Python and the *)
(* Go frontend do it (frontends/python.py, frontends/go.py).  The          *)
(* recursive descent over the syntax tree is a stack of open constructs,   *)
(* and the tree is met token by token: an action lowers one statement, or  *)
(* opens, divides or closes a compound one.  What a statement says is      *)
(* reduced to the role its operation has for the analyses.                 *)
(***************************************************************************)
EXTENDS ControlFlow, Sequences, SequencesExt

CONSTANTS Languages,        \* subset of {"python", "go"}
          MaxOps,           \* operations of a function, its own included
          EmbeddedRoles,    \* roles of calls inside other statements
          RequiredRoles     \* every function has them: others are left out

ASSUME LoweringAssumption ==
  /\ Languages \subseteq {"python", "go"}
  /\ MaxOps \in Nat \ {0} /\ 1 .. MaxOps \subseteq Ids

VARIABLES
  language,
  operation,                \* the operations: kind, role, and the host of an
                            \* embedded call
  code,                     \* the tokens lowered so far
  stack                     \* the open constructs, innermost last

loweringVars == <<language, operation, code, stack>>
vars == <<flowVars, loweringVars>>

(* A fragment of the graph: where it is entered, its pending edges, and    *)
(* the jumps and ends of path in it (_FlowFragment).                       *)
None     == 0
Empty    == [entry |-> None, fall |-> {}, breaks |-> {}, continues |-> {}, terminals |-> {}]
From(op, kind)     == [op |-> op, kind |-> kind]
Simple(op)         == [Empty EXCEPT !.entry = op, !.fall = {From(op, "next")}]
Edges(fall, entry) == {[from |-> p.op, to |-> entry, kind |-> p.kind] : p \in fall}
All(fragments, field) == UNION {f[field] : f \in fragments}

(* _lower_sequence: a fragment is joined to what precedes it; after the    *)
(* end of every path it is left out.                                       *)
JoinedDead(sequence, f) ==
  CASE f.entry = None        -> sequence
    [] sequence.entry = None -> f
    [] OTHER -> [entry     |-> sequence.entry,
                 fall      |-> f.fall,
                 breaks    |-> sequence.breaks \cup f.breaks,
                 continues |-> sequence.continues \cup f.continues,
                 terminals |-> sequence.terminals \cup f.terminals]

Joined(sequence, f) ==
  IF sequence.entry # None /\ sequence.fall = {} THEN sequence ELSE JoinedDead(sequence, f)

JoinEdges(sequence, f) ==
  IF sequence.entry = None \/ f.entry = None THEN {} ELSE Edges(sequence.fall, f.entry)

(* The operations 1 (the function itself) and up, in the order made.       *)
LoweringInit ==
  /\ language \in Languages
  /\ nodes = {1} /\ operation = [n \in {1} |-> [kind |-> "function", role |-> "", host |-> 0]]
  /\ arcs = {}
  /\ code = <<>>
  /\ stack = <<[part |-> "function", op |-> 1, sequence |-> Empty, parts |-> {}]>>
  /\ phase = "graph"
  /\ dominators = [n \in {} |-> {}] /\ remaining = {} /\ changed = FALSE

New     == Cardinality(nodes) + 1
Top     == stack[Len(stack)]
Below   == Front(stack)
RolesOf(operations) == {operations[n].role : n \in DOMAIN operations}
IsFree(r) == r = "" \/ r \notin RolesOf(operation)
Op(kind, r, host) == [kind |-> kind, role |-> r, host |-> host]

Lowering(made) ==
  /\ nodes' = nodes \cup {New + i - 1 : i \in DOMAIN made}
  /\ operation' = [n \in nodes' |-> IF n < New THEN operation[n] ELSE made[n - New + 1]]
  /\ Cardinality(nodes') + Cardinality(RequiredRoles \ RolesOf(operation')) <= MaxOps
  /\ UNCHANGED <<language, phase, dominators, remaining, changed>>

Token(t, op) == code' = Append(code, [t |-> t, depth |-> Len(stack), op |-> op])

(* A finished statement goes to the sequence around it.                    *)
Adds(below, f, edges) ==
  LET i == Len(below) IN
  /\ arcs' = arcs \cup edges \cup JoinEdges(below[i].sequence, f)
  /\ stack' = [below EXCEPT ![i].sequence = Joined(@, f)]

Opens(part, op) ==
  /\ stack' = Append(stack, [part |-> part, op |-> op, sequence |-> Empty, parts |-> {}])
  /\ UNCHANGED arcs

-----------------------------------------------------------------------------
(* Simple statements.                                                      *)
LowerCall(r) ==
  /\ IsFree(r)
  /\ Lowering(<<Op("call", r, 0)>>)
  /\ Token("op", New)
  /\ Adds(stack, Simple(New), {})

(* An assignment of a call's result: the call is made an operation of its  *)
(* own when the whole function is lowered, with an edge to its host.       *)
LowerAssignment(r) ==
  /\ IsFree(r)
  /\ Lowering(<<Op("assign", "", 0), Op("call", r, New)>>)
  /\ Token("op", New)
  /\ Adds(stack, Simple(New), {[from |-> New + 1, to |-> New, kind |-> "next"]})

LowerReturn(r) ==
  /\ IsFree(r)
  /\ Lowering(<<Op("return", r, 0)>>)
  /\ Token("return", New)
  /\ Adds(stack, [Empty EXCEPT !.entry = New, !.terminals = {New}], {})

(* A call inside the returned expression is an operation of its own, too.  *)
LowerReturnOf(r) ==
  /\ IsFree(r)
  /\ Lowering(<<Op("return", "", 0), Op("call", r, New)>>)
  /\ Token("return", New)
  /\ Adds(stack, [Empty EXCEPT !.entry = New, !.terminals = {New}],
          {[from |-> New + 1, to |-> New, kind |-> "next"]})

LowerRaise ==
  /\ language = "python"
  /\ Lowering(<<Op("raise", "", 0)>>)
  /\ Token("raise", New)
  /\ Adds(stack, [Empty EXCEPT !.entry = New, !.terminals = {New}], {})

Within(parts) == \E i \in DOMAIN stack : stack[i].part \in parts

LowerBreak ==
  /\ Within({"loop", "case", "default"})
  /\ Lowering(<<Op("break", "", 0)>>)
  /\ Token("break", New)
  /\ Adds(stack, [Empty EXCEPT !.entry = New, !.breaks = {New}, !.terminals = {New}], {})

LowerContinue ==
  /\ Within({"loop"})
  /\ Lowering(<<Op("continue", "", 0)>>)
  /\ Token("continue", New)
  /\ Adds(stack, [Empty EXCEPT !.entry = New, !.continues = {New}, !.terminals = {New}], {})

LowerDefer ==
  /\ language = "go"
  /\ Lowering(<<Op("defer", "guard", 0)>>)
  /\ Token("op", New)
  /\ Adds(stack, Simple(New), {})

-----------------------------------------------------------------------------
(* if: the body, then the else clause, are lowered as sequences.           *)
OpenBranch(r) ==
  /\ IsFree(r)
  /\ Lowering(<<Op("branch", r, 0)>>)
  /\ Token("if", New)
  /\ Opens("then", New)

(* A part entered from the operation it belongs to, or not there at all:   *)
(* then the operation itself falls through.                                *)
Entered(part, op, kind) ==
  IF part.entry = None THEN [part EXCEPT !.fall = @ \cup {From(op, kind)}] ELSE part
EntryEdges(part, op, kind) ==
  IF part.entry = None THEN {} ELSE {[from |-> op, to |-> part.entry, kind |-> kind]}

(* The part on top is done, and the next part of its construct begins.     *)
Divides(part, done, edges) ==
  /\ arcs' = arcs \cup edges
  /\ stack' = [stack EXCEPT ![Len(stack)].part = part, ![Len(stack)].sequence = Empty,
                            ![Len(stack)].parts = @ \cup {done}]

Else ==
  /\ Top.part = "then"
  /\ Lowering(<<>>)
  /\ Token("else", None)
  /\ Divides("else", Entered(Top.sequence, Top.op, "true_branch"),
             EntryEdges(Top.sequence, Top.op, "true_branch"))

CloseBranch ==
  /\ Top.part \in {"then", "else"}
  /\ Lowering(<<>>)
  /\ Token("end", None)
  /\ LET kind  == IF Top.part = "then" THEN "true_branch" ELSE "false_branch"
         last  == Entered(Top.sequence, Top.op, kind)
         parts == Top.parts \cup {last}
                  \cup IF Top.part = "then"
                         THEN {Entered(Empty, Top.op, "false_branch")} ELSE {}
     IN Adds(Below, [entry     |-> Top.op,
                     fall      |-> All(parts, "fall"),
                     breaks    |-> All(parts, "breaks"),
                     continues |-> All(parts, "continues"),
                     terminals |-> All(parts, "terminals")],
             EntryEdges(Top.sequence, Top.op, kind))

-----------------------------------------------------------------------------
(* Loops; "forever" is `while True` or a Go loop without a condition.      *)
OpenLoop(t) ==
  /\ Lowering(<<Op(t, "", 0)>>)
  /\ Token(t, New)
  /\ Opens("loop", New)

BackEdgesOfFall(op, body) ==
  {[from |-> n, to |-> op, kind |-> "loop_back"] :
     n \in IF body.entry = None THEN {op} ELSE {p.op : p \in body.fall}}

BackEdges(op, body) ==
  {[from |-> n, to |-> op, kind |-> "loop_back"] :
     n \in body.continues \cup (IF body.entry = None THEN {op} ELSE {p.op : p \in body.fall})}

CloseLoop ==
  /\ Top.part = "loop"
  /\ Lowering(<<>>)
  /\ Token("endloop", None)
  /\ LET body  == Top.sequence
         exits == {From(n, "loop_exit") : n \in body.breaks}
                  \cup IF operation[Top.op].kind = "loop"
                         THEN {From(Top.op, "false_branch")} ELSE {}
     IN Adds(Below, [Empty EXCEPT !.entry = Top.op, !.fall = exits, !.terminals = body.terminals],
             EntryEdges(body, Top.op, "body") \cup BackEdges(Top.op, body))

-----------------------------------------------------------------------------
(* with: binding, acquisition, registration of the cleanup, then the body. *)
(* The fragment is entered at the registration.                            *)
OpenWith ==
  /\ language = "python" /\ IsFree("event")
  /\ Lowering(<<Op("assign", "", 0), Op("call", "event", New), Op("defer", "guard", 0)>>)
  /\ Token("with", New + 2)
  /\ stack' = Append(stack, [part |-> "with", op |-> New + 2, sequence |-> Simple(New + 2),
                             parts |-> {}])
  /\ arcs' = arcs \cup {[from |-> New, to |-> New + 1, kind |-> "next"],
                        [from |-> New + 1, to |-> New + 2, kind |-> "next"]}

CloseWith ==
  /\ Top.part = "with"
  /\ Lowering(<<>>)
  /\ Token("end", None)
  /\ Adds(Below, Top.sequence, {})

-----------------------------------------------------------------------------
(* try: a branch to the body or to the handler.                            *)
OpenTry ==
  /\ language = "python"
  /\ Lowering(<<Op("try", "", 0)>>)
  /\ Token("try", New)
  /\ Opens("body", New)

OutcomeOf(part) == IF part = "handler" THEN "false_branch" ELSE "true_branch"

Handler ==
  /\ Top.part = "body"
  /\ Lowering(<<>>)
  /\ Token("handler", None)
  /\ Divides("handler", Entered(Top.sequence, Top.op, "true_branch"),
             EntryEdges(Top.sequence, Top.op, "true_branch"))

(* The finally clause takes over every path of the parts before it.        *)
Finally ==
  /\ Top.part \in {"body", "handler"}
  /\ Lowering(<<>>)
  /\ Token("finally", None)
  /\ LET part == Entered(Top.sequence, Top.op, OutcomeOf(Top.part)) IN
        Divides("finally", part, EntryEdges(Top.sequence, Top.op, OutcomeOf(Top.part)))

TryFragment(op, parts, fall, terminals) ==
  [entry |-> op, fall |-> fall, terminals |-> terminals,
   breaks |-> All(parts, "breaks"), continues |-> All(parts, "continues")]

CloseTry ==
  /\ Top.part = "handler"
  /\ Lowering(<<>>)
  /\ Token("end", None)
  /\ LET parts == Top.parts \cup {Entered(Top.sequence, Top.op, "false_branch")}
     IN Adds(Below, TryFragment(Top.op, parts, All(parts, "fall"), All(parts, "terminals")),
             EntryEdges(Top.sequence, Top.op, "false_branch"))

CloseFinally ==
  /\ Top.part = "finally"
  /\ Lowering(<<>>)
  /\ Token("end", None)
  /\ LET final == Top.sequence
         fall  == All(Top.parts, "fall")
         ends  == All(Top.parts, "terminals")
     IN IF final.entry = None
          THEN Adds(Below, TryFragment(Top.op, Top.parts, fall, ends), {})
          ELSE Adds(Below, TryFragment(Top.op, Top.parts, final.fall, final.terminals),
                    Edges(fall \cup {From(n, "next") : n \in ends}, final.entry))

-----------------------------------------------------------------------------
(* switch: a branch to each case; a break leaves the switch.  As a bound,  *)
(* only the last case may be empty.                                        *)
OpenSwitch ==
  /\ language = "go"
  /\ Lowering(<<Op("branch", "", 0)>>)
  /\ Token("switch", New)
  /\ Opens("case", New)

CaseOutcome(part) == IF part = "default" THEN "false_branch" ELSE "true_branch"

CaseDone(case) ==
  LET entered == Entered(case.sequence, case.op, CaseOutcome(case.part))
  IN [entered EXCEPT !.fall = @ \cup {From(n, "next") : n \in entered.breaks}, !.breaks = {}]

NextCase(t) ==
  /\ Top.part = "case" /\ Top.sequence.entry # None
  /\ Lowering(<<>>)
  /\ Token(t, None)
  /\ Divides(t, CaseDone(Top), EntryEdges(Top.sequence, Top.op, CaseOutcome(Top.part)))

CloseSwitch ==
  /\ Top.part \in {"case", "default"}
  /\ Lowering(<<>>)
  /\ Token("end", None)
  /\ LET parts == Top.parts \cup {CaseDone(Top)}
         fall  == All(parts, "fall")
                  \cup IF Top.part = "case" THEN {From(Top.op, "false_branch")} ELSE {}
     IN Adds(Below, [Empty EXCEPT !.entry = Top.op, !.fall = fall,
                                  !.continues = All(parts, "continues")],
             EntryEdges(Top.sequence, Top.op, CaseOutcome(Top.part)))

-----------------------------------------------------------------------------
(* The function is lowered, and the analyses ask for its dominators.  As a *)
(* bound, a Go function has a defer or a switch: the others are lowered as *)
(* those of Python.                                                        *)
FinishFunction ==
  /\ Len(stack) = 1 /\ RequiredRoles \subseteq RolesOf(operation)
  /\ language = "go" => \/ \E n \in nodes : operation[n].kind = "defer"
                        \/ \E i \in DOMAIN code : code[i].t = "switch"
  /\ BeginDominators
  /\ stack' = <<>>
  /\ UNCHANGED <<language, operation, code>>

Statement ==
  \/ \E r \in {"event", "action", "guard"} : LowerCall(r)
  \/ \E r \in EmbeddedRoles : LowerAssignment(r)
  \/ \E r \in {"", "transfer"} : LowerReturn(r)
  \/ \E r \in EmbeddedRoles \ {"event"} : LowerReturnOf(r)
  \/ LowerRaise \/ LowerBreak \/ LowerContinue \/ LowerDefer

Compound ==
  \/ \E r \in {"", "guard"} : OpenBranch(r)
  \/ Else \/ CloseBranch
  \/ \E t \in {"loop", "forever"} : OpenLoop(t)
  \/ CloseLoop
  \/ OpenWith \/ CloseWith
  \/ OpenTry \/ Handler \/ Finally \/ CloseTry \/ CloseFinally
  \/ OpenSwitch \/ (\E t \in {"case", "default"} : NextCase(t)) \/ CloseSwitch

LowerFunction == phase = "graph" /\ (Statement \/ Compound \/ FinishFunction)

=============================================================================
