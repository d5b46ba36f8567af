------------------------------ MODULE FlowRules -----------------------------
(***************************************************************************)
(* Two analyses that reason on the control-flow graph: a state-machine     *)
(* rule that requires a guard between an event and an action               *)
(* (analysis/state_machine.py), and the resource lifecycle, which requires *)
(* a registered cleanup between an acquisition and a use                   *)
(* (analysis/resource_lifecycle.py).  Once a function is lowered it is     *)
(* also executed, by the meaning of its statements and without the graph,  *)
(* so that what the analyses say can be compared with what happens.        *)
(***************************************************************************)
EXTENDS Lowering, TLC

VARIABLES
  at,                       \* the token executed last, or Left
  jumps,                    \* jumps that wait for a finally clause to end
  came,                     \* the operation executed before
  pending,                  \* the event happened
  passed,                   \* guards executed since
  outcome,                  \* last outcome of the branch guard since then,
                            \* or since the execution last went back
  strayed                   \* "now": the last step was one that the frontend
                            \* knows nothing of; "since": one was, since the event

runVars == <<at, jumps, came, pending, passed, outcome, strayed>>
allVars == <<vars, runVars>>

OpsOfRole(r) == {n \in nodes : operation[n].role = r}

-----------------------------------------------------------------------------
(* The guard rule, for one event and one action of the same function.      *)
GuardProves(event, guard, action) ==
  IF operation[guard].kind = "branch"
    THEN BranchControls(guard, action)
    ELSE DominatesBetween(event, guard, action)

Guards(event, action) ==
  {g \in OpsOfRole("guard") \ {event, action} :
     /\ Reachable(event, g) /\ Reachable(g, action)
     /\ DominatesBetween(event, g, action)
     /\ GuardProves(event, g, action)}

Reported(event, action) == Reachable(event, action) /\ Guards(event, action) = {}

-----------------------------------------------------------------------------
(* The lifecycle of what an assigned call returns.                         *)
Acquisitions ==
  {n \in OpsOfRole("event") :
     operation[n].host # 0 /\ operation[operation[n].host].kind = "assign"}

Cleanups(acquire) == {n \in nodes : operation[n].kind = "defer" /\ Reachable(acquire, n)}

Transfers(acquire) == {n \in OpsOfRole("transfer") : Reachable(acquire, n)}

Uses(acquire) == {n \in OpsOfRole("action") : operation[n].host = 0 /\ Reachable(acquire, n)}

Protected(acquire, use) ==
  \E c \in Cleanups(acquire) : Reachable(c, use) /\ DominatesBetween(acquire, c, use)

Abstains(acquire) == Transfers(acquire) # {} \/ Uses(acquire) = {}

LifecycleFinding(acquire) ==
  ~Abstains(acquire) /\ \E use \in Uses(acquire) : ~Protected(acquire, use)

-----------------------------------------------------------------------------
(* What the statements mean.  A construct's own tokens are one deeper than *)
(* the one that opens it.                                                  *)
Ends    == {"end", "endloop"}

Own(p, names) ==
  {q \in p + 1 .. Len(code) : /\ code[q].depth = code[p].depth + 1 /\ code[q].t \in names
                              /\ \A x \in p + 1 .. q - 1 : code[x].depth > code[p].depth}
End(p)    == CHOOSE q \in Own(p, Ends) : \A x \in Own(p, Ends) : q <= x
Parts(p, names) == {q \in Own(p, names) : q < End(p)}
Opener(p) == CHOOSE q \in 1 .. p - 1 :
               /\ code[q].depth = code[p].depth - 1
               /\ \A x \in q + 1 .. p : code[x].depth > code[q].depth

Left == Len(code) + 1

Landing(q, waiting) ==
  [at |-> q, jumps |-> SelectSeq(waiting, LAMBDA j : j.of < q /\ q <= End(j.of)), strays |-> FALSE]

(* The execution goes where no statement says so.                          *)
Stray(s) == [s EXCEPT !.strays = TRUE]

(* Where a return, break, continue or exception at p goes: a handler takes *)
(* what is raised in the body of its try, and a finally clause on the way  *)
(* is executed first.                                                      *)
Leap(p, kind, waiting) ==
  LET to[x \in 1 .. p] ==
        IF code[x].depth = 1 THEN Landing(Left, waiting)
        ELSE LET o == Opener(x) IN
             CASE kind \in {"break", "continue"} /\ code[o].t \in {"loop", "forever"} ->
                    Landing(IF kind = "break" THEN End(o) + 1 ELSE o, waiting)
               [] kind = "break" /\ code[o].t = "switch" -> Landing(End(o) + 1, waiting)
               [] kind = "raise" /\ code[o].t = "try" /\ \E h \in Parts(o, {"handler"}) : x < h ->
                    Landing(Min(Parts(o, {"handler"})) + 1, waiting)
               [] code[o].t = "try" /\ (\E f \in Parts(o, {"finally"}) : x < f)
                  /\ ~(kind = "raise" /\ \E h \in Parts(o, {"handler"}) : x < h) ->
                    LET f == CHOOSE f \in Parts(o, {"finally"}) : TRUE
                        l == Landing(f + 1, waiting)
                    IN [l EXCEPT !.jumps = Append(@, [kind |-> kind, of |-> o])]
               [] code[o].t = "try" /\ kind \in {"break", "continue"}
                  /\ (\E f \in Parts(o, {"finally"}) : f < x) -> Stray(to[o])
               [] OTHER -> to[o]
  IN to[p]

(* The state after a token, for each of its outcomes.                      *)
After(p, waiting) ==
  LET go(q)   == [at |-> q, jumps |-> waiting, strays |-> FALSE]
      part(q) == {go(x + 1) : x \in Parts(p, q)}
      otherwise == IF Parts(p, {"else"}) = {} THEN {go(End(p) + 1)} ELSE part({"else"})
  IN CASE code[p].t = "if"      -> [o \in {"true", "false"} |->
                                      IF o = "true" THEN {go(p + 1)} ELSE otherwise]
       [] code[p].t = "loop"    -> "any" :> {go(p + 1), go(End(p) + 1)}
       [] code[p].t = "try"     -> "any" :> ({go(p + 1)} \cup part({"handler"}))
       [] code[p].t = "switch"  -> "any" :> ({go(p + 1)} \cup part({"case", "default"})
                                   \cup IF Parts(p, {"default"}) = {} THEN {go(End(p) + 1)} ELSE {})
       [] code[p].t \in {"return", "break", "continue"} -> "any" :> {Leap(p, code[p].t, waiting)}
       [] code[p].t = "raise"   -> "any" :> {}
       [] OTHER                 -> "any" :> {go(p + 1)}

(* Whatever a Python function does may raise, but for entering a try and   *)
(* jumping.                                                                *)
Raised(p, waiting) ==
  IF language = "python" /\ code[p].t \notin {"try", "break", "continue"}
    THEN {Stray(Leap(p, "raise", waiting))} ELSE {}

(* Tokens without an operation.                                            *)
Silent(s) == s.at # Left /\ code[s.at].op = None

Through(s) ==
  LET o    == Opener(s.at)
      last == s.jumps[Len(s.jumps)]
      after == Parts(o, {"finally"}) \cup {End(o)}
  IN CASE code[s.at].t = "endloop" -> [s EXCEPT !.at = o]
       [] code[s.at].t \in {"else", "case", "default"} -> [s EXCEPT !.at = End(o) + 1]
       [] code[s.at].t = "handler" -> [s EXCEPT !.at = Min(after) + 1]
       [] code[s.at].t = "end" /\ s.jumps # <<>> /\ last.of = o ->
            Stray(Leap(o, last.kind, Front(s.jumps)))
       [] OTHER -> [s EXCEPT !.at = @ + 1]

Settled(s) ==
  FoldLeft(LAMBDA x, i : IF Silent(x) THEN Through(x) ELSE x, s, [i \in 1 .. 2 * Len(code) |-> i])

-----------------------------------------------------------------------------
(* Executing the function.                                                 *)
OpsAt(p) ==
  IF code[p].t = "with" THEN {code[p].op - 1, code[p].op}
  ELSE {code[p].op} \cup {n \in nodes : operation[n].host = code[p].op}

HasRole(p, r) == \E n \in OpsAt(p) : operation[n].role = r

Executes(s, o) ==
  /\ at' = s.at /\ jumps' = s.jumps
  /\ IF s.at = Left THEN UNCHANGED <<pending, passed>>
     ELSE LET guards == OpsAt(s.at) \cap OpsOfRole("guard") IN
          /\ pending' = (pending \/ HasRole(s.at, "event"))
          /\ passed' = CASE HasRole(s.at, "event") -> guards
                         [] pending -> passed \cup guards
                         [] OTHER -> {}
  /\ outcome' = CASE s.at <= at \/ (s.at # Left /\ HasRole(s.at, "event")) -> "none"
                  [] pending /\ o # "any" /\ HasRole(at, "guard") -> o
                  [] OTHER -> outcome
  /\ strayed' = (IF s.strays THEN {"now"} ELSE {})
       \cup (IF s.at # Left /\ HasRole(s.at, "event") THEN {}
            ELSE IF s.strays THEN {"since"} ELSE strayed \ {"now"})

Begin ==
  /\ phase = "done" /\ code # <<>> /\ phase' = "running"
  /\ came' = 0
  /\ LET s == Settled([at |-> 1, jumps |-> <<>>, strays |-> FALSE]) IN
     /\ at' = s.at /\ jumps' = s.jumps
     /\ pending' = (s.at # Left /\ HasRole(s.at, "event"))
     /\ passed' = IF pending' THEN OpsAt(s.at) \cap OpsOfRole("guard") ELSE {}
  /\ UNCHANGED <<outcome, strayed, nodes, arcs, dominators, remaining, changed, loweringVars>>

Execute ==
  /\ phase = "running" /\ at \in 1 .. Len(code)
  /\ came' = code[at].op
  /\ \/ \E o \in DOMAIN After(at, jumps) : \E s \in After(at, jumps)[o] : Executes(Settled(s), o)
     \/ \E s \in Raised(at, jumps) : Executes(Settled(s), "any")
  /\ UNCHANGED vars

Init ==
  /\ LoweringInit
  /\ at = 0 /\ jumps = <<>> /\ came = 0
  /\ pending = FALSE /\ passed = {} /\ outcome = "none" /\ strayed = {}

Next ==
  \/ LowerFunction /\ UNCHANGED runVars
  \/ (Visit \/ NextPass) /\ UNCHANGED <<loweringVars, runVars>>
  \/ Begin \/ Execute

Spec == Init /\ [][Next]_allVars

(* _dominators() runs to its end in the thread that asks.                  *)
FairSpec == Spec /\ WF_allVars((Visit \/ NextPass) /\ UNCHANGED <<loweringVars, runVars>>)

-----------------------------------------------------------------------------
(* Operations, fragments and dominator sets have their shapes, and a pass  *)
(* never visits an entry (control_flow.py:243).                            *)
TypeOK ==
  /\ GraphTypeOK
  /\ language \in Languages
  /\ operation \in [nodes -> [kind : {"function", "call", "assign", "return", "break", "continue",
                                      "defer", "branch", "loop", "forever", "try", "raise"},
                              role : {"", "event", "action", "guard", "transfer"},
                              host : nodes \cup {0}]]
  /\ \A i \in DOMAIN code : code[i].op \in nodes \cup {0} /\ code[i].depth \in 1 .. i
  /\ \A i \in DOMAIN stack :
       /\ stack[i].op \in nodes
       /\ \A f \in stack[i].parts \cup {stack[i].sequence} :
            /\ f.entry \in nodes \cup {0}
            /\ f.breaks \cup f.continues \cup f.terminals \cup {p.op : p \in f.fall} \subseteq nodes
  /\ at \in 0 .. Left /\ came \in nodes \cup {0}
  /\ pending \in BOOLEAN /\ passed \subseteq nodes
  /\ outcome \in {"none", "true", "false"} /\ strayed \subseteq {"now", "since"}

Running == at \in 1 .. Len(code)

(* What the statements say is in the graph: when one is executed after     *)
(* another, _lower_sequence() and its callers made an arc for it, unless   *)
(* the step is one to a handler or a finally clause for an exception, one  *)
(* from the end of a finally clause on to where a jump waited to go, or a  *)
(* break or continue out of the clause itself.                             *)
FlowIsCovered ==
  Running /\ came # 0 /\ "now" \notin strayed =>
    \E a \in arcs : a.from = came /\ a.to = code[at].op

(* The outcome of a branch by which a guarded action is reached.           *)
Outcome(guard, action) ==
  IF \E a \in arcs : a.from = guard /\ a.kind = "true_branch"
                     /\ ReachableWithout(a.to, action, {"loop_back"})
    THEN "true" ELSE "false"

(* No guard is taken for one that is not: when an action that is a         *)
(* statement of its own is executed after the event and _evaluate_scope()  *)
(* has no violation for the two, then each guard it accepted               *)
(* (state_machine.py:366) was executed in between, and the branches last   *)
(* went the way that leads to the action.  Two kinds of action escape the  *)
(* rule: one inside another statement (`x = action()`), which no arc leads *)
(* to, and one reached through an exception, or past a finally clause      *)
(* that a jump waited for, since the event.                                *)
UnreportedIsProven ==
  Running /\ pending /\ "since" \notin strayed =>
    \A e \in OpsOfRole("event"), a \in OpsAt(at) \cap OpsOfRole("action") :
      \/ operation[a].host # 0
      \/ Reported(e, a)
      \/ /\ Guards(e, a) # {} /\ Guards(e, a) \subseteq passed
         /\ \A g \in Guards(e, a) :
              operation[g].kind = "branch" => outcome \in {"none", Outcome(g, a)}

(* No use is silently unprotected: when a resource is used after it was    *)
(* acquired and ResourceLifecycleAnalyzer neither abstains nor has a       *)
(* finding, a cleanup was registered in between, but for the same two      *)
(* kinds of use.                                                           *)
UnreportedUseIsCovered ==
  Running /\ pending /\ "since" \notin strayed =>
    \A n \in Acquisitions, use \in OpsAt(at) \cap OpsOfRole("action") :
      \/ operation[use].host # 0
      \/ Abstains(n) \/ LifecycleFinding(n)
      \/ \E d \in passed : operation[d].kind = "defer"

(* Every execution of the source is a path of the graph the frontends      *)
(* lower it to (python.py, go.py), whatever its loops, early exits and     *)
(* clean-ups, but for the steps an exception makes ("not fully modeled     *)
(* yet", python.py:441), the end of a finally clause that a return, break  *)
(* or continue waits for, which the graph leads on to the next statement,  *)
(* and a break or continue in such a clause, which it leads nowhere.       *)
GraphIsSound == TypeOK /\ FlowIsCovered

(* What the guard rule (state_machine.py) and the lifecycle rule           *)
(* (resource_lifecycle.py) leave unreported is guarded, or cleaned up, in  *)
(* every execution that since the event took no step of an exception and   *)
(* no jump out of a finally clause; an action inside another statement is  *)
(* not seen by either.                                                     *)
UnreportedIsSafe == UnreportedIsProven /\ UnreportedUseIsCovered

(* The passes of _dominators() come to an end on every graph (the          *)
(* `while changed` of control_flow.py:242).                                *)
DominatorsEnd == (phase = "dominators") ~> (phase = "done")

=============================================================================
