----------------------------- MODULE ControlFlow ----------------------------
(***************************************************************************)
(* The control-flow graph of one function (analysis/control_flow.py): the  *)
(* queries the analyses ask of it, and _dominators() as the passes it      *)
(* makes over the operations.  Operations are numbers in the order of      *)
(* their identifiers; only arcs between operations of one scope exist,     *)
(* since the constructor drops the others.                                 *)
(***************************************************************************)
EXTENDS Naturals, FiniteSets

CONSTANT Ids                \* operation identifiers, in their sorting order

ASSUME ControlFlowAssumption == Ids \subseteq Nat

VARIABLES
  nodes, arcs,              \* the operations of the scope, the typed arcs
  phase,                    \* "graph", "dominators", "done"; "running" while
                            \* a user of the graph goes on
  dominators,               \* what _dominators() has for each operation
  remaining,                \* operations this pass has still to visit
  changed

flowVars == <<nodes, arcs, phase, dominators, remaining, changed>>

Kinds == {"next", "true_branch", "false_branch", "body", "loop_back", "loop_exit"}
Arc   == [from : nodes, to : nodes, kind : Kinds]

Predecessors(n) == {a.from : a \in {b \in arcs : b.to = n}}

-----------------------------------------------------------------------------
(* Queries.  Their breadth-first searches visit what is reached.           *)
Pairs(forbidden) == {<<a.from, a.to>> : a \in {b \in arcs : b.kind \notin forbidden}}
AfterAny(sources, pairs) == {p[2] : p \in {q \in pairs : q[1] \in sources}}

ReachedFrom(start, pairs) ==
  LET reached[i \in 0 .. Cardinality(nodes)] ==
        IF i = 0 THEN start ELSE reached[i - 1] \cup AfterAny(reached[i - 1], pairs)
  IN reached[Cardinality(nodes)]

Reachable(source, target) ==
  target \in ReachedFrom(AfterAny({source}, Pairs({})), Pairs({}))

ReachableWithout(source, target, forbidden) ==
  target \in ReachedFrom({source}, Pairs(forbidden))

DominatesBetween(start, dominator, target) ==
  CASE start = dominator  -> TRUE
    [] start # dominator /\ target = dominator -> Reachable(start, target)
    [] OTHER ->
         LET around == {p \in Pairs({}) : p[2] # dominator}
         IN target \notin ReachedFrom(AfterAny({start}, around), around)

BranchReaches(branch, operation) ==
  \E a \in arcs : /\ a.from = branch /\ a.kind \in {"true_branch", "false_branch"}
                  /\ ReachableWithout(a.to, operation, {"loop_back"})

(* Exactly one outcome leads to the operation; an outcome without arcs is  *)
(* not counted at all.                                                     *)
BranchControls(branch, operation) ==
  LET targets(kind) == {a.to : a \in {b \in arcs : b.from = branch /\ b.kind = kind}}
      reaches(kind) == \E t \in targets(kind) : ReachableWithout(t, operation, {"loop_back"})
  IN /\ targets("true_branch") # {} /\ targets("false_branch") # {}
     /\ reaches("true_branch") # reaches("false_branch")

-----------------------------------------------------------------------------
(* Dominators of every operation of the scope.                             *)
First(set) == {n \in set : \A m \in set : n <= m}

Roots   == {n \in nodes : Predecessors(n) = {}}
Entries == IF Roots # {} THEN Roots ELSE First(nodes)

BeginDominators ==
  /\ phase = "graph"
  /\ dominators' = [n \in nodes |-> IF n \in Entries THEN {n} ELSE nodes]
  /\ remaining' = nodes \ Entries
  /\ changed' = FALSE
  /\ phase' = "dominators"
  /\ UNCHANGED <<nodes, arcs>>

UpdatedByAny(n) ==
  {n} \cup {d \in nodes : \E p \in Predecessors(n) : d \in dominators[p]}

Updated(n) ==
  IF Predecessors(n) = {} THEN {n}
  ELSE {n} \cup {d \in nodes : \A p \in Predecessors(n) : d \in dominators[p]}

Visit ==
  /\ phase = "dominators"
  /\ \E n \in First(remaining) :
       /\ dominators' = [dominators EXCEPT ![n] = Updated(n)]
       /\ changed' = (changed \/ Updated(n) # dominators[n])
       /\ remaining' = remaining \ {n}
  /\ UNCHANGED <<nodes, arcs, phase>>

NextPassForever ==
  /\ phase = "dominators" /\ remaining = {}
  /\ remaining' = nodes \ Entries /\ changed' = FALSE
  /\ UNCHANGED <<nodes, arcs, phase, dominators>>

NextPass ==
  /\ phase = "dominators" /\ remaining = {}
  /\ IF changed
       THEN remaining' = nodes \ Entries /\ changed' = FALSE /\ UNCHANGED phase
       ELSE phase' = "done" /\ UNCHANGED <<remaining, changed>>
  /\ UNCHANGED <<nodes, arcs, dominators>>

FindDominators == BeginDominators \/ Visit \/ NextPass

(* Any graph at all, to speak of the algorithm by itself.                  *)
AnyGraph ==
  /\ nodes \in SUBSET Ids
  /\ arcs \in SUBSET Arc
  /\ phase = "graph"
  /\ dominators = [n \in {} |-> {}] /\ remaining = {} /\ changed = FALSE

DominatorsSpec == AnyGraph /\ [][FindDominators]_flowVars

-----------------------------------------------------------------------------
GraphTypeOK ==
  /\ nodes \subseteq Ids
  /\ arcs \subseteq Arc
  /\ phase \in {"graph", "dominators", "done", "running"}
  /\ phase # "graph" => dominators \in [nodes -> SUBSET nodes]
  /\ remaining \subseteq nodes \ Entries
  /\ changed \in BOOLEAN

(* Every path from an entry to n passes d: taking d out separates n from   *)
(* the entries, that is, some set without d and n holds the entries but d  *)
(* and every successor but d of what it holds.                             *)
OnEveryPath(d, n) ==
  \/ d = n
  \/ \E cut \in SUBSET (nodes \ {d, n}) :
       /\ Entries \ {d} \subseteq cut
       /\ \A a \in arcs : a.from \in cut /\ a.to # d => a.to \in cut

(* dominates() says what its docstring says: the dominators of an          *)
(* operation are the operations on every path from an entry to it, and     *)
(* none is lost or left over when the passes stop (control_flow.py:242).   *)
DominatorsAreExact ==
  phase = "done" =>
    \A n \in nodes : dominators[n] = {d \in nodes : OnEveryPath(d, n)}

=============================================================================
