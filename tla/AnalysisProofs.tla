--------------------------- MODULE AnalysisProofs ---------------------------
(***************************************************************************)
(* _dominators() is right on every control-flow graph of any size, whether *)
(* or not all of it can be reached: dominators start as everything and     *)
(* only what a path avoids is taken out, and when a pass changes nothing   *)
(* the sets satisfy their equations, which leaves nothing more to take     *)
(* out.  Then the semantic linker, for any programs: its rounds stop only  *)
(* when no more can be said of any call.  Adjudication: a finding is       *)
(* labelled by what is declared or documented about it, whatever the files *)
(* and the bounds of the scan.  The project reader: the inventory it shows *)
(* a model is whole, and its judges agree.  Then the path search of the    *)
(* call graph: a path is found exactly when a run takes it.  Last, the     *)
(* search for retries without a pause, which misses none.                  *)
(***************************************************************************)
EXTENDS ControlFlow, CallFlow, Linker, RetryLoops, Adjudication, ProjectReader,
        SequenceTheorems, FiniteSetTheorems, TLAPS

(* What the entries reach without d, or more: a separation from d.         *)
Separates(cut, d) ==
  /\ Entries \ {d} \subseteq cut
  /\ \A a \in arcs : a.from \in cut /\ a.to # d => a.to \in cut

Started ==
  phase # "graph" =>
    /\ \A n \in nodes : n \in dominators[n]
    /\ \A n \in Entries : dominators[n] = {n}

(* Nothing that is on every path has been taken out.                       *)
KeepsTheNecessary ==
  phase # "graph" =>
    \A d \in nodes : \A cut \in SUBSET (nodes \ {d}) :
      Separates(cut, d) => \A n \in nodes \ cut : d \in dominators[n]

(* What this pass has visited without a change satisfies its equation.     *)
Settled ==
  /\ phase = "dominators" /\ ~changed =>
       \A n \in (nodes \ Entries) \ remaining : dominators[n] = Updated(n)
  /\ phase = "done" => \A n \in nodes \ Entries : dominators[n] = Updated(n)

DInv == GraphTypeOK /\ Started /\ KeepsTheNecessary /\ Settled

-----------------------------------------------------------------------------
(* An operation that is no entry has a predecessor.                        *)
LEMMA NonEntriesHavePredecessors ==
  ASSUME NEW n \in nodes \ Entries
  PROVE  Predecessors(n) # {}
BY DEF Entries, Roots

(* An entry is an operation.                                               *)
LEMMA EntriesAreNodes == Entries \subseteq nodes
BY DEF Entries, Roots, First

(* The graph stays as it is while the passes are made.                     *)
LEMMA SameGraph ==
  ASSUME UNCHANGED <<nodes, arcs>>
  PROVE  /\ Entries' = Entries
         /\ \A n : Predecessors(n)' = Predecessors(n)
         /\ \A cut, d : Separates(cut, d)' <=> Separates(cut, d)
<1>1. \A n : Predecessors(n)' = Predecessors(n)
  BY DEF Predecessors
<1>2. Roots' = Roots
  BY <1>1 DEF Roots
<1>3. Entries' = Entries
  BY <1>2 DEF Entries, First
<1> QED
  BY <1>1, <1>3 DEF Separates

(* A visit leaves an operation in its own set.                             *)
LEMMA UpdatedHasItself ==
  ASSUME NEW n \in nodes
  PROVE  n \in Updated(n) /\ Updated(n) \subseteq nodes
BY DEF Updated

-----------------------------------------------------------------------------
(* Before the passes nothing is claimed.                                   *)
LEMMA InitEstablishesDInv == AnyGraph => DInv
BY DEF AnyGraph, DInv, GraphTypeOK, Started, KeepsTheNecessary, Settled

(* The sets are initialised.                                               *)
LEMMA BeginKeepsDInv == DInv /\ BeginDominators => DInv'
<1> SUFFICES ASSUME DInv, BeginDominators PROVE DInv'
  OBVIOUS
<1> USE DEF BeginDominators
<1>1. Entries' = Entries /\ \A cut, d : Separates(cut, d)' <=> Separates(cut, d)
  BY SameGraph
<1>2. GraphTypeOK'
  BY <1>1, EntriesAreNodes DEF DInv, GraphTypeOK, Arc
<1>3. Started'
  BY <1>1, EntriesAreNodes DEF Started
<1>4. KeepsTheNecessary'
  <2> SUFFICES ASSUME NEW d \in nodes, NEW cut \in SUBSET (nodes \ {d}), Separates(cut, d),
                      NEW n \in nodes \ cut
               PROVE  d \in dominators'[n]
    BY <1>1 DEF KeepsTheNecessary
  <2> QED
    BY DEF Separates
<1>5. Settled'
  BY <1>1 DEF Settled
<1> QED
  BY <1>2, <1>3, <1>4, <1>5 DEF DInv

(* One operation is visited.                                               *)
LEMMA VisitKeepsDInv == DInv /\ Visit => DInv'
<1> SUFFICES ASSUME DInv, Visit PROVE DInv'
  OBVIOUS
<1>1. /\ Entries' = Entries
      /\ \A n : Predecessors(n)' = Predecessors(n)
      /\ \A cut, d : Separates(cut, d)' <=> Separates(cut, d)
  BY SameGraph DEF Visit
<1>2. PICK n \in remaining :
        /\ dominators' = [dominators EXCEPT ![n] = Updated(n)]
        /\ changed' = (changed \/ Updated(n) # dominators[n])
        /\ remaining' = remaining \ {n}
  BY DEF Visit, First
<1>3. /\ phase = "dominators" /\ phase' = "dominators"
      /\ UNCHANGED <<nodes, arcs>>
  BY DEF Visit
<1>4. n \in nodes \ Entries /\ dominators \in [nodes -> SUBSET nodes]
  BY <1>3 DEF DInv, GraphTypeOK
<1>5. n \in Updated(n) /\ Updated(n) \subseteq nodes
  BY <1>4, UpdatedHasItself
<1>6. GraphTypeOK'
  <2>1. dominators' \in [nodes -> SUBSET nodes]
    BY <1>2, <1>4, <1>5
  <2>2. changed' \in BOOLEAN
    BY <1>2 DEF DInv, GraphTypeOK
  <2>3. remaining' \subseteq nodes \ Entries
    BY <1>2 DEF DInv, GraphTypeOK
  <2>4. Arc' = Arc
    BY <1>3 DEF Arc
  <2> QED
    BY <1>1, <1>3, <2>1, <2>2, <2>3, <2>4 DEF DInv, GraphTypeOK
<1>7. Started'
  BY <1>1, <1>2, <1>3, <1>4, <1>5 DEF DInv, Started
<1>8. KeepsTheNecessary'
  <2> SUFFICES ASSUME NEW d \in nodes, NEW cut \in SUBSET (nodes \ {d}), Separates(cut, d),
                      NEW m \in nodes \ cut
               PROVE  d \in dominators'[m]
    BY <1>1, <1>3 DEF KeepsTheNecessary
  <2>1. \A k \in nodes \ cut : d \in dominators[k]
    BY <1>3 DEF DInv, KeepsTheNecessary
  <2>2. CASE m # n
    BY <1>2, <1>4, <2>1, <2>2
  <2>3. CASE m = n /\ n = d
    BY <1>2, <1>4, <1>5, <2>3
  <2>4. CASE m = n /\ n # d
    <3>1. \A p \in Predecessors(n) : p \in nodes \ cut
      BY <2>4, <1>3 DEF Predecessors, Separates, DInv, GraphTypeOK, Arc
    <3>2. d \in Updated(n)
      BY <3>1, <2>1, <1>4, NonEntriesHavePredecessors DEF Updated
    <3> QED
      BY <3>2, <1>2, <1>4, <2>4
  <2> QED
    BY <2>2, <2>3, <2>4
<1>9. Settled'
  <2> SUFFICES ASSUME ~changed', NEW m \in (nodes \ Entries) \ remaining'
               PROVE  dominators'[m] = Updated(m)'
    BY <1>1, <1>3 DEF Settled
  <2>1. ~changed /\ Updated(n) = dominators[n]
    BY <1>2
  <2>2. dominators' = dominators
    BY <1>2, <1>4, <2>1
  <2>3. Updated(m)' = Updated(m)
    BY <1>1, <1>3, <2>2 DEF Updated
  <2>4. dominators[m] = Updated(m)
    BY <1>2, <1>3, <2>1 DEF DInv, Settled
  <2> QED
    BY <2>2, <2>3, <2>4
<1> QED
  BY <1>6, <1>7, <1>8, <1>9 DEF DInv

(* A pass begins again, or the passes end.                                 *)
LEMMA NextPassKeepsDInv == DInv /\ NextPass => DInv'
<1> SUFFICES ASSUME DInv, NextPass PROVE DInv'
  OBVIOUS
<1>1. /\ Entries' = Entries
      /\ \A n : Predecessors(n)' = Predecessors(n)
      /\ \A cut, d : Separates(cut, d)' <=> Separates(cut, d)
  BY SameGraph DEF NextPass
<1>2. \A n : Updated(n)' = Updated(n)
  BY <1>1 DEF Updated, NextPass
<1>3. phase = "dominators" /\ UNCHANGED <<nodes, arcs, dominators>> /\ remaining = {}
  BY DEF NextPass
<1>4. GraphTypeOK'
  BY <1>1, <1>3 DEF DInv, GraphTypeOK, Arc, NextPass
<1>5. Started'
  BY <1>1, <1>3 DEF DInv, Started
<1>6. KeepsTheNecessary'
  BY <1>1, <1>3 DEF DInv, KeepsTheNecessary
<1>7. Settled'
  <2>1. CASE changed
    BY <1>1, <2>1 DEF NextPass, Settled
  <2>2. CASE ~changed
    BY <1>1, <1>2, <1>3, <2>2 DEF DInv, NextPass, Settled
  <2> QED
    BY <2>1, <2>2
<1> QED
  BY <1>4, <1>5, <1>6, <1>7 DEF DInv

(* Nothing of the analysis changes.                                        *)
LEMMA StutterKeepsDInv == DInv /\ UNCHANGED flowVars => DInv'
<1> SUFFICES ASSUME DInv, UNCHANGED flowVars PROVE DInv'
  OBVIOUS
<1>1. /\ Entries' = Entries
      /\ \A n : Predecessors(n)' = Predecessors(n)
      /\ \A cut, d : Separates(cut, d)' <=> Separates(cut, d)
  BY SameGraph DEF flowVars
<1>2. \A n : Updated(n)' = Updated(n)
  BY <1>1 DEF Updated, flowVars
<1> QED
  BY <1>1, <1>2
     DEF flowVars, DInv, GraphTypeOK, Arc, Started, KeepsTheNecessary, Settled

(* When no visit changed a set, the sets are exact.                        *)
LEMMA DInvIsExact == DInv => DominatorsAreExact
<1> SUFFICES ASSUME DInv, phase = "done"
             PROVE  \A n, d \in nodes : d \in dominators[n] <=> OnEveryPath(d, n)
  BY DEF DominatorsAreExact, DInv, GraphTypeOK
<1> SUFFICES ASSUME NEW n \in nodes, NEW d \in nodes
             PROVE  d \in dominators[n] <=> OnEveryPath(d, n)
  OBVIOUS
<1>1. ASSUME OnEveryPath(d, n) PROVE d \in dominators[n]
  <2>1. CASE d = n
    BY <2>1 DEF DInv, Started
  <2>2. CASE d # n
    <3>1. PICK cut \in SUBSET (nodes \ {d, n}) : Separates(cut, d)
      BY <1>1, <2>2 DEF OnEveryPath, Separates
    <3> QED
      BY <3>1 DEF DInv, KeepsTheNecessary
  <2> QED
    BY <2>1, <2>2
<1>2. ASSUME d \in dominators[n], d # n PROVE OnEveryPath(d, n)
  <2> DEFINE cut == {m \in nodes : d \notin dominators[m]}
  <2>1. cut \in SUBSET (nodes \ {d, n})
    BY <1>2 DEF DInv, Started
  <2>2. Entries \ {d} \subseteq cut
    BY EntriesAreNodes DEF DInv, Started
  <2>3. ASSUME NEW a \in arcs, a.from \in cut, a.to # d PROVE a.to \in cut
    <3>1. a.to \in nodes /\ a.from \in Predecessors(a.to)
      BY DEF DInv, GraphTypeOK, Arc, Predecessors
    <3>2. CASE a.to \in Entries
      BY <2>2, <2>3, <3>2
    <3>3. CASE a.to \notin Entries
      <4>1. dominators[a.to] = Updated(a.to)
        BY <3>1, <3>3 DEF DInv, Settled
      <4>2. d \notin Updated(a.to)
        BY <2>3, <3>1 DEF Updated
      <4> QED
        BY <3>1, <4>1, <4>2
    <3> QED
      BY <3>2, <3>3
  <2> QED
    BY <2>1, <2>2, <2>3 DEF OnEveryPath
<1> QED
  BY <1>1, <1>2 DEF OnEveryPath

-----------------------------------------------------------------------------
(* DInv holds throughout, on every graph.                                  *)
THEOREM DInvHolds == DominatorsSpec => []DInv
<1>1. AnyGraph => DInv
  BY InitEstablishesDInv
<1>2. DInv /\ [FindDominators]_flowVars => DInv'
  BY BeginKeepsDInv, VisitKeepsDInv, NextPassKeepsDInv, StutterKeepsDInv
     DEF FindDominators
<1> QED
  BY <1>1, <1>2, PTL DEF DominatorsSpec

(* When the passes of _dominators() stop, each operation has exactly the   *)
(* operations that are on every path from an entry to it, as dominates()   *)
(* says (control_flow.py:122).                                             *)
THEOREM DominatorsCorrect == DominatorsSpec => []DominatorsAreExact
<1>1. DInv => DominatorsAreExact
  BY DInvIsExact
<1> QED
  BY <1>1, DInvHolds, PTL

-----------------------------------------------------------------------------
Calls == DOMAIN code.calls

(* Every call of the program is linked or waits in one of the two lists.   *)
CallsAreTracked ==
  /\ pending \in Seq(Calls) /\ nextPending \in Seq(Calls) /\ DOMAIN targets \subseteq Calls
  /\ linking = "start" => Calls = {} /\ nextPending = <<>> /\ ~typeProgress
  /\ linking # "start" => code \in Sources
  /\ linking = "round" =>
       \A c \in Calls : \/ c \in DOMAIN targets
                        \/ \E i \in DOMAIN pending : pending[i] = c
                        \/ \E i \in DOMAIN nextPending : nextPending[i] = c

(* A call that was put off in this round meant no function, or several,    *)
(* and still does as long as the round taught no type.                     *)
PutOffForReason ==
  linking = "round" /\ ~typeProgress =>
    \A i \in DOMAIN nextPending : ~IsOne(CallAt(nextPending[i]), localTypes)

LinkedByName ==
  \A c \in DOMAIN targets : Simple(CallAt(c).target) = Simple(Function(targets[c]).qualified)

LInv ==
  /\ CallsAreTracked /\ PutOffForReason /\ LinkedByName
  /\ linking \in {"edges", "done"} => \A c \in Calls \ DOMAIN targets : ~IsOne(CallAt(c), localTypes)

-----------------------------------------------------------------------------
(* A name in the scope of another keeps its last part.                     *)
LEMMA LastOfJoin ==
  ASSUME NEW S, NEW s \in Seq(S), NEW t \in Seq(S), Len(s) > 0, Len(t) > 1
  PROVE  Last(Front(s) \o Tail(t)) = Last(t)
<1> DEFINE a == Front(s)
           b == Tail(t)
<1>1. a \in Seq(S)
  BY DEF Front
<1>2. b \in Seq(S) /\ Len(b) = Len(t) - 1 /\ \A i \in 1 .. Len(b) : b[i] = t[i + 1]
  BY DEF Tail
<1>3. b[Len(b)] = t[Len(t)] /\ Len(b) \in Nat \ {0}
  BY <1>2
<1> HIDE DEF a, b
<1>4. Len(a \o b) = Len(a) + Len(b) /\ (a \o b)[Len(a) + Len(b)] = b[Len(b)]
  <2> DEFINE n == Len(a)
             m == Len(b)
  <2>1. n \in Nat /\ m \in Nat \ {0}
    BY <1>1, <1>3
  <2>2. Len(a \o b) = n + m
    BY <1>1, <1>2, ConcatProperties
  <2>3. \A i \in 1 .. n + m : (a \o b)[i] = IF i <= n THEN a[i] ELSE b[i - n]
    BY <1>1, <1>2, ConcatProperties
  <2> HIDE DEF n, m
  <2>4. n + m \in 1 .. n + m /\ ~(n + m <= n) /\ (n + m) - n = m
    BY <2>1
  <2>5. (a \o b)[n + m] = b[m]
    BY <2>3, <2>4
  <2> QED BY <2>2, <2>5 DEF n, m
<1>5. Last(a \o b) = Last(t)
  BY <1>3, <1>4 DEF Last
<1> QED BY <1>5 DEF a, b

(* Whatever way a call is resolved, the function has its simple name.      *)
LEMMA ResolvedByName ==
  ASSUME code \in Sources, NEW c \in Calls, NEW types, IsOne(CallAt(c), types)
  PROVE  Simple(CallAt(c).target) = Simple(Function(TheOne(CallAt(c), types)).qualified)
<1> DEFINE call == CallAt(c)
           f == TheOne(call, types)
           inside == Function(call.scope).qualified
<1>1. /\ call.target \in Seq(STRING) /\ call.target # <<>> /\ call.scope \in Functions
      /\ \A g \in Functions : Function(g).qualified \in Seq(STRING) /\ Function(g).qualified # <<>>
  BY LinkAssumption DEF Calls, CallAt, Functions, Function
<1>2. f \in ResolvedBy(call, types).found
  <2>1. ResolvedBy(call, types).found # {}
    BY FS_EmptySet DEF IsOne
  <2> QED BY <2>1 DEF TheOne
<1> HIDE DEF call, f
<1>3. ASSUME NEW name, f \in Exact(name)
      PROVE  Simple(Function(f).qualified) = Last(name)
  BY <1>3 DEF Exact, Simple
<1>4. ASSUME f \in Contextual(call)
      PROVE  Simple(Function(f).qualified) = Simple(call.target)
  <2> DEFINE name == Front(inside) \o Tail(call.target)
  <2>1. Len(call.target) > 1 /\ Len(inside) > 2 /\ f \in Exact(name)
    BY <1>4 DEF Contextual
  <2>2. inside \in Seq(STRING) /\ Len(inside) > 0 /\ Len(call.target) > 1
    BY <1>1, <2>1
  <2> HIDE DEF inside
  <2>4. Last(name) = Last(call.target)
    BY <1>1, <2>1, <2>2, LastOfJoin
  <2> QED BY <1>3, <2>1, <2>4 DEF Simple
<1>5. ASSUME f \in Typed(call, types)
      PROVE  Simple(Function(f).qualified) = Simple(call.target)
  <2>1. \/ \E type : f \in Exact(<<type, Simple(call.target)>>)
        \/ \E ns, type : f \in Methods(ns, type, Simple(call.target))
        \/ \E type : f \in MethodsGlobal(type, Simple(call.target))
    BY <1>5 DEF Typed
  <2>2. \A type : Last(<<type, Simple(call.target)>>) = Simple(call.target)
    BY DEF Last
  <2> QED BY <1>3, <2>1, <2>2 DEF Methods, MethodsGlobal
<1>6. \/ f \in Exact(call.target) \/ f \in Near(call) \/ f \in Contextual(call) \/ f \in Typed(call, types)
      \/ f \in BySimple(Simple(call.target))
  BY <1>2 DEF ResolvedBy
<1>7. f \in Near(call) \/ f \in BySimple(Simple(call.target)) =>
        Simple(Function(f).qualified) = Simple(call.target)
  BY DEF Near, InNamespace, BySimple
<1>8. Simple(Function(f).qualified) = Simple(call.target)
  BY <1>3, <1>4, <1>5, <1>6, <1>7 DEF Simple
<1> QED BY <1>8 DEF call, f

(* What a call means depends on the program and the types only.            *)
LEMMA MeaningIsKept ==
  ASSUME code' = code, NEW call, NEW types
  PROVE  IsOne(call, types)' <=> IsOne(call, types)
<1>1. Functions' = Functions /\ \A f : Function(f)' = Function(f)
  BY DEF Functions, Function
<1>2. \A name : Exact(name)' = Exact(name)
  BY <1>1 DEF Exact
<1>3. \A ns, s : InNamespace(ns, s)' = InNamespace(ns, s)
  BY <1>1 DEF InNamespace
<1>4. \A s : BySimple(s)' = BySimple(s)
  BY <1>1 DEF BySimple
<1>5. \A ns, type, s : Methods(ns, type, s)' = Methods(ns, type, s)
  BY <1>1 DEF Methods
<1>6. \A type, s : MethodsGlobal(type, s)' = MethodsGlobal(type, s)
  BY <1>1 DEF MethodsGlobal
<1>7. Contextual(call)' = Contextual(call)
  BY <1>1, <1>2 DEF Contextual
<1>8. Near(call)' = Near(call)
  BY <1>1, <1>3 DEF Near
<1>9. Typed(call, types)' = Typed(call, types)
  BY <1>1, <1>2, <1>5, <1>6 DEF Typed
<1>10. ResolvedBy(call, types)' = ResolvedBy(call, types)
  BY <1>2, <1>4, <1>7, <1>8, <1>9 DEF ResolvedBy
<1> QED BY <1>10 DEF IsOne

-----------------------------------------------------------------------------
(* No call is tracked before a program is chosen.                          *)
LEMMA LinkStarts == LinkInit => LInv
  BY DEF LinkInit, LInv, CallsAreTracked, PutOffForReason, LinkedByName, Calls, NoCode

(* A new program has all its calls pending.                                *)
LEMMA BeginLinkKeeps ==
  ASSUME LInv, BeginLink
  PROVE  LInv'
<1>1. /\ code' \in Sources /\ linking' = "round" /\ pending' = [i \in DOMAIN code'.calls |-> i]
      /\ nextPending' = <<>> /\ DOMAIN targets' = {}
  BY DEF BeginLink, LInv, CallsAreTracked
<1> DEFINE n == Len(code'.calls)
<1>2. n \in Nat /\ Calls' = 1 .. n
  BY <1>1, LinkAssumption DEF Calls
<1> HIDE DEF n
<1>3. pending' = [i \in 1 .. n |-> i] /\ Calls' = 1 .. n
  BY <1>1, <1>2 DEF Calls
<1>4. pending' \in Seq(Calls') /\ DOMAIN pending' = Calls' /\ \A c \in Calls' : pending'[c] = c
  BY <1>2, <1>3
<1> QED BY <1>1, <1>4 DEF LInv, CallsAreTracked, PutOffForReason, LinkedByName

(* A list with one more call.                                              *)
LEMMA WithAnother ==
  ASSUME NEW S, NEW s \in Seq(S), NEW x \in S, NEW t, t = Append(s, x)
  PROVE  /\ t \in Seq(S)
         /\ \A y : (\E i \in DOMAIN s : s[i] = y) => \E i \in DOMAIN t : t[i] = y
         /\ \E i \in DOMAIN t : t[i] = x
         /\ \A i \in DOMAIN t : t[i] = x \/ (i \in DOMAIN s /\ t[i] = s[i])
<1> DEFINE n == Len(s)
<1>1. /\ t \in Seq(S) /\ n \in Nat /\ DOMAIN s = 1 .. n /\ DOMAIN t = 1 .. n + 1 /\ t[n + 1] = x
      /\ \A i \in 1 .. n : t[i] = s[i]
  OBVIOUS
<1> HIDE DEF n
<1>2. 1 .. n \subseteq 1 .. n + 1 /\ n + 1 \in 1 .. n + 1 /\ \A i \in 1 .. n + 1 : i = n + 1 \/ i \in 1 .. n
  BY <1>1
<1> QED BY <1>1, <1>2

(* A call that is tried is linked by its name, or put off for a reason.    *)
LEMMA TryCallKeeps ==
  ASSUME LInv, TryCall
  PROVE  LInv'
<1> DEFINE c == Head(pending)
           f == TheOne(CallAt(c), localTypes)
<1>0. c = Head(pending)
  OBVIOUS
<1>1. /\ linking = "round" /\ linking' = "round" /\ code' = code /\ code \in Sources
      /\ pending # <<>> /\ pending' = Tail(pending) /\ Calls' = Calls
  BY DEF TryCall, LInv, CallsAreTracked, Calls
<1>2. /\ pending \in Seq(Calls) /\ nextPending \in Seq(Calls) /\ DOMAIN targets \subseteq Calls
      /\ \A x \in Calls : \/ x \in DOMAIN targets
                          \/ \E i \in DOMAIN pending : pending[i] = x
                          \/ \E i \in DOMAIN nextPending : nextPending[i] = x
      /\ ~typeProgress => \A i \in DOMAIN nextPending : ~IsOne(CallAt(nextPending[i]), localTypes)
      /\ LinkedByName
  BY <1>1 DEF LInv, CallsAreTracked, PutOffForReason
<1>3. /\ c \in Calls /\ pending' \in Seq(Calls)
      /\ \A x : (\E i \in DOMAIN pending : pending[i] = x) =>
                 x = c \/ \E i \in DOMAIN pending' : pending'[i] = x
  <2> DEFINE n == Len(pending)
             rest == pending'
  <2>1. /\ n \in Nat \ {0} /\ DOMAIN pending = 1 .. n /\ c = pending[1] /\ c \in Calls
        /\ rest \in Seq(Calls) /\ DOMAIN rest = 1 .. n - 1 /\ \A i \in 1 .. n - 1 : rest[i] = pending[i + 1]
    BY <1>0, <1>1, <1>2
  <2> HIDE DEF c, n, rest
  <2>2. ASSUME NEW i \in DOMAIN pending, pending[i] # c
        PROVE  \E k \in DOMAIN rest : rest[k] = pending[i]
    <3>1. i - 1 \in 1 .. n - 1 /\ (i - 1) + 1 = i
      BY <2>1, <2>2
    <3>2. rest[i - 1] = pending[i]
      BY <2>1, <3>1
    <3> QED BY <2>1, <3>1, <3>2
  <2> QED BY <2>1, <2>2 DEF rest
<1>4. \A x : CallAt(x)' = CallAt(x)
  BY <1>1 DEF CallAt
<1>5. \A x, types : IsOne(CallAt(x), types)' <=> IsOne(CallAt(x), types)
  <2>1. ASSUME NEW x, NEW types, NEW call, call = CallAt(x)
        PROVE  IsOne(call, types)' <=> IsOne(call, types)
    BY <1>1, MeaningIsKept
  <2> QED BY <1>4, <2>1
<1>6. CASE IsOne(CallAt(c), localTypes)
  <2>1. /\ targets' = [x \in DOMAIN targets \cup {c} |-> IF x = c THEN f ELSE targets[x]]
        /\ localTypes' = localTypes \cup Learned(CallAt(c), f)
        /\ typeProgress' = (typeProgress \/ ~(Learned(CallAt(c), f) \subseteq localTypes))
        /\ nextPending' = nextPending
    BY <1>6 DEF TryCall
  <2>2. Simple(CallAt(c).target) = Simple(Function(f).qualified)
    BY <1>1, <1>3, <1>6, ResolvedByName
  <2> HIDE DEF c, f
  <2>3. /\ DOMAIN targets' = DOMAIN targets \cup {c} /\ targets'[c] = f
        /\ \A x \in DOMAIN targets \ {c} : targets'[x] = targets[x]
    BY <2>1
  <2>4. LinkedByName'
    <3>1. \A g : Function(g)' = Function(g)
      BY <1>1 DEF Function
    <3> QED BY <1>2, <1>4, <2>2, <2>3, <3>1 DEF LinkedByName, Simple
  <2>5. CallsAreTracked'
    BY <1>1, <1>2, <1>3, <2>1, <2>3 DEF CallsAreTracked
  <2>6. ~typeProgress' => ~typeProgress /\ localTypes' = localTypes
    BY <2>1
  <2>7. PutOffForReason'
    BY <1>2, <1>4, <1>5, <2>1, <2>6 DEF PutOffForReason
  <2> QED BY <1>1, <2>4, <2>5, <2>7 DEF LInv
<1>7. CASE ~IsOne(CallAt(c), localTypes)
  <2>1. /\ nextPending' = Append(nextPending, c) /\ targets' = targets
        /\ localTypes' = localTypes /\ typeProgress' = typeProgress
    BY <1>7 DEF TryCall
  <2> HIDE DEF c, f
  <2>2. /\ nextPending' \in Seq(Calls)
        /\ \A y : (\E i \in DOMAIN nextPending : nextPending[i] = y) =>
                    \E i \in DOMAIN nextPending' : nextPending'[i] = y
        /\ \E i \in DOMAIN nextPending' : nextPending'[i] = c
        /\ \A i \in DOMAIN nextPending' :
             nextPending'[i] = c \/ (i \in DOMAIN nextPending /\ nextPending'[i] = nextPending[i])
    <3> DEFINE all == Calls
               list == nextPending
               longer == nextPending'
    <3>1. list \in Seq(all) /\ c \in all /\ longer = Append(list, c)
      BY <1>2, <1>3, <2>1
    <3> HIDE DEF all, list, longer
    <3>2. /\ longer \in Seq(all)
          /\ \A y : (\E i \in DOMAIN list : list[i] = y) => \E i \in DOMAIN longer : longer[i] = y
          /\ \E i \in DOMAIN longer : longer[i] = c
          /\ \A i \in DOMAIN longer : longer[i] = c \/ (i \in DOMAIN list /\ longer[i] = list[i])
      BY <3>1, WithAnother
    <3> QED BY <3>2 DEF all, list, longer
  <2>3. CallsAreTracked'
    BY <1>1, <1>2, <1>3, <2>1, <2>2 DEF CallsAreTracked
  <2>4. PutOffForReason'
    BY <1>2, <1>4, <1>5, <1>7, <2>1, <2>2 DEF PutOffForReason
  <2>5. LinkedByName'
    <3>1. \A g : Function(g)' = Function(g)
      BY <1>1 DEF Function
    <3> QED BY <1>2, <1>4, <2>1, <3>1 DEF LinkedByName, Simple
  <2> QED BY <1>1, <2>3, <2>4, <2>5 DEF LInv
<1> QED BY <1>6, <1>7

(* A round starts again with what was put off, or ends the linking.        *)
LEMMA EndRoundKeeps ==
  ASSUME LInv, EndRound
  PROVE  LInv'
<1>1. /\ linking = "round" /\ pending = <<>> /\ UNCHANGED <<code, targets, localTypes>>
      /\ linking' = (IF nextPending = <<>> \/ IsLast THEN "edges" ELSE "round")
      /\ pending' = nextPending /\ nextPending' = <<>> /\ ~typeProgress'
  BY DEF EndRound
<1>2. /\ code \in Sources /\ nextPending \in Seq(Calls) /\ DOMAIN targets \subseteq Calls /\ LinkedByName
      /\ \A x \in Calls : x \in DOMAIN targets \/ \E i \in DOMAIN nextPending : nextPending[i] = x
      /\ ~typeProgress => \A i \in DOMAIN nextPending : ~IsOne(CallAt(nextPending[i]), localTypes)
  BY <1>1 DEF LInv, CallsAreTracked, PutOffForReason
<1>3. Calls' = Calls /\ (\A x : CallAt(x)' = CallAt(x)) /\ \A g : Function(g)' = Function(g)
  BY <1>1 DEF Calls, CallAt, Function
<1>4. CallsAreTracked' /\ PutOffForReason'
  BY <1>1, <1>2, <1>3 DEF CallsAreTracked, PutOffForReason
<1>5. LinkedByName'
  BY <1>1, <1>2, <1>3 DEF LinkedByName, Simple
<1>6. ASSUME linking' # "round", NEW x \in Calls \ DOMAIN targets
      PROVE  ~IsOne(CallAt(x), localTypes)'
  <2>1. ~IsOne(CallAt(x), localTypes)
    BY <1>1, <1>2, <1>6 DEF IsLast
  <2>2. ASSUME NEW call, NEW types
        PROVE  IsOne(call, types)' <=> IsOne(call, types)
    BY <1>1, MeaningIsKept
  <2> QED BY <1>1, <1>3, <2>1, <2>2
<1> QED BY <1>1, <1>3, <1>4, <1>5, <1>6 DEF LInv

(* Steps after which the calls, their functions and the types are the same.*)
LEMMA LinkedStays ==
  ASSUME LInv, linking' = linking \/ (linking = "edges" /\ linking' = "done"),
         UNCHANGED <<code, pending, nextPending, typeProgress, targets, localTypes>>
  PROVE  LInv'
<1>1. Calls' = Calls /\ (\A x : CallAt(x)' = CallAt(x)) /\ \A g : Function(g)' = Function(g)
  BY DEF Calls, CallAt, Function
<1>2. ASSUME NEW call, NEW types
      PROVE  IsOne(call, types)' <=> IsOne(call, types)
  BY MeaningIsKept
<1>3. \A x : IsOne(CallAt(x), localTypes)' <=> IsOne(CallAt(x), localTypes)
  BY <1>1, <1>2
<1>4. CallsAreTracked'
  BY <1>1 DEF LInv, CallsAreTracked
<1>5. PutOffForReason'
  BY <1>3, <1>1 DEF LInv, PutOffForReason
<1>6. LinkedByName'
  BY <1>1 DEF LInv, LinkedByName, Simple
<1> QED BY <1>1, <1>3, <1>4, <1>5, <1>6 DEF LInv

(* When the rounds end, every call that means exactly one function with    *)
(* the types known by then is linked, and a linked call has the name of    *)
(* its function (SemanticLinker.link, analysis/interprocedural.py).        *)
THEOREM LinkIsAlwaysComplete == LinkSpec => []LinkIsComplete
<1>1. LInv => LinkIsComplete
  BY DEF LInv, LinkedByName, LinkIsComplete, Calls
<1>2. LInv /\ [LinkNext]_linkVars => LInv'
  <2> SUFFICES ASSUME LInv, [LinkNext]_linkVars PROVE LInv'
    OBVIOUS
  <2>1. CASE LinkAll \/ UNCHANGED linkVars
    BY <2>1, LinkedStays DEF LinkAll, linkVars
  <2> QED BY <2>1, BeginLinkKeeps, TryCallKeeps, EndRoundKeeps DEF LinkNext
<1> QED BY <1>1, <1>2, LinkStarts, PTL DEF LinkSpec

-----------------------------------------------------------------------------
(* -- Adjudication (Adjudication)                                           *)
IntentFact == [path : Place, line : Nat, kind : IntentKinds]

(* The scan holds what the files before its place state, up to its bound.  *)
ScanIsFaithful ==
  repository # <<>> =>
    /\ place \in 1 .. Len(Repository.files) + 1 /\ scanned \in 0 .. MaxIntentFiles
    /\ intents = IF place = 1 THEN <<>> ELSE UpToLimit(StatedUpTo(place - 1))
    /\ ~scanning => place > Len(Repository.files) \/ Len(intents) = MaxIntents \/ scanned = MaxIntentFiles

(* What was decided was decided by what the whole scan had found.          *)
DecidedByRule ==
  /\ repository = <<>> \/ scanning => decided = <<>>
  /\ repository # <<>> =>
       /\ Len(decided) \in 0 .. Len(Repository.findings)
       /\ decided = [i \in 1 .. Len(decided) |-> LabelFor(Repository.findings[i])]

JInv ==
  /\ repository = <<>> \/ \E r \in Repositories : repository = <<r>>
  /\ repository = <<>> => place = 1 /\ scanned = 0 /\ intents = <<>> /\ scanning
  /\ ScanIsFaithful /\ DecidedByRule

-----------------------------------------------------------------------------
(* Lists joined in a loop.                                                 *)
LEMMA JoiningIsDefined ==
  ASSUME NEW n \in Nat, NEW S, NEW part \in [1 .. n -> Seq(S)]
  PROVE  \E g \in [0 .. n -> Seq(S)] : g[0] = <<>> /\ \A i \in 1 .. n : g[i] = g[i - 1] \o part[i]
<1> DEFINE L == Seq(S)
           turn == [i \in 1 .. n |-> [list \in L |-> list \o part[i]]]
<1>1. <<>> \in L
  OBVIOUS
<1>2. \A i \in 1 .. n : \A list \in L : list \o part[i] \in L
  BY ConcatProperties
<1> HIDE DEF L
<1>3. turn \in [1 .. n -> [L -> L]]
  BY <1>2
<1> HIDE DEF turn
<1>4. PICK g \in [0 .. n -> L] : IsLoop(g, n, <<>>, turn)
  BY <1>1, <1>3, LoopIsDefined, Zenon
<1>5. \A i \in 1 .. n : i - 1 \in 0 .. n
  OBVIOUS
<1>6. g[0] = <<>> /\ \A i \in 1 .. n : g[i] = g[i - 1] \o part[i]
  BY <1>4, <1>5 DEF IsLoop, turn
<1> QED BY <1>6 DEF L

Begins(s, t) == Len(s) <= Len(t) /\ \A k \in 1 .. Len(s) : t[k] = s[k]

(* Each list of such a loop begins with those before it.                   *)
LEMMA JoiningGrows ==
  ASSUME NEW n \in Nat, NEW S, NEW part \in [1 .. n -> Seq(S)], NEW g \in [0 .. n -> Seq(S)],
         \A i \in 1 .. n : g[i] = g[i - 1] \o part[i], NEW i \in 0 .. n
  PROVE  Begins(g[i], g[n])
<1> DEFINE T == {j \in 0 .. n : i <= j /\ ~Begins(g[i], g[j])}
<1>1. ASSUME T # {} PROVE FALSE
  <2>1. T \in SUBSET Nat
    OBVIOUS
  <2> HIDE DEF T
  <2>2. PICK j \in T : \A k \in T : j <= k
    BY <1>1, <2>1, LeastNatural, Zenon
  <2>3. j \in 0 .. n /\ i <= j /\ ~Begins(g[i], g[j])
    BY <2>2 DEF T
  <2>4. j # i
    BY <2>3 DEF Begins
  <2>5. j \in 1 .. n /\ j - 1 \in 0 .. n /\ i <= j - 1 /\ ~ (j <= j - 1)
    BY <2>3, <2>4
  <2>6. Begins(g[i], g[j - 1])
    BY <2>2, <2>5 DEF T
  <2>7. g[i] \in Seq(S) /\ g[j - 1] \in Seq(S) /\ part[j] \in Seq(S) /\ g[j] = g[j - 1] \o part[j]
    BY <2>5
  <2>8. ASSUME NEW r \in Seq(S), NEW s \in Seq(S), NEW t \in Seq(S), Begins(r, s)
        PROVE  Begins(r, s \o t)
    <3>1. /\ Len(s \o t) = Len(s) + Len(t) /\ Len(r) \in Nat /\ Len(s) \in Nat /\ Len(t) \in Nat
          /\ \A k \in 1 .. Len(s) : (s \o t)[k] = s[k]
      BY ConcatProperties
    <3>2. Len(r) <= Len(s) /\ \A k \in 1 .. Len(r) : s[k] = r[k]
      BY <2>8 DEF Begins
    <3>3. Len(r) <= Len(s \o t) /\ \A k \in 1 .. Len(r) : k \in 1 .. Len(s)
      BY <3>1, <3>2
    <3> QED BY <3>1, <3>2, <3>3 DEF Begins
  <2>9. Begins(g[i], g[j])
    BY <2>6, <2>7, <2>8
  <2> QED BY <2>3, <2>9
<1>2. n \in 0 .. n /\ i <= n
  OBVIOUS
<1> QED BY <1>1, <1>2

(* The facts of a file.                                                    *)
LEMMA FactsOfFileAreFacts ==
  ASSUME NEW file \in ProjectFile
  PROVE  FactsOfFile(file) \in Seq(IntentFact)
<1> DEFINE n == Len(file.lines)
           part == [k \in 1 .. n |-> FactsOfLine(file, k)]
           Value(f) == f = [k \in 0 .. n |-> IF k = 0 THEN <<>> ELSE f[k - 1] \o FactsOfLine(file, k)]
<1>0. file.path \in Place /\ file.lines \in Seq(IntentLine)
  BY DEF ProjectFile
<1>1. n \in Nat /\ DOMAIN file.lines = 1 .. n /\ \A k \in 1 .. n : file.lines[k] \in IntentLine
  BY <1>0
<1>2. ASSUME NEW k \in 1 .. n PROVE FactsOfLine(file, k) \in Seq(IntentFact)
  <2> DEFINE line == file.lines[k]
             list == [m \in DOMAIN line.kinds |-> [path |-> file.path, line |-> k, kind |-> line.kinds[m]]]
  <2>1. line.kinds \in Seq(IntentKinds)
    BY <1>1 DEF IntentLine
  <2>2. k \in Nat /\ Len(line.kinds) \in Nat /\ DOMAIN line.kinds = 1 .. Len(line.kinds)
        /\ \A m \in 1 .. Len(line.kinds) : line.kinds[m] \in IntentKinds
    <3>1. \A s \in Seq(IntentKinds) : Len(s) \in Nat /\ DOMAIN s = 1 .. Len(s)
                                      /\ \A m \in 1 .. Len(s) : s[m] \in IntentKinds
      OBVIOUS
    <3>2. k \in Nat
      BY <1>1
    <3> HIDE DEF line
    <3> QED BY <2>1, <3>1, <3>2
  <2>3. list \in [1 .. Len(line.kinds) -> IntentFact]
    <3> HIDE DEF line, n
    <3> QED BY <1>0, <2>2 DEF IntentFact
  <2>4. list \in Seq(IntentFact)
    <3>1. \A m \in Nat : \A s \in [1 .. m -> IntentFact] : s \in Seq(IntentFact)
      OBVIOUS
    <3> HIDE DEF list, line
    <3> QED BY <2>2, <2>3, <3>1
  <2>5. <<>> \in Seq(IntentFact)
    OBVIOUS
  <2>6. FactsOfLine(file, k) = list \/ FactsOfLine(file, k) = <<>>
    BY DEF FactsOfLine
  <2> HIDE DEF list
  <2> QED BY <2>4, <2>5, <2>6
<1> HIDE DEF n
<1>3. part \in [1 .. n -> Seq(IntentFact)]
  BY <1>2
<1>4. PICK g \in [0 .. n -> Seq(IntentFact)] : g[0] = <<>> /\ \A k \in 1 .. n : g[k] = g[k - 1] \o part[k]
  <2>1. n \in Nat
    BY <1>1
  <2> HIDE DEF part
  <2> QED BY <1>3, <2>1, JoiningIsDefined, ZenonT(60)
<1>5. Value(g)
  <2>1. \A k \in 0 .. n : k # 0 => k \in 1 .. n
    BY <1>1
  <2>2. \A k \in 0 .. n : g[k] = IF k = 0 THEN <<>> ELSE g[k - 1] \o FactsOfLine(file, k)
    BY <1>4, <2>1
  <2>3. g = [k \in 0 .. n |-> g[k]]
    BY <1>4
  <2> QED BY <2>2, <2>3
<1> DEFINE facts == CHOOSE f : Value(f)
<1>6. Value(facts)
  BY <1>5
<1>7. FactsOfFile(file) = facts[n]
  BY DEF FactsOfFile, n
<1> HIDE DEF facts
<1> DEFINE T == {m \in 0 .. n : facts[m] \notin Seq(IntentFact)}
<1>8. ASSUME T # {} PROVE FALSE
  <2>1. T \in SUBSET Nat
    BY <1>1
  <2> HIDE DEF T
  <2>2. PICK m \in T : \A k \in T : m <= k
    BY <1>8, <2>1, LeastNatural, Zenon
  <2>3. m \in 0 .. n /\ facts[m] \notin Seq(IntentFact)
    BY <2>2 DEF T
  <2>4. facts[m] = IF m = 0 THEN <<>> ELSE facts[m - 1] \o FactsOfLine(file, m)
    BY <1>6, <2>3
  <2>5. m # 0
    BY <2>3, <2>4
  <2>6. m \in 1 .. n /\ m - 1 \in 0 .. n /\ ~ (m <= m - 1)
    BY <1>1, <2>3, <2>5
  <2>7. facts[m - 1] \in Seq(IntentFact)
    BY <2>2, <2>6 DEF T
  <2> QED BY <1>2, <2>3, <2>4, <2>5, <2>6, <2>7, ConcatProperties
<1>9. n \in 0 .. n
  BY <1>1
<1> QED BY <1>7, <1>8, <1>9

(* What the scan keeps of a list.                                          *)
LEMMA UpToLimitFacts ==
  ASSUME NEW S, NEW s \in Seq(S)
  PROVE  /\ UpToLimit(s) \in Seq(S) /\ Len(UpToLimit(s)) \in 0 .. MaxIntents
         /\ Begins(UpToLimit(s), s)
         /\ Len(UpToLimit(s)) < MaxIntents => UpToLimit(s) = s
         /\ Len(UpToLimit(s)) < Len(s) => Len(UpToLimit(s)) = MaxIntents
<1>1. MaxIntents \in Nat /\ Len(s) \in Nat
  BY AdjudicationAssumption
<1>2. CASE Len(s) > MaxIntents
  <2>1. UpToLimit(s) = SubSeq(s, 1, MaxIntents)
    BY <1>2 DEF UpToLimit
  <2>2. /\ SubSeq(s, 1, MaxIntents) \in Seq(S) /\ Len(SubSeq(s, 1, MaxIntents)) = MaxIntents
        /\ \A k \in 1 .. MaxIntents : SubSeq(s, 1, MaxIntents)[k] = s[k]
    BY <1>1, <1>2
  <2> QED BY <1>1, <1>2, <2>1, <2>2 DEF Begins
<1>3. CASE ~ (Len(s) > MaxIntents)
  BY <1>1, <1>3 DEF UpToLimit, Begins
<1> QED BY <1>2, <1>3

(* What is known of the repository under adjudication.                     *)
LEMMA RepositoryFacts ==
  ASSUME JInv, repository # <<>>
  PROVE  /\ Repository.files \in Seq(ProjectFile) /\ Repository.entries \in Seq(DeclaredIntent)
         /\ Repository.findings \in Seq(ReportedCase)
<1>1. PICK r \in Repositories : repository = <<r>>
  BY DEF JInv
<1>2. r \in [files : Seq(ProjectFile), buried : BOOLEAN, entries : Seq(DeclaredIntent),
             findings : Seq(ReportedCase)]
  BY AdjudicationAssumption
<1>3. Repository = r
  BY <1>1 DEF Repository
<1> QED BY <1>2, <1>3

(* The statements of the files, joined in their order.                     *)
LEMMA StatedFacts ==
  ASSUME Repository.files \in Seq(ProjectFile)
  PROVE  /\ Len(Repository.files) \in Nat /\ StatedUpTo(0) = <<>>
         /\ \A i \in 1 .. Len(Repository.files) : StatedUpTo(i) = StatedUpTo(i - 1) \o StatedIn(i)
         /\ \A i \in 0 .. Len(Repository.files) :
              StatedUpTo(i) \in Seq(IntentFact) /\ Begins(StatedUpTo(i), Stated)
<1> DEFINE n == Len(Repository.files)
           part == [k \in 1 .. n |-> StatedIn(k)]
           Value(f) == f = [k \in 0 .. n |-> IF k = 0 THEN <<>> ELSE f[k - 1] \o StatedIn(k)]
<1>1. n \in Nat /\ \A k \in 1 .. n : Repository.files[k] \in ProjectFile
  OBVIOUS
<1>2. \A k \in 1 .. n : StatedIn(k) \in Seq(IntentFact)
  <2>1. <<>> \in Seq(IntentFact)
    OBVIOUS
  <2> QED BY <1>1, <2>1, FactsOfFileAreFacts DEF StatedIn
<1>0. StatedUpTo(0) = (CHOOSE f : Value(f))[0] /\ \A i \in 0 .. n : StatedUpTo(i) = (CHOOSE f : Value(f))[i]
  BY DEF StatedUpTo
<1>00. Stated = StatedUpTo(n)
  BY DEF Stated
<1> HIDE DEF n
<1>3. part \in [1 .. n -> Seq(IntentFact)]
  BY <1>2
<1>4. PICK g \in [0 .. n -> Seq(IntentFact)] : g[0] = <<>> /\ \A k \in 1 .. n : g[k] = g[k - 1] \o part[k]
  <2>1. n \in Nat
    BY <1>1
  <2> HIDE DEF part
  <2> QED BY <1>3, <2>1, JoiningIsDefined, ZenonT(60)
<1>5. Value(g)
  <2>1. \A k \in 0 .. n : k # 0 => k \in 1 .. n
    BY <1>1
  <2>2. \A k \in 0 .. n : g[k] = IF k = 0 THEN <<>> ELSE g[k - 1] \o StatedIn(k)
    BY <1>4, <2>1
  <2>3. g = [k \in 0 .. n |-> g[k]]
    BY <1>4
  <2> QED BY <2>2, <2>3
<1> DEFINE facts == CHOOSE f : Value(f)
<1>6. Value(facts)
  BY <1>5
<1>7. \A i \in 0 .. n : StatedUpTo(i) = facts[i]
  BY <1>0
<1> HIDE DEF facts
<1>8. facts[0] = <<>> /\ \A k \in 1 .. n : facts[k] = facts[k - 1] \o part[k]
  <2>1. 0 \in 0 .. n /\ \A k \in 1 .. n : k \in 0 .. n /\ k # 0
    BY <1>1
  <2> QED BY <1>6, <2>1
<1>9. facts \in [0 .. n -> Seq(IntentFact)]
  <2> DEFINE T == {m \in 0 .. n : facts[m] \notin Seq(IntentFact)}
  <2>1. ASSUME T # {} PROVE FALSE
    <3>1. T \in SUBSET Nat
      BY <1>1
    <3> HIDE DEF T
    <3>2. PICK m \in T : \A k \in T : m <= k
      BY <2>1, <3>1, LeastNatural, Zenon
    <3>3. m \in 0 .. n /\ facts[m] \notin Seq(IntentFact)
      BY <3>2 DEF T
    <3>4. m # 0
      <4>1. <<>> \in Seq(IntentFact)
        OBVIOUS
      <4> QED BY <1>8, <3>3, <4>1
    <3>5. m \in 1 .. n /\ m - 1 \in 0 .. n /\ ~ (m <= m - 1)
      BY <1>1, <3>3, <3>4
    <3>6. facts[m - 1] \in Seq(IntentFact)
      BY <3>2, <3>5 DEF T
    <3>7. facts[m] = facts[m - 1] \o StatedIn(m)
      BY <1>8, <3>5
    <3> HIDE DEF part
    <3> QED BY <1>2, <3>3, <3>5, <3>6, <3>7, ConcatProperties
  <2>2. facts = [k \in 0 .. n |-> facts[k]]
    BY <1>6
  <2> HIDE DEF part
  <2> QED BY <2>1, <2>2
<1>10. ASSUME NEW i \in 0 .. n PROVE Begins(facts[i], facts[n])
  <2> HIDE DEF part
  <2> QED BY <1>1, <1>3, <1>8, <1>9, JoiningGrows, Zenon
<1>11. n \in 0 .. n /\ 0 \in 0 .. n /\ \A i \in 1 .. n : i \in 0 .. n /\ i - 1 \in 0 .. n
  BY <1>1
<1>12. \A i \in 1 .. n : StatedUpTo(i) = StatedUpTo(i - 1) \o StatedIn(i)
  BY <1>7, <1>8, <1>11
<1>13. StatedUpTo(0) = <<>>
  BY <1>7, <1>8, <1>11
<1>14. \A i \in 0 .. n : StatedUpTo(i) \in Seq(IntentFact) /\ Begins(StatedUpTo(i), Stated)
  BY <1>00, <1>7, <1>9, <1>10, <1>11
<1> QED BY <1>1, <1>12, <1>13, <1>14 DEF n

(* Nothing but the files and the intents decides.                          *)
LEMMA SameStatements ==
  ASSUME repository' = repository
  PROVE  /\ Repository' = Repository /\ Stated' = Stated
         /\ \A n : StatedUpTo(n)' = StatedUpTo(n)
         /\ intents' = intents => \A f : LabelFor(f)' = LabelFor(f)
<1>1. Repository' = Repository
  BY DEF Repository
<1>2. \A n : StatedUpTo(n)' = StatedUpTo(n)
  BY <1>1 DEF StatedUpTo, StatedIn, PassedOver
<1>3. intents' = intents => \A f : LabelFor(f)' = LabelFor(f)
  BY <1>1 DEF LabelFor, FactsFor
<1> QED BY <1>1, <1>2, <1>3 DEF Stated

-----------------------------------------------------------------------------
(* Nothing is decided, or scanned, before an adjudication begins.          *)
LEMMA AdjudicationStarts == AdjudicationInit => JInv
BY DEF AdjudicationInit, JInv, ScanIsFaithful, DecidedByRule

(* An adjudication starts with a scan that has seen no file.               *)
LEMMA BeginKeepsJ == JInv /\ Begin => JInv'
<1> SUFFICES ASSUME JInv, Begin PROVE JInv'
  OBVIOUS
<1>1. PICK r \in Repositories : repository' = <<r>>
  BY DEF Begin
<1>2. /\ repository = <<>> /\ place' = 1 /\ scanned' = 0 /\ intents' = <<>> /\ scanning'
      /\ decided' = <<>> /\ repository' # <<>>
  BY <1>1 DEF Begin, JInv, DecidedByRule
<1>3. Repository' = r
  BY <1>1 DEF Repository
<1>4. r.files \in Seq(ProjectFile) /\ r.findings \in Seq(ReportedCase)
  BY AdjudicationAssumption
<1>7. ScanIsFaithful'
  <2>1. Len(r.files) \in Nat /\ MaxIntentFiles \in Nat
    BY <1>4, AdjudicationAssumption
  <2> QED BY <1>2, <1>3, <2>1 DEF ScanIsFaithful
<1>8. DecidedByRule'
  BY <1>2, <1>3, <1>4 DEF DecidedByRule
<1> QED BY <1>1, <1>2, <1>7, <1>8 DEF JInv

(* What the scan has found is the beginning of what its files state.       *)
LEMMA IntentsAreABeginning ==
  ASSUME JInv, repository # <<>>
  PROVE  /\ intents = UpToLimit(StatedUpTo(place - 1)) /\ place - 1 \in 0 .. Len(Repository.files)
         /\ Len(Repository.files) \in Nat
         /\ intents \in Seq(IntentFact) /\ Len(intents) \in 0 .. MaxIntents
<1>1. /\ place \in 1 .. Len(Repository.files) + 1 /\ Repository.files \in Seq(ProjectFile)
      /\ intents = IF place = 1 THEN <<>> ELSE UpToLimit(StatedUpTo(place - 1))
  BY RepositoryFacts DEF JInv, ScanIsFaithful
<1>2. UpToLimit(<<>>) = <<>>
  BY AdjudicationAssumption DEF UpToLimit
<1>3. Len(Repository.files) \in Nat /\ place - 1 \in 0 .. Len(Repository.files)
  BY <1>1
<1>4. StatedUpTo(0) = <<>> /\ StatedUpTo(place - 1) \in Seq(IntentFact)
  BY <1>1, <1>3, StatedFacts
<1>5. intents = UpToLimit(StatedUpTo(place - 1))
  BY <1>1, <1>2, <1>4
<1>6. UpToLimit(StatedUpTo(place - 1)) \in Seq(IntentFact)
      /\ Len(UpToLimit(StatedUpTo(place - 1))) \in 0 .. MaxIntents
  BY <1>4, UpToLimitFacts, Zenon
<1> QED BY <1>3, <1>5, <1>6

(* The next file adds what it states, as far as the bound allows.          *)
LEMMA ScanFileKeepsJ == JInv /\ ScanFile => JInv'
<1> SUFFICES ASSUME JInv, ScanFile PROVE JInv'
  OBVIOUS
<1>1. /\ repository # <<>> /\ scanning /\ repository' = repository /\ scanning' /\ decided' = decided
      /\ place <= Len(Repository.files) /\ Len(intents) < MaxIntents /\ scanned < MaxIntentFiles
      /\ place' = place + 1
  BY DEF ScanFile
<1>2. decided = <<>> /\ scanned \in 0 .. MaxIntentFiles /\ place \in 1 .. Len(Repository.files) + 1
      /\ Repository.files \in Seq(ProjectFile)
  BY <1>1, RepositoryFacts DEF JInv, DecidedByRule, ScanIsFaithful
<1> DEFINE F == Repository.files
           said == StatedUpTo(place - 1)
           file == F[place]
<1>3. intents = UpToLimit(said) /\ place - 1 \in 0 .. Len(F) /\ Len(F) \in Nat /\ intents \in Seq(IntentFact)
  BY <1>1, IntentsAreABeginning
<1>4. place \in 1 .. Len(F) /\ place' \in 1 .. Len(F) + 1 /\ place' # 1 /\ place' - 1 = place
  BY <1>1, <1>2, <1>3
<1>5. said \in Seq(IntentFact) /\ StatedUpTo(place) = said \o StatedIn(place)
      /\ StatedUpTo(place) \in Seq(IntentFact)
  <2>1. place \in 0 .. Len(F)
    BY <1>4
  <2> QED BY <1>2, <1>3, <1>4, <2>1, StatedFacts
<1>6. intents = said
  <2> HIDE DEF said
  <2> QED BY <1>1, <1>3, <1>5, UpToLimitFacts
<1>7. intents' = UpToLimit(StatedUpTo(place))
  <2>1. CASE PassedOver(file)
    <3>1. intents' = intents /\ StatedIn(place) = <<>>
      BY <2>1 DEF ScanFile, StatedIn
    <3>2. StatedUpTo(place) = intents
      <4> HIDE DEF said
      <4> QED BY <1>5, <1>6, <3>1, ConcatEmptySeq
    <3>3. UpToLimit(intents) = intents
      BY <1>1, <1>3, AdjudicationAssumption DEF UpToLimit
    <3> QED BY <3>1, <3>2, <3>3
  <2>2. CASE ~PassedOver(file)
    BY <1>5, <1>6, <2>2 DEF ScanFile, StatedIn
  <2> QED BY <2>1, <2>2
<1>8. scanned' \in 0 .. MaxIntentFiles
  BY <1>1, <1>2, AdjudicationAssumption DEF ScanFile
<1>9. Repository' = Repository /\ StatedUpTo(place' - 1) = StatedUpTo(place)
  BY <1>1, <1>4 DEF Repository
<1>10. StatedUpTo(place - 1)' = StatedUpTo(place' - 1)
  BY <1>1 DEF StatedUpTo, StatedIn, PassedOver, Repository
<1>11. ScanIsFaithful'
  <2> HIDE DEF F, said, file
  <2> QED BY <1>1, <1>4, <1>7, <1>8, <1>9, <1>10 DEF ScanIsFaithful, F
<1>12. DecidedByRule'
  <2>1. Repository.findings \in Seq(ReportedCase)
    BY <1>1, RepositoryFacts
  <2>2. Len(<<>>) \in 0 .. Len(Repository.findings)
    BY <2>1
  <2>3. decided' = [i \in 1 .. Len(decided') |-> LabelFor(Repository.findings[i])']
    BY <1>1, <1>2
  <2> QED BY <1>1, <1>2, <1>9, <2>2, <2>3 DEF DecidedByRule
<1> QED BY <1>1, <1>11, <1>12 DEF JInv

(* The scan ends after the last file or at a bound.                        *)
LEMMA ScanEndsKeepsJ == JInv /\ ScanEnds => JInv'
<1> SUFFICES ASSUME JInv, ScanEnds PROVE JInv'
  OBVIOUS
<1>1. /\ repository # <<>> /\ repository' = repository /\ place' = place /\ scanned' = scanned
      /\ intents' = intents /\ decided' = decided /\ scanning /\ ~scanning'
      /\ \/ place > Len(Repository.files)
         \/ Len(intents) >= MaxIntents \/ scanned >= MaxIntentFiles
  BY DEF ScanEnds
<1>2. Repository' = Repository /\ \A n : StatedUpTo(n)' = StatedUpTo(n)
  BY <1>1, SameStatements
<1>3. /\ ScanIsFaithful /\ Len(intents) \in 0 .. MaxIntents /\ decided = <<>>
      /\ Repository.findings \in Seq(ReportedCase)
  BY <1>1, IntentsAreABeginning, RepositoryFacts DEF JInv, DecidedByRule
<1>4. StatedUpTo(place - 1)' = StatedUpTo(place - 1)
  BY <1>1 DEF StatedUpTo, StatedIn, PassedOver, Repository
<1>5. scanned >= MaxIntentFiles => scanned = MaxIntentFiles
  BY <1>1, <1>3, AdjudicationAssumption DEF ScanIsFaithful
<1>6. Len(intents) >= MaxIntents => Len(intents) = MaxIntents
  BY <1>3, AdjudicationAssumption
<1>7. ScanIsFaithful'
  BY <1>1, <1>2, <1>3, <1>4, <1>5, <1>6 DEF ScanIsFaithful
<1>8. DecidedByRule'
  BY <1>1, <1>2, <1>3 DEF DecidedByRule
<1> QED BY <1>1, <1>7, <1>8 DEF JInv

(* One more finding is decided, by what the whole scan has found.          *)
LEMMA DecideKeepsJ == JInv /\ Decide => JInv'
<1> SUFFICES ASSUME JInv, Decide PROVE JInv'
  OBVIOUS
<1> DEFINE n == Len(decided)
           label == LabelFor(Repository.findings[n + 1])
<1>1. /\ repository # <<>> /\ repository' = repository /\ place' = place /\ scanned' = scanned
      /\ intents' = intents /\ ~scanning /\ ~scanning' /\ n < Len(Repository.findings)
      /\ decided' = Append(decided, label)
  BY DEF Decide
<1>2. /\ Repository' = Repository /\ \A f : LabelFor(f)' = LabelFor(f)
  BY <1>1, SameStatements
<1>3. /\ ScanIsFaithful /\ DecidedByRule /\ Repository.findings \in Seq(ReportedCase)
  BY <1>1, RepositoryFacts DEF JInv
<1>4. StatedUpTo(place - 1)' = StatedUpTo(place - 1)
  BY <1>1 DEF StatedUpTo, StatedIn, PassedOver, Repository
<1>5. ScanIsFaithful'
  BY <1>1, <1>2, <1>3, <1>4 DEF ScanIsFaithful
<1>6. n \in Nat /\ decided = [i \in 1 .. n |-> LabelFor(Repository.findings[i])]
      /\ n + 1 \in 0 .. Len(Repository.findings)
  BY <1>1, <1>3 DEF DecidedByRule
<1> DEFINE longer == [i \in 1 .. n + 1 |-> LabelFor(Repository.findings[i])]
<1>7. decided' = longer /\ Len(decided') = n + 1
  <2> DEFINE L(i) == LabelFor(Repository.findings[i])
             S == {L(i) : i \in 1 .. n + 1}
  <2>1. \A i \in 1 .. n + 1 : L(i) \in S
    OBVIOUS
  <2>2. decided = [i \in 1 .. n |-> L(i)] /\ label = L(n + 1) /\ longer = [i \in 1 .. n + 1 |-> L(i)]
    BY <1>6
  <2> HIDE DEF L, n, label, longer, S
  <2>3. decided \in Seq(S) /\ Len(decided) = n /\ label \in S
    <3>1. \A i \in 1 .. n : L(i) \in S
      BY <1>6, <2>1
    <3>2. n + 1 \in 1 .. n + 1
      BY <1>6
    <3> QED BY <1>6, <2>1, <2>2, <3>1, <3>2
  <2>4. Append(decided, label) = [i \in 1 .. n + 1 |-> IF i = n + 1 THEN label ELSE decided[i]]
    BY <1>6, <2>3, AppendProperties
  <2>5. \A i \in 1 .. n + 1 : (IF i = n + 1 THEN label ELSE decided[i]) = L(i)
    BY <1>6, <2>2
  <2>6. Append(decided, label) = longer
    BY <2>2, <2>4, <2>5
  <2>7. Len(Append(decided, label)) = n + 1
    BY <2>3, AppendProperties
  <2> QED BY <1>1, <2>6, <2>7
<1>8. decided' = [i \in 1 .. n + 1 |-> LabelFor(Repository.findings[i])']
  <2> HIDE DEF n
  <2>1. \A i : LabelFor(Repository.findings[i])' = LabelFor(Repository.findings[i])
    BY <1>1 DEF LabelFor, FactsFor, Repository
  <2> QED BY <1>7, <2>1
<1>9. DecidedByRule'
  <2> HIDE DEF n, label, longer
  <2> QED BY <1>1, <1>2, <1>6, <1>7, <1>8 DEF DecidedByRule
<1> QED BY <1>1, <1>5, <1>9 DEF JInv

(* Every step keeps the invariant.                                         *)
LEMMA AdjudicationStep == JInv /\ [AdjudicationNext]_adjudicationVars => JInv'
<1> SUFFICES ASSUME JInv, [AdjudicationNext]_adjudicationVars PROVE JInv'
  OBVIOUS
<1>1. CASE UNCHANGED adjudicationVars
  <2>1. repository' = repository /\ place' = place /\ scanned' = scanned /\ intents' = intents
        /\ scanning' = scanning /\ decided' = decided
    BY <1>1 DEF adjudicationVars
  <2>2. Repository' = Repository
    BY <2>1 DEF Repository
  <2>3. ScanIsFaithful'
    <3>1. StatedUpTo(place - 1)' = StatedUpTo(place - 1)
      BY <2>1 DEF StatedUpTo, StatedIn, PassedOver, Repository
    <3> QED BY <2>1, <2>2, <3>1 DEF JInv, ScanIsFaithful
  <2>4. DecidedByRule'
    <3>1. \A i : LabelFor(Repository.findings[i])' = LabelFor(Repository.findings[i])
      BY <2>1 DEF LabelFor, FactsFor, Repository
    <3> QED BY <2>1, <2>2, <3>1 DEF JInv, DecidedByRule
  <2> QED BY <2>1, <2>3, <2>4 DEF JInv
<1> QED BY <1>1, BeginKeepsJ, ScanFileKeepsJ, ScanEndsKeepsJ, DecideKeepsJ DEF AdjudicationNext

(* The invariant holds throughout every adjudication.                      *)
THEOREM AdjudicationIsInvariant == AdjudicationSpec => []JInv
BY AdjudicationStarts, AdjudicationStep, PTL DEF AdjudicationSpec

-----------------------------------------------------------------------------
(* Each kind of intent has a place among the labels.                       *)
LEMMA PriorityOfKind ==
  ASSUME NEW kind \in IntentKinds
  PROVE  LabelPriority(IntentLabel(kind)) \in Nat
BY DEF IntentKinds, IntentLabel, LabelPriority

(* One of the facts speaks for all, and none outranks it.                  *)
LEMMA OneSpeaks ==
  ASSUME NEW X \in SUBSET IntentFact, X # {}
  PROVE  \E f \in X : /\ LabelFromIntents(X) = IntentLabel(f.kind)
                      /\ \A g \in X : LabelPriority(IntentLabel(f.kind)) <= LabelPriority(IntentLabel(g.kind))
<1> DEFINE rank(f) == LabelPriority(IntentLabel(f.kind))
           Ranks == {rank(f) : f \in X}
<1>1. \A f \in X : rank(f) \in Nat /\ f.line \in Nat
  BY PriorityOfKind DEF IntentFact
<1>2. PICK best \in X : \A g \in X : rank(best) <= rank(g)
  <2>1. Ranks \in SUBSET Nat /\ Ranks # {}
    BY <1>1
  <2>2. PICK r \in Ranks : \A q \in Ranks : r <= q
    <3> HIDE DEF Ranks
    <3> QED BY <2>1, LeastNatural, Zenon
  <2> QED BY <2>2
<1> DEFINE Best == {f \in X : rank(f) = rank(best)}
           Lines == {f.line : f \in Best}
<1>3. PICK first \in Best : \A g \in Best : first.line <= g.line
  <2>1. Lines \in SUBSET Nat /\ Lines # {}
    BY <1>1, <1>2
  <2>2. PICK r \in Lines : \A q \in Lines : r <= q
    <3> HIDE DEF Lines
    <3> QED BY <2>1, LeastNatural, Zenon
  <2> QED BY <2>2
<1> DEFINE Leads(f) == \A g \in X : Speaks(f, g)
           f == CHOOSE h \in X : Leads(h)
<1>4. \A h, g : Speaks(h, g) <=> rank(h) < rank(g) \/ (rank(h) = rank(g) /\ h.line <= g.line)
  BY DEF Speaks
<1>5. LabelFromIntents(X) = IntentLabel(f.kind)
  BY DEF LabelFromIntents
<1> HIDE DEF rank
<1>6. first \in X /\ Leads(first)
  BY <1>1, <1>2, <1>3, <1>4
<1>7. f \in X /\ Leads(f)
  <2> HIDE DEF Leads
  <2> QED BY <1>6
<1> HIDE DEF f
<1>8. \A g \in X : rank(f) <= rank(g)
  BY <1>1, <1>4, <1>7
<1> QED BY <1>5, <1>7, <1>8 DEF rank

(* The entries about a finding, and the first of them.                     *)
LEMMA FirstEntryDecides ==
  ASSUME NEW S, NEW entries \in Seq(S), NEW rule, NEW path
  PROVE  LET about    == {e \in ToSet(entries) : EntryMatches(e, rule, path)}
             declared == MatchingEntries(entries, rule, path)
         IN  /\ declared = <<>> <=> about = {}
             /\ declared # <<>> => Head(declared) \in about
<1> DEFINE P == {i \in DOMAIN entries : EntryMatches(entries[i], rule, path)}
           declared == AtPositions(entries, P)
           about == {e \in ToSet(entries) : EntryMatches(e, rule, path)}
<1>1. about = {entries[i] : i \in P}
  BY DEF ToSet
<1>2. /\ Cardinality(P) \in Nat /\ IsFiniteSet(P) /\ declared \in Seq(S) /\ Len(declared) = Cardinality(P)
      /\ \A i \in 1 .. Cardinality(P) : Nth(P, i) \in P /\ declared[i] = entries[Nth(P, i)]
  <2> HIDE DEF declared
  <2>1. P \in SUBSET DOMAIN entries /\ declared = AtPositions(entries, P)
    BY DEF declared
  <2> HIDE DEF P
  <2> QED BY <2>1, AtPositionsIsSubsequence
<1>3. MatchingEntries(entries, rule, path) = declared
  BY DEF MatchingEntries
<1> HIDE DEF declared, P, about
<1>4. P = {} <=> Cardinality(P) = 0
  BY <1>2, FS_EmptySet
<1>5. declared = <<>> <=> Len(declared) = 0
  BY <1>2
<1>6. declared # <<>> => Head(declared) = declared[1] /\ 1 \in 1 .. Cardinality(P)
  BY <1>2, <1>5
<1> QED BY <1>1, <1>2, <1>3, <1>4, <1>5, <1>6 DEF about

(* Of what is stated about a file the scan has heard all or some.          *)
LEMMA HeardOfFile ==
  ASSUME NEW path, intents \in Seq(IntentFact), Stated \in Seq(IntentFact), Begins(intents, Stated)
  PROVE  LET stated == {g \in ToSet(Stated) : Stripped(g.path) = Stripped(path)} IN
         /\ FactsFor(path) \subseteq stated /\ stated \subseteq IntentFact
         /\ Len(intents) = Len(Stated) => FactsFor(path) = stated
<1>1. /\ DOMAIN intents = 1 .. Len(intents) /\ DOMAIN Stated = 1 .. Len(Stated)
      /\ Len(intents) \in Nat /\ Len(Stated) \in Nat /\ Len(intents) <= Len(Stated)
      /\ \A k \in 1 .. Len(intents) : k \in 1 .. Len(Stated) /\ Stated[k] = intents[k]
  BY DEF Begins
<1>2. \A k \in 1 .. Len(Stated) : Stated[k] \in IntentFact
  OBVIOUS
<1> QED BY <1>1, <1>2 DEF FactsFor, ToSet

(* What it has heard is the beginning of all that is stated.               *)
LEMMA HeardInOrder ==
  ASSUME JInv, repository # <<>>
  PROVE  Begins(intents, Stated) /\ Stated \in Seq(IntentFact) /\ intents \in Seq(IntentFact)
<1> DEFINE said == StatedUpTo(place - 1)
           n == Len(Repository.files)
<1>1. /\ intents = UpToLimit(said) /\ place - 1 \in 0 .. n /\ n \in Nat
      /\ intents \in Seq(IntentFact) /\ Repository.files \in Seq(ProjectFile)
  BY IntentsAreABeginning, RepositoryFacts
<1>2. said \in Seq(IntentFact) /\ Begins(said, Stated) /\ Stated \in Seq(IntentFact)
  <2>1. n \in 0 .. n
    BY <1>1
  <2> QED BY <1>1, <2>1, StatedFacts DEF Stated
<1> HIDE DEF said, n
<1>3. Begins(intents, said)
  BY <1>1, <1>2, UpToLimitFacts, Zenon
<1>4. Begins(intents, Stated)
  BY <1>1, <1>2, <1>3 DEF Begins
<1> QED BY <1>1, <1>2, <1>4

(* At the end it lacks something only when it stopped at a bound.          *)
LEMMA ScanIsAlwaysABeginning == JInv => ScanIsABeginning
<1> SUFFICES ASSUME JInv, repository # <<>>, ~scanning PROVE ScanIsABeginning
  BY DEF ScanIsABeginning
<1> DEFINE said == StatedUpTo(place - 1)
           n == Len(Repository.files)
<1>1. /\ intents = UpToLimit(said) /\ place - 1 \in 0 .. n /\ n \in Nat
      /\ intents \in Seq(IntentFact) /\ Repository.files \in Seq(ProjectFile)
  BY IntentsAreABeginning, RepositoryFacts
<1>2. /\ place \in 1 .. n + 1
      /\ place > n \/ Len(intents) = MaxIntents \/ scanned = MaxIntentFiles
  BY DEF JInv, ScanIsFaithful
<1>3. said \in Seq(IntentFact) /\ Begins(said, Stated) /\ Stated \in Seq(IntentFact) /\ Stated = StatedUpTo(n)
  <2>1. n \in 0 .. n
    BY <1>1
  <2> QED BY <1>1, <2>1, StatedFacts DEF Stated
<1> HIDE DEF said, n
<1>4. Begins(intents, said) /\ (Len(intents) < Len(said) => Len(intents) = MaxIntents)
  BY <1>1, <1>3, UpToLimitFacts, Zenon
<1>5. Begins(intents, Stated)
  BY HeardInOrder
<1>6. IsPrefix(intents, Stated)
  <2>1. ASSUME NEW s \in Seq(IntentFact), NEW t \in Seq(IntentFact), Begins(s, t)
        PROVE  Len(s) <= Len(t) /\ SubSeq(s, 1, Len(s)) = SubSeq(t, 1, Len(s))
    <3>1. Len(s) \in Nat /\ Len(t) \in Nat /\ Len(s) <= Len(t) /\ \A k \in 1 .. Len(s) : t[k] = s[k]
      BY <2>1 DEF Begins
    <3>2. SubSeq(s, 1, Len(s)) = [k \in 1 .. Len(s) |-> s[k]]
          /\ SubSeq(t, 1, Len(s)) = [k \in 1 .. Len(s) |-> t[k]]
      BY <3>1
    <3> QED BY <3>1, <3>2
  <2> QED BY <1>1, <1>3, <1>5, <2>1 DEF IsPrefix
<1>7. Len(intents) < Len(Stated) => Len(intents) = MaxIntents \/ scanned = MaxIntentFiles
  <2>1. CASE place > n
    <3>1. place - 1 = n
      BY <1>1, <1>2, <2>1
    <3>2. said = Stated
      BY <1>3, <3>1 DEF said
    <3> QED BY <1>4, <3>2
  <2> QED BY <1>2, <2>1
<1> QED BY <1>6, <1>7 DEF ScanIsABeginning

(* The label that the rule gives is earned.                                *)
LEMMA LabelIsEarned ==
  ASSUME JInv, repository # <<>>, NEW finding \in ReportedCase, NEW label, label = LabelFor(finding)
  PROVE  LET about == {e \in ToSet(Repository.entries) : EntryMatches(e, finding.rule, finding.path)}
             said  == {IntentLabel(f.kind) :
                         f \in {g \in ToSet(Stated) : Stripped(g.path) = Stripped(finding.path)}}
         IN  /\ label # "actionable" =>
                  \/ label \in {e.label : e \in about}
                  \/ about = {} /\ label \in said
                  \/ about = {} /\ (finding.risky \/ finding.unreachable)
             /\ (about = {} /\ said # {} /\ Len(intents) = Len(Stated)) =>
                  label \in said /\ \A l \in said : LabelPriority(label) <= LabelPriority(l)
<1> DEFINE declared == MatchingEntries(Repository.entries, finding.rule, finding.path)
           facts    == FactsFor(finding.path)
           about    == {e \in ToSet(Repository.entries) : EntryMatches(e, finding.rule, finding.path)}
           stated   == {g \in ToSet(Stated) : Stripped(g.path) = Stripped(finding.path)}
           said     == {IntentLabel(f.kind) : f \in stated}
<1>1. /\ declared = <<>> <=> about = {}
      /\ declared # <<>> => Head(declared) \in about
  <2>1. Repository.entries \in Seq(DeclaredIntent)
    BY RepositoryFacts
  <2> QED BY <2>1, FirstEntryDecides
<1>2. /\ facts \subseteq stated /\ stated \subseteq IntentFact
      /\ Len(intents) = Len(Stated) => facts = stated
  BY HeardInOrder, HeardOfFile
<1>3. facts # {} => \E f \in facts : /\ LabelFromIntents(facts) = IntentLabel(f.kind)
                                     /\ \A g \in facts : LabelPriority(IntentLabel(f.kind))
                                                           <= LabelPriority(IntentLabel(g.kind))
  <2>1. facts \in SUBSET IntentFact
    BY <1>2
  <2> HIDE DEF facts
  <2> QED BY <2>1, OneSpeaks
<1>4. /\ declared # <<>> => label = Head(declared).label
      /\ declared = <<>> /\ facts # {} => label = LabelFromIntents(facts)
      /\ declared = <<>> /\ facts = {} =>
           label = "actionable" \/ finding.risky \/ finding.unreachable
  BY DEF LabelFor
<1> HIDE DEF declared, facts, about, stated
<1>5. label # "actionable" =>
        \/ label \in {e.label : e \in about}
        \/ about = {} /\ label \in said
        \/ about = {} /\ (finding.risky \/ finding.unreachable)
  <2>1. CASE declared # <<>>
    BY <1>1, <1>4, <2>1
  <2>2. CASE declared = <<>> /\ facts # {}
    BY <1>1, <1>2, <1>3, <1>4, <2>2
  <2>3. CASE declared = <<>> /\ facts = {}
    BY <1>1, <1>4, <2>3
  <2> QED BY <2>1, <2>2, <2>3
<1>6. ASSUME about = {}, said # {}, Len(intents) = Len(Stated)
      PROVE  label \in said /\ \A l \in said : LabelPriority(label) <= LabelPriority(l)
  <2>1. facts = stated /\ facts # {} /\ declared = <<>>
    BY <1>1, <1>2, <1>6
  <2>2. PICK f \in stated : /\ label = IntentLabel(f.kind)
                            /\ \A g \in stated : LabelPriority(label) <= LabelPriority(IntentLabel(g.kind))
    BY <1>3, <1>4, <2>1
  <2> QED BY <2>2
<1> QED BY <1>5, <1>6 DEF about, stated

(* The invariant implies the property.                                     *)
LEMMA JInvEarnsDecisions == JInv => DecisionsAreEarned
<1> SUFFICES ASSUME JInv PROVE DecisionsAreEarned
  OBVIOUS
<1>1. ScanIsABeginning
  BY ScanIsAlwaysABeginning
<1>2. ASSUME NEW i \in DOMAIN decided
      PROVE  /\ repository # <<>> /\ Repository.findings[i] \in ReportedCase
             /\ decided[i] = LabelFor(Repository.findings[i])
  <2>1. repository # <<>>
    <3>1. DOMAIN <<>> = {}
      OBVIOUS
    <3> QED BY <1>2, <3>1 DEF JInv, DecidedByRule
  <2>2. /\ Len(decided) \in 0 .. Len(Repository.findings)
        /\ decided = [k \in 1 .. Len(decided) |-> LabelFor(Repository.findings[k])]
        /\ Repository.findings \in Seq(ReportedCase)
    BY <2>1, RepositoryFacts DEF JInv, DecidedByRule
  <2>3. i \in 1 .. Len(decided) /\ i \in 1 .. Len(Repository.findings)
    <3> DEFINE m == Len(decided)
    <3>1. DOMAIN decided = 1 .. m
      BY <2>2
    <3>2. Len(Repository.findings) \in Nat
      BY <2>2
    <3> HIDE DEF m
    <3> QED BY <1>2, <2>2, <3>1, <3>2 DEF m
  <2> QED BY <2>1, <2>2, <2>3
<1> QED BY <1>1, <1>2, LabelIsEarned DEF DecisionsAreEarned

(* Whatever the files, their order and the bounds, a finding is kept from  *)
(* the actionable ones only by an entry about it, by a text of its own     *)
(* file or by its own rule, and what its file says is heard, the strongest *)
(* intent first, unless the scan stopped at a bound.                       *)
THEOREM DecisionsAreAlwaysEarned == AdjudicationSpec => []DecisionsAreEarned
BY AdjudicationIsInvariant, JInvEarnsDecisions, PTL

-----------------------------------------------------------------------------

(* A project the analyses can be given.                                    *)
ProjectIsTyped ==
  /\ project.ops \in Seq(OperationRecord)
  /\ project.types \subseteq TypeRecord /\ IsFiniteSet(project.types)

(* The operations are finitely many numbers, and so is what is chosen of   *)
(* them.                                                                   *)
LEMMA OpsAreFinite ==
  ASSUME ProjectIsTyped
  PROVE  /\ Ops \subseteq Nat /\ IsFiniteSet(Ops) /\ \A a \in Ops : Op[a] \in OperationRecord
         /\ Facts \subseteq Ops /\ IsFiniteSet(Facts)
         /\ Groups \subseteq Facts /\ \A g : Siblings(g) \subseteq Facts
<1> DEFINE n == Len(project.ops)
<1>1. n \in Nat /\ Ops = 1 .. n /\ \A a \in Ops : Op[a] \in OperationRecord
  BY DEF ProjectIsTyped, Ops, Op
<1> HIDE DEF n
<1>2. IsFiniteSet(Ops) /\ Ops \subseteq Nat
  BY <1>1, FS_Interval
<1>3. Facts \subseteq Ops
  BY DEF Facts
<1>4. IsFiniteSet(Facts)
  BY <1>2, <1>3, FS_Subset
<1>5. Groups \subseteq Facts /\ \A g : Siblings(g) \subseteq Facts
  BY DEF Groups, Siblings
<1> QED BY <1>1, <1>2, <1>3, <1>4, <1>5

(* Different keys that are pairs of numbers put elements in order.         *)
LEMMA PrecedesIsStrictOrder ==
  ASSUME NEW S, NEW f \in [S -> Nat \X Nat], \A x, y \in S : f[x] = f[y] => x = y
  PROVE  IsStrictOrder(S, {x \in S \X S : Precedes(f[x[1]], f[x[2]])})
<1> DEFINE R == {x \in S \X S : Precedes(f[x[1]], f[x[2]])}
<1>1. \A x, y \in S : <<x, y>> \in R <=> Precedes(f[x], f[y])
  OBVIOUS
<1>2. \A x \in S : /\ f[x] \in Nat \X Nat /\ f[x] = <<f[x][1], f[x][2]>>
                   /\ f[x][1] \in Nat /\ f[x][2] \in Nat
  OBVIOUS
<1> HIDE DEF R
<1>3. \A x \in S : <<x, x>> \notin R
  BY <1>1, <1>2 DEF Precedes
<1>4. ASSUME NEW x \in S, NEW y \in S, x # y PROVE <<x, y>> \in R \/ <<y, x>> \in R
  <2>1. f[x] # f[y]
    BY <1>4
  <2>2. f[x][1] # f[y][1] \/ f[x][2] # f[y][2]
    BY <2>1, <1>2
  <2> QED BY <2>2, <1>1, <1>2 DEF Precedes
<1>5. ASSUME NEW x \in S, NEW y \in S, NEW z \in S, <<x, y>> \in R, <<y, z>> \in R
      PROVE  <<x, z>> \in R
  BY <1>1, <1>2, <1>5 DEF Precedes
<1> QED BY <1>3, <1>4, <1>5 DEF IsStrictOrder, R

(* The number of halvings is a number.                                     *)
LEMMA DepthIsNatural ==
  ASSUME NEW k, NEW n \in Nat
  PROVE  Depth(k, n) \in Nat
<1> DEFINE range[i \in 0 .. n] ==
             IF i = 0 THEN <<0, n>>
             ELSE LET last == range[i - 1] IN IF Middle(last) = k THEN last ELSE Half(last, k)
           T == {i \in 0 .. n : Middle(range[i]) # k}
<1>1. Depth(k, n) = Cardinality(T)
  BY DEF Depth
<1> HIDE DEF range
<1>2. IsFiniteSet(0 .. n)
  BY FS_Interval
<1>3. IsFiniteSet(T)
  BY <1>2, FS_Subset
<1> QED BY <1>1, <1>3, FS_CardinalityType

(* The bisection order meets every item.                                   *)
LEMMA MidpointOrderIsWhole ==
  ASSUME NEW items \in SUBSET Nat, IsFiniteSet(items)
  PROVE  /\ Cardinality(items) \in Nat /\ MidpointOrder(items) \in Seq(items)
         /\ Len(MidpointOrder(items)) = Cardinality(items)
         /\ \A n \in items : \E k \in 1 .. Cardinality(items) : MidpointOrder(items)[k] = n
<1> DEFINE met(n) == <<Depth(Cardinality(Before(items, n)), Cardinality(items)), n>>
           f == [n \in items |-> met(n)]
           R == {x \in items \X items : Precedes(f[x[1]], f[x[2]])}
<1>1. Cardinality(items) \in Nat
  BY FS_CardinalityType
<1>2. \A n \in items : met(n) \in Nat \X Nat
  BY <1>1, DepthIsNatural
<1>3. f \in [items -> Nat \X Nat] /\ \A x, y \in items : f[x] = f[y] => x = y
  <2>1. \A n \in items : f[n] = met(n) /\ met(n)[2] = n
    OBVIOUS
  <2> HIDE DEF met
  <2> QED BY <1>2, <2>1
<1>4. R = {x \in items \X items : Precedes(met(x[1]), met(x[2]))}
  <2> HIDE DEF met
  <2> QED OBVIOUS
<1>5. MidpointOrder(items) = Sorted(items, R)
  BY <1>4 DEF MidpointOrder
<1> HIDE DEF f
<1>6. IsStrictOrder(items, R)
  BY <1>3, PrecedesIsStrictOrder
<1> HIDE DEF R
<1> QED BY <1>5, <1>6, SortedListsTheSet

(* The files of a set of facts.                                            *)
LEMMA FilesAreFinite ==
  ASSUME NEW groups, IsFiniteSet(groups), \A g \in groups : Op[g].file \in Nat
  PROVE  IsFiniteSet({Op[g].file : g \in groups}) /\ {Op[g].file : g \in groups} \in SUBSET Nat
<1> DEFINE F == {Op[g].file : g \in groups}
           f == [g \in groups |-> Op[g].file]
<1>1. f \in Surjection(groups, F)
  BY DEF Surjection
<1>2. IsFiniteSet(F)
  BY <1>1, FS_Surjection
<1> QED BY <1>2

(* One scope of each file in turn: every group has its turn.               *)
LEMMA SpreadIsWhole ==
  ASSUME NEW groups \in SUBSET Nat, IsFiniteSet(groups), \A g \in groups : Op[g].file \in Nat
  PROVE  /\ Spread(groups) \in Seq(groups)
         /\ \A g \in groups : \E r \in 1 .. Len(Spread(groups)) : Spread(groups)[r] = g
<1> DEFINE F       == {Op[g].file : g \in groups}
           files   == MidpointOrder(F)
           of(f)   == {g \in groups : Op[g].file = f}
           scopes  == [k \in DOMAIN files |-> MidpointOrder(of(files[k]))]
           turns   == UNION {{<<i, k>> : i \in DOMAIN scopes[k]} : k \in DOMAIN files}
           order   == {x \in turns \X turns : Precedes(x[1], x[2])}
           rounds  == Sorted(turns, order)
           N       == Cardinality(groups)
           M       == Cardinality(F)
<1>1. IsFiniteSet(F) /\ F \in SUBSET Nat
  BY FilesAreFinite
<1>2. /\ M \in Nat /\ files \in Seq(F) /\ Len(files) = M
      /\ \A f \in F : \E k \in 1 .. M : files[k] = f
  <2> HIDE DEF F
  <2> QED BY <1>1, MidpointOrderIsWhole
<1>3. ASSUME NEW f
      PROVE  /\ of(f) \in SUBSET Nat /\ IsFiniteSet(of(f)) /\ Cardinality(of(f)) \in Nat
             /\ Cardinality(of(f)) <= N
             /\ MidpointOrder(of(f)) \in Seq(of(f))
             /\ Len(MidpointOrder(of(f))) = Cardinality(of(f))
             /\ \A g \in of(f) : \E i \in 1 .. Cardinality(of(f)) : MidpointOrder(of(f))[i] = g
  <2>1. of(f) \in SUBSET groups /\ of(f) \in SUBSET Nat
    OBVIOUS
  <2> HIDE DEF of
  <2>2. IsFiniteSet(of(f)) /\ Cardinality(of(f)) <= N
    BY <2>1, FS_Subset
  <2> QED BY <2>1, <2>2, MidpointOrderIsWhole
<1>4. N \in Nat
  BY FS_CardinalityType
<1>5. DOMAIN files = 1 .. M
  BY <1>2
<1> HIDE DEF files, M, N, F
<1>6. ASSUME NEW k \in 1 .. M
      PROVE  /\ scopes[k] \in Seq(of(files[k])) /\ DOMAIN scopes[k] = 1 .. Len(scopes[k])
             /\ Len(scopes[k]) \in 0 .. N
             /\ \A g \in of(files[k]) : \E i \in 1 .. Len(scopes[k]) : scopes[k][i] = g
  <2>1. scopes[k] = MidpointOrder(of(files[k]))
    BY <1>5
  <2> HIDE DEF scopes, of
  <2> QED BY <2>1, <1>3, <1>4
<1> HIDE DEF scopes
<1>7. /\ turns \in SUBSET ((1 .. N) \X (1 .. M))
      /\ \A x \in turns : x[2] \in 1 .. M /\ x[1] \in 1 .. Len(scopes[x[2]])
      /\ \A k \in 1 .. M : \A i \in 1 .. Len(scopes[k]) : <<i, k>> \in turns
  <2>1. ASSUME NEW x \in turns
        PROVE  x \in (1 .. N) \X (1 .. M) /\ x[2] \in 1 .. M /\ x[1] \in 1 .. Len(scopes[x[2]])
    <3>1. PICK k \in 1 .. M : x \in {<<i, k>> : i \in DOMAIN scopes[k]}
      BY <1>5
    <3>2. PICK i \in 1 .. Len(scopes[k]) : x = <<i, k>>
      <4> HIDE DEF of
      <4> QED BY <3>1, <1>6
    <3>3. i \in 1 .. N
      <4>1. Len(scopes[k]) \in 0 .. N
        BY <1>6
      <4> QED BY <4>1, <1>4
    <3> QED BY <3>2, <3>3
  <2>2. ASSUME NEW k \in 1 .. M, NEW i \in 1 .. Len(scopes[k]) PROVE <<i, k>> \in turns
    <3>1. i \in DOMAIN scopes[k]
      BY <1>6
    <3> QED BY <3>1, <1>5
  <2> HIDE DEF turns
  <2> QED BY <2>1, <2>2
<1> HIDE DEF turns
<1>8. IsFiniteSet(turns)
  <2>1. IsFiniteSet(1 .. N) /\ IsFiniteSet(1 .. M)
    BY <1>2, <1>4, FS_Interval
  <2>2. IsFiniteSet((1 .. N) \X (1 .. M))
    BY <2>1, FS_Product
  <2> QED BY <1>7, <2>2, FS_Subset
<1>9. IsStrictOrder(turns, order)
  <2> DEFINE f == [x \in turns |-> x]
             R == {x \in turns \X turns : Precedes(f[x[1]], f[x[2]])}
  <2>1. f \in [turns -> Nat \X Nat] /\ \A x, y \in turns : f[x] = f[y] => x = y
    BY <1>7, <1>2, <1>4
  <2>2. R = order
    OBVIOUS
  <2> HIDE DEF f, order
  <2>3. IsStrictOrder(turns, R)
    BY <2>1, PrecedesIsStrictOrder
  <2> QED BY <2>2, <2>3
<1> HIDE DEF order
<1>10. /\ rounds \in Seq(turns) /\ Len(rounds) \in Nat /\ DOMAIN rounds = 1 .. Len(rounds)
       /\ \A x \in turns : \E r \in 1 .. Len(rounds) : rounds[r] = x
  <2>1. /\ Cardinality(turns) \in Nat /\ rounds \in Seq(turns) /\ Len(rounds) = Cardinality(turns)
        /\ \A x \in turns : \E r \in 1 .. Cardinality(turns) : rounds[r] = x
    BY <1>8, <1>9, SortedListsTheSet
  <2> HIDE DEF rounds
  <2> QED BY <2>1
<1>11. Spread(groups) = [r \in DOMAIN rounds |-> scopes[rounds[r][2]][rounds[r][1]]]
  BY DEF Spread, rounds, order, turns, scopes, files, F
<1> HIDE DEF rounds
<1>12. ASSUME NEW r \in 1 .. Len(rounds)
       PROVE  scopes[rounds[r][2]][rounds[r][1]] \in groups
  <2>1. rounds[r] \in turns
    BY <1>10
  <2>2. rounds[r][2] \in 1 .. M /\ rounds[r][1] \in 1 .. Len(scopes[rounds[r][2]])
    BY <2>1, <1>7
  <2>3. scopes[rounds[r][2]][rounds[r][1]] \in of(files[rounds[r][2]])
    <3> HIDE DEF of
    <3> QED BY <2>2, <1>6
  <2> QED BY <2>3
<1>13. Spread(groups) \in Seq(groups) /\ Len(Spread(groups)) = Len(rounds)
  BY <1>10, <1>11, <1>12
<1>14. ASSUME NEW g \in groups
       PROVE  \E r \in 1 .. Len(rounds) : Spread(groups)[r] = g
  <2>1. Op[g].file \in F /\ g \in of(Op[g].file)
    BY DEF F
  <2>2. PICK k \in 1 .. M : files[k] = Op[g].file
    BY <2>1, <1>2
  <2>3. PICK i \in 1 .. Len(scopes[k]) : scopes[k][i] = g
    <3> HIDE DEF of
    <3> QED BY <2>1, <2>2, <1>6
  <2>4. PICK r \in 1 .. Len(rounds) : rounds[r] = <<i, k>>
    <3>1. <<i, k>> \in turns
      BY <1>7
    <3> QED BY <3>1, <1>10
  <2> QED BY <2>3, <2>4, <1>10, <1>11
<1> QED BY <1>13, <1>14

(* All groups have their turn, those with a cleanup before the others.     *)
LEMMA GroupOrderIsWhole ==
  ASSUME ProjectIsTyped
  PROVE  /\ GroupOrder \in Seq(Groups) /\ Len(GroupOrder) \in Nat
         /\ \E m \in 0 .. Len(GroupOrder) :
              \A i \in 1 .. Len(GroupOrder) : i <= m <=> HasCleanup(GroupOrder[i])
         /\ \A g \in Groups : \E i \in 1 .. Len(GroupOrder) : GroupOrder[i] = g
<1> DEFINE C == {g \in Groups : HasCleanup(g)}
           D == Groups \ C
           s == Spread(C)
           t == Spread(D)
<1>1. /\ Groups \in SUBSET Nat /\ IsFiniteSet(Groups)
      /\ \A g \in Groups : Op[g].file \in Nat
  <2>1. Groups \subseteq Ops /\ Groups \subseteq Nat /\ IsFiniteSet(Groups)
    BY OpsAreFinite, FS_Subset
  <2>2. \A g \in Groups : Op[g] \in OperationRecord
    BY <2>1, OpsAreFinite
  <2> QED BY <2>1, <2>2 DEF OperationRecord
<1>2. IsFiniteSet(C) /\ IsFiniteSet(D)
  BY <1>1, FS_Subset
<1>3. s \in Seq(C) /\ \A g \in C : \E r \in 1 .. Len(s) : s[r] = g
  BY <1>1, <1>2, SpreadIsWhole
<1>4. t \in Seq(D) /\ \A g \in D : \E r \in 1 .. Len(t) : t[r] = g
  BY <1>1, <1>2, SpreadIsWhole
<1>5. GroupOrder = s \o t
  BY DEF GroupOrder
<1>6. C \subseteq Groups /\ D \subseteq Groups
      /\ (\A g \in C : HasCleanup(g)) /\ (\A g \in D : ~HasCleanup(g))
      /\ \A g \in Groups : g \in C \/ g \in D
  OBVIOUS
<1> HIDE DEF s, t, C, D
<1>7. /\ Len(s) \in Nat /\ Len(t) \in Nat /\ s \o t \in Seq(Groups) /\ Len(s \o t) = Len(s) + Len(t)
      /\ \A i \in 1 .. Len(s) + Len(t) :
           (s \o t)[i] = IF i <= Len(s) THEN s[i] ELSE t[i - Len(s)]
  <2>1. s \in Seq(Groups) /\ t \in Seq(Groups)
    BY <1>3, <1>4, <1>6
  <2> QED BY <2>1
<1>8. \A i \in 1 .. Len(s) + Len(t) : i <= Len(s) <=> HasCleanup((s \o t)[i])
  <2> TAKE i \in 1 .. Len(s) + Len(t)
  <2>1. CASE i <= Len(s)
    <3>1. (s \o t)[i] = s[i] /\ s[i] \in C
      BY <1>3, <1>7, <2>1
    <3> QED BY <2>1, <3>1, <1>6
  <2>2. CASE ~(i <= Len(s))
    <3>1. (s \o t)[i] = t[i - Len(s)] /\ i - Len(s) \in 1 .. Len(t)
      BY <1>7, <2>2
    <3>2. t[i - Len(s)] \in D
      BY <1>4, <3>1
    <3> QED BY <2>2, <3>1, <3>2, <1>6
  <2> QED BY <2>1, <2>2
<1>9. ASSUME NEW g \in Groups
      PROVE  \E i \in 1 .. Len(s) + Len(t) : (s \o t)[i] = g
  <2>1. CASE g \in C
    <3>1. PICK r \in 1 .. Len(s) : s[r] = g
      BY <1>3, <2>1
    <3> QED BY <3>1, <1>7
  <2>2. CASE g \in D
    <3>1. PICK r \in 1 .. Len(t) : t[r] = g
      BY <1>4, <2>2
    <3>2. Len(s) + r \in 1 .. Len(s) + Len(t) /\ (s \o t)[Len(s) + r] = t[r]
      BY <1>7
    <3> QED BY <3>1, <3>2
  <2> QED BY <2>1, <2>2, <1>6
<1>10. Len(s) \in 0 .. Len(s) + Len(t)
  BY <1>7
<1>11. GroupOrder \in Seq(Groups) /\ Len(GroupOrder) = Len(s) + Len(t)
  BY <1>5, <1>7
<1>12. \A i \in 1 .. Len(GroupOrder) : i <= Len(s) <=> HasCleanup(GroupOrder[i])
  BY <1>5, <1>8, <1>11
<1>13. \A g \in Groups : \E i \in 1 .. Len(GroupOrder) : GroupOrder[i] = g
  BY <1>5, <1>9, <1>11
<1>14. \E m \in 0 .. Len(GroupOrder) :
         \A i \in 1 .. Len(GroupOrder) : i <= m <=> HasCleanup(GroupOrder[i])
  <2>1. Len(s) \in 0 .. Len(GroupOrder)
    BY <1>10, <1>11
  <2> QED BY <2>1, <1>12, Zenon
<1>15. Len(GroupOrder) \in Nat
  BY <1>7, <1>11
<1> QED BY <1>11, <1>13, <1>14, <1>15

(* Facts that fit still fit when some are left out.                        *)
LEMMA FewerFactsFit ==
  ASSUME ProjectIsTyped, NEW bySize, NEW B \in SUBSET Facts, NEW A \in SUBSET B, Fits(B, bySize)
  PROVE  Fits(A, bySize)
<1> DEFINE types(X) == {t \in project.types : t.op \in X}
<1>1. IsFiniteSet(B) /\ IsFiniteSet(A) /\ Cardinality(A) <= Cardinality(B)
      /\ Cardinality(A) \in Nat /\ Cardinality(B) \in Nat
  <2>1. IsFiniteSet(B)
    BY OpsAreFinite, FS_Subset
  <2>2. IsFiniteSet(A) /\ Cardinality(A) <= Cardinality(B)
    BY <2>1, FS_Subset
  <2> QED BY <2>1, <2>2, FS_CardinalityType
<1>2. types(A) \in SUBSET types(B) /\ IsFiniteSet(types(B))
  BY FS_Subset DEF ProjectIsTyped
<1> HIDE DEF types
<1>3. Cardinality(types(A)) <= Cardinality(types(B)) /\ Cardinality(types(A)) \in Nat
      /\ Cardinality(types(B)) \in Nat
  BY <1>2, FS_Subset, FS_CardinalityType
<1>4. Size(A) <= Size(B) /\ Size(A) \in Nat /\ Size(B) \in Nat
  BY <1>1, <1>3 DEF Size, types
<1> QED BY <1>1, <1>4, ReaderAssumption DEF Fits

Grown(X, g, bySize) == IF Fits(X \cup Siblings(g), bySize) THEN X \cup Siblings(g) ELSE X

(* The loop over the groups has a value after each of them.                *)
LEMMA TakenIsALoop ==
  ASSUME ProjectIsTyped, NEW bySize
  PROVE  \E f \in [0 .. Len(GroupOrder) -> SUBSET Facts] :
           /\ f[0] = {} /\ \A i \in 1 .. Len(GroupOrder) : f[i] = Grown(f[i - 1], GroupOrder[i], bySize)
           /\ Taken(bySize) = f[Len(GroupOrder)]
<1> DEFINE order == GroupOrder
           n == Len(order)
           turn == [i \in 1 .. n |-> [X \in SUBSET Facts |-> Grown(X, order[i], bySize)]]
           Value(f) == f = [i \in 0 .. n |-> IF i = 0 THEN {} ELSE Grown(f[i - 1], order[i], bySize)]
<1>1. n \in Nat
  BY GroupOrderIsWhole
<1>2. Taken(bySize) = (CHOOSE f : Value(f))[n]
  BY DEF Taken, Grown
<1>3. \A i \in 1 .. n : \A X \in SUBSET Facts : Grown(X, order[i], bySize) \in SUBSET Facts
  BY OpsAreFinite DEF Grown
<1> HIDE DEF n, order
<1>4. turn \in [1 .. n -> [SUBSET Facts -> SUBSET Facts]]
  BY <1>3
<1>5. PICK g \in [0 .. n -> SUBSET Facts] : IsLoop(g, n, {}, turn)
  <2> HIDE DEF turn
  <2>1. {} \in SUBSET Facts
    OBVIOUS
  <2> QED BY <1>1, <1>4, <2>1, LoopIsDefined, Zenon
<1>6. Value(g)
  <2>1. \A i \in 0 .. n : i # 0 => i \in 1 .. n /\ i - 1 \in 0 .. n
    BY <1>1
  <2>2. \A i \in 0 .. n : g[i] = IF i = 0 THEN {} ELSE Grown(g[i - 1], order[i], bySize)
    BY <1>5, <2>1 DEF IsLoop
  <2>3. g = [i \in 0 .. n |-> g[i]]
    BY <1>5
  <2> QED BY <2>2, <2>3
<1> DEFINE f == CHOOSE h : Value(h)
<1>7. Value(f)
  <2> HIDE DEF Value
  <2> QED BY <1>6
<1> HIDE DEF f
<1>8. f[0] = {} /\ \A i \in 1 .. n : f[i] = Grown(f[i - 1], order[i], bySize)
  <2>1. 0 \in 0 .. n /\ \A i \in 1 .. n : i \in 0 .. n /\ i # 0
    BY <1>1
  <2> QED BY <1>7, <2>1
<1>9. f \in [0 .. n -> SUBSET Facts]
  <2>1. f = [i \in 0 .. n |-> f[i]]
    BY <1>7
  <2> DEFINE T == {i \in 0 .. n : f[i] \notin SUBSET Facts}
  <2>2. ASSUME T # {} PROVE FALSE
    <3>1. T \in SUBSET Nat
      OBVIOUS
    <3> HIDE DEF T
    <3>2. PICK i \in T : \A k \in T : i <= k
      BY <2>2, <3>1, LeastNatural, Zenon
    <3>3. i \in 0 .. n /\ f[i] \notin SUBSET Facts
      BY <3>2 DEF T
    <3>4. i # 0
      BY <3>3, <1>8
    <3>5. i - 1 \in 0 .. n /\ i \in 1 .. n /\ ~(i <= i - 1)
      BY <3>3, <3>4, <1>1
    <3>6. f[i - 1] \in SUBSET Facts
      BY <3>2, <3>5 DEF T
    <3>7. f[i] = Grown(f[i - 1], order[i], bySize)
      BY <3>5, <1>8
    <3>8. Grown(f[i - 1], order[i], bySize) \in SUBSET Facts
      BY <3>5, <3>6, <1>3
    <3> QED BY <3>3, <3>7, <3>8
  <2> QED BY <2>1, <2>2
<1>10. Taken(bySize) = f[n]
  BY <1>2 DEF f
<1> QED BY <1>8, <1>9, <1>10 DEF n, order

(* What the loop takes: whole scopes that fit, and each scope with a       *)
(* cleanup unless those with a cleanup are too many with it.               *)
LEMMA TakenIsWhole ==
  ASSUME ProjectIsTyped, NEW bySize
  PROVE  /\ Taken(bySize) \in SUBSET Facts
         /\ Taken(bySize) = UNION {Siblings(a) : a \in Taken(bySize)}
         /\ Fits(Taken(bySize), bySize)
         /\ \A g \in Groups \ Taken(bySize) :
              HasCleanup(g) => ~Fits({a \in Taken(bySize) : HasCleanup(a)} \cup Siblings(g), bySize)
<1> DEFINE order == GroupOrder
           n == Len(order)
<1>1. /\ n \in Nat /\ \A i \in 1 .. n : order[i] \in Groups
      /\ \A g \in Groups : \E i \in 1 .. n : order[i] = g
  BY GroupOrderIsWhole
<1>2. PICK m \in 0 .. n : \A i \in 1 .. n : i <= m <=> HasCleanup(order[i])
  BY GroupOrderIsWhole
<1>3. PICK f \in [0 .. n -> SUBSET Facts] :
        /\ f[0] = {} /\ \A i \in 1 .. n : f[i] = Grown(f[i - 1], order[i], bySize)
        /\ Taken(bySize) = f[n]
  BY TakenIsALoop
<1> HIDE DEF order, n
<1> DEFINE Whole(X)  == X = UNION {Siblings(a) : a \in X}
           Good(i)   == /\ Whole(f[i]) /\ Fits(f[i], bySize)
                        /\ i <= m => \A a \in f[i] : HasCleanup(a)
                        /\ \A j \in 0 .. n : j <= i => f[j] \subseteq f[i]
           T == {i \in 0 .. n : ~Good(i)}
<1>4. ASSUME NEW g \in Groups
      PROVE  /\ g \in Siblings(g) /\ Siblings(g) \in SUBSET Facts
             /\ \A a \in Siblings(g) : Siblings(a) = Siblings(g) /\ (HasCleanup(a) <=> HasCleanup(g))
  <2>1. g \in Siblings(g) /\ Siblings(g) \in SUBSET Facts
    BY OpsAreFinite DEF Siblings
  <2>2. \A a \in Siblings(g) : Siblings(a) = Siblings(g)
    BY DEF Siblings
  <2> QED BY <2>1, <2>2 DEF HasCleanup
<1>5. Fits({}, bySize)
  <2>1. {t \in project.types : t.op \in {}} = {} /\ Cardinality({}) = 0
    BY FS_EmptySet
  <2>2. Size({}) = 0
    BY <2>1 DEF Size
  <2> QED BY <2>1, <2>2, ReaderAssumption DEF Fits
<1>6. ASSUME T # {} PROVE FALSE
  <2>1. T \in SUBSET Nat
    BY <1>1
  <2> HIDE DEF T
  <2>2. PICK i \in T : \A k \in T : i <= k
    BY <1>6, <2>1, LeastNatural, Zenon
  <2>3. i \in 0 .. n /\ i \in Nat /\ ~Good(i)
    BY <2>2, <1>1 DEF T
  <2>4. CASE i = 0
    <3>1. \A j \in 0 .. n : j <= 0 => j = 0
      BY <1>1
    <3>2. Good(0)
      BY <1>3, <1>5, <3>1
    <3> QED BY <2>3, <2>4, <3>2
  <2>5. CASE i # 0
    <3>1. i - 1 \in 0 .. n /\ i \in 1 .. n /\ ~(i <= i - 1) /\ \A j \in 0 .. n : j <= i => j = i \/ j <= i - 1
      BY <2>3, <2>5, <1>1
    <3>2. Good(i - 1)
      <4> HIDE DEF Good
      <4> QED BY <2>2, <3>1 DEF T
    <3> DEFINE X == f[i - 1]
               g == order[i]
    <3>3. f[i] = Grown(X, g, bySize) /\ g \in Groups
      BY <1>1, <1>3, <3>1
    <3>4. i <= m => i - 1 <= m /\ HasCleanup(g)
      BY <1>2, <3>1
    <3> HIDE DEF g
    <3>5. CASE f[i] = X \cup Siblings(g) /\ Fits(X \cup Siblings(g), bySize)
      <4>1. Whole(f[i])
        <5>1. \A a \in Siblings(g) : Siblings(a) = Siblings(g)
          BY <3>3, <1>4
        <5>2. X = UNION {Siblings(a) : a \in X}
          BY <3>2
        <5>3. g \in Siblings(g)
          BY <3>3, <1>4
        <5> HIDE DEF X
        <5> QED BY <3>5, <5>1, <5>2, <5>3
      <4>2. i <= m => \A a \in f[i] : HasCleanup(a)
        BY <3>2, <3>3, <3>4, <3>5, <1>4
      <4>3. \A j \in 0 .. n : j <= i => f[j] \subseteq f[i]
        BY <3>1, <3>2, <3>5
      <4> QED BY <2>3, <3>5, <4>1, <4>2, <4>3
    <3>6. CASE f[i] = X
      BY <2>3, <3>1, <3>2, <3>4, <3>6
    <3> QED BY <3>3, <3>5, <3>6 DEF Grown
  <2> QED BY <2>4, <2>5
<1>7. Good(n)
  <2> HIDE DEF Good
  <2> QED BY <1>1, <1>6
<1>8. ASSUME NEW g \in Groups, g \notin f[n], HasCleanup(g),
             Fits({a \in f[n] : HasCleanup(a)} \cup Siblings(g), bySize)
      PROVE  FALSE
  <2>1. PICK i \in 1 .. n : order[i] = g
    BY <1>1
  <2>2. i <= m /\ i - 1 <= m /\ i - 1 \in 0 .. n /\ i \in 0 .. n /\ i <= n /\ i - 1 <= n
    BY <2>1, <1>1, <1>2, <1>8
  <2>3. Good(i - 1)
    <3> HIDE DEF Good
    <3> QED BY <1>6, <2>2
  <2>4. (\A a \in f[i - 1] : HasCleanup(a)) /\ f[i - 1] \subseteq f[n] /\ f[i] \subseteq f[n]
    BY <1>7, <2>2, <2>3
  <2> DEFINE B == {a \in f[n] : HasCleanup(a)} \cup Siblings(g)
  <2>5. f[i - 1] \cup Siblings(g) \in SUBSET B /\ B \in SUBSET Facts
    BY <2>4, <1>1, <1>3, <1>4
  <2>6. Fits(f[i - 1] \cup Siblings(g), bySize)
    <3>1. Fits(B, bySize)
      BY <1>8
    <3> HIDE DEF B
    <3> QED BY <2>5, <3>1, FewerFactsFit
  <2>7. f[i] = f[i - 1] \cup Siblings(g)
    BY <1>3, <2>1, <2>6 DEF Grown
  <2> QED BY <2>4, <2>7, <1>4, <1>8
<1>9. f[n] \in SUBSET Facts
  BY <1>1, <1>3
<1> QED BY <1>3, <1>7, <1>8, <1>9

(* What the model is shown.                                                *)
LEMMA InventoryLemma ==
  ASSUME ProjectIsTyped
  PROVE  /\ Inventory \in SUBSET Facts
         /\ Inventory = UNION {Siblings(a) : a \in Inventory}
         /\ Fits(Inventory, TRUE)
         /\ \A g \in Groups \ Inventory :
              HasCleanup(g) => ~Fits({a \in Inventory : HasCleanup(a)} \cup Siblings(g), TRUE)
<1>1. CASE Size(Taken(FALSE)) <= MaxChars
  <2> DEFINE t == Taken(FALSE)
  <2>1. Inventory = t
    BY <1>1 DEF Inventory
  <2>2. /\ t \in SUBSET Facts /\ t = UNION {Siblings(a) : a \in t} /\ Fits(t, FALSE)
        /\ \A g \in Groups \ t :
             HasCleanup(g) => ~Fits({a \in t : HasCleanup(a)} \cup Siblings(g), FALSE)
    BY TakenIsWhole
  <2>3. Fits(t, TRUE)
    BY <1>1, <2>2 DEF Fits
  <2>4. \A X : Fits(X, TRUE) => Fits(X, FALSE)
    BY DEF Fits
  <2> HIDE DEF t
  <2> QED BY <2>1, <2>2, <2>3, <2>4
<1>2. CASE ~(Size(Taken(FALSE)) <= MaxChars)
  <2>1. Inventory = Taken(TRUE)
    BY <1>2 DEF Inventory
  <2> QED BY <2>1, TakenIsWhole
<1> QED BY <1>1, <1>2

(* What a candidate says, and what the miner proposes, in one record.      *)
LEMMA BoundFields ==
  ASSUME NEW c, NEW s
  PROVE  /\ BoundTo(c, s).op = c.op /\ BoundTo(c, s).symbol = s /\ BoundTo(c, s).index = c.index
         /\ BoundTo(c, s).methods = c.methods /\ BoundTo(c, s).mode = c.mode
         /\ BoundTo(c, s).path = c.path /\ BoundTo(c, s).type = c.type
         /\ BoundTo(c, s).canonical = c.canonical
         /\ BoundTo(c, s).facts = {c.op} \cup UNION {Matches(c, m) : m \in c.methods}
         /\ BoundTo(c, s).evidence = IF c.mode = "typed_method" THEN EvidenceIds(c.op) ELSE {}
BY DEF BoundTo

(* What the resolver bound, the validator takes, but for its types.        *)
LEMMA ResolvedIsValid ==
  ASSUME NEW c, c.mode \in Modes, Resolution(c) = "resolved",
         c.mode = "method_shape" => ~IsTyped(c.op),
         c.mode = "typed_method" => c.type = UniqueType(c.op) /\ c.canonical = Canonical(c.op)
  PROVE  Validates(Resolved(c))
<1> DEFINE r == Resolved(c)
<1>1. /\ r.op = c.op /\ r.symbol = Op[c.op].symbol /\ r.index = c.index /\ r.methods = c.methods
      /\ r.mode = c.mode /\ r.path = c.path /\ r.type = c.type /\ r.canonical = c.canonical
      /\ r.facts = {c.op} \cup UNION {Matches(c, m) : m \in c.methods}
      /\ r.evidence = IF c.mode = "typed_method" THEN EvidenceIds(c.op) ELSE {}
  BY BoundFields DEF Resolved
<1> HIDE DEF r
<1>2. /\ Bindable(c) /\ \A m \in c.methods : Matches(c, m) # {}
      /\ c.mode = "typed_method" => IsTyped(c.op)
  BY DEF Resolution
<1>3. /\ c.op \in Ops /\ Op[c.op].kind = "call" /\ IsPrimary(c.op)
      /\ c.index \in DOMAIN Op[c.op].results /\ Usable(Op[c.op].results[c.index])
      /\ c.op \in inventory
  BY <1>2 DEF Bindable, Shown
<1>4. \A m \in c.methods : Matches(c, m) \subseteq inventory
  BY DEF Matches
<1>5. r.facts # {} /\ r.facts \subseteq inventory /\ c.op \in r.facts
  BY <1>1, <1>3, <1>4
<1>6. c.methods \subseteq Grounded(r)
  <2> SUFFICES ASSUME NEW m \in c.methods PROVE m \in Grounded(r)
    OBVIOUS
  <2>1. PICK d \in Matches(c, m) : TRUE
    BY <1>2
  <2>2. d \in Registrations(c.op, Op[c.op].results[c.index], c.path) /\ Method(Op[d].symbol) = m
    BY DEF Matches
  <2>3. d \in r.facts
    BY <1>1
  <2> QED BY <2>2, <2>3, <1>1 DEF Grounded
<1> DEFINE typesHold ==
      CASE c.mode = "exact" -> TRUE
        [] c.mode = "method_shape" -> ~IsTyped(c.op)
        [] c.mode = "typed_method" ->
             /\ r.evidence # {} /\ r.evidence \subseteq EvidenceIds(c.op)
             /\ c.type = UniqueType(c.op)
             /\ Cardinality(Canonical(c.op)) = 1 /\ c.canonical = Canonical(c.op)
<1>7. typesHold
  <2>1. CASE c.mode = "exact"
    BY <2>1
  <2>2. CASE c.mode = "method_shape"
    BY <2>2
  <2>3. CASE c.mode = "typed_method"
    <3>1. /\ EvidenceIds(c.op) # {} /\ Cardinality(Canonical(c.op)) = 1
          /\ r.evidence = EvidenceIds(c.op)
      BY <1>1, <1>2, <2>3 DEF IsTyped
    <3> QED BY <2>3, <3>1
  <2> QED BY <2>1, <2>2, <2>3 DEF Modes
<1>8. Validates(r)
  BY <1>1, <1>3, <1>5, <1>6, <1>7 DEF Validates
<1> QED BY <1>8 DEF r

(* So what the resolver bound is rejected for its types alone.             *)
LEMMA RejectionIsOfTypes ==
  ASSUME NEW c \in CandidateRecord, Decision(c) = "rejected"
  PROVE  c.mode = "typed_method" \/ (c.mode = "method_shape" /\ IsTyped(c.op))
<1>1. Resolution(c) = "resolved" /\ ~Validates(Resolved(c))
  <2>1. Resolution(c) \in {"unresolved", "ambiguous", "resolved"}
    BY DEF Resolution
  <2> QED BY <2>1 DEF Decision
<1>2. c.mode \in Modes
  BY DEF CandidateRecord
<1> QED BY <1>1, <1>2, ResolvedIsValid DEF Modes

(* What a protocol says.                                                   *)
LEMMA ProtocolFields ==
  ASSUME NEW a, NEW i, NEW path, NEW mode, NEW methods
  PROVE  /\ Protocol(a, i, path, mode, methods).acquire = Op[a].symbol
         /\ Protocol(a, i, path, mode, methods).index = i
         /\ Protocol(a, i, path, mode, methods).methods = methods
         /\ Protocol(a, i, path, mode, methods).mode = mode
         /\ Protocol(a, i, path, mode, methods).path = path
BY DEF Protocol

(* What the miner learnt, proposed, is supported.                          *)
LEMMA LearntIsSupported ==
  ASSUME ProjectIsTyped, inventory = UNION {Siblings(a) : a \in inventory},
         NEW generalize \in BOOLEAN, NEW learnt \in Learnt(generalize),
         Shown(learnt.from), Resolution(Proposal(learnt)) # "ambiguous"
  PROVE  Decision(Proposal(learnt)) = "supported"
<1> DEFINE c == Proposal(learnt)
           binding(r) == Op[r[1]].results[r[2]]
<1>1. PICK x \in Results \X Paths :
        /\ Usable(binding(x[1])) /\ Registrations(x[1][1], binding(x[1]), x[2]) # {}
        /\ learnt = [from |-> x[1][1],
                     protocol |-> Protocol(x[1][1], x[1][2], x[2], ModeFor(x[1][1], x[2], generalize),
                                           MethodsAt(x[1][1], binding(x[1]), x[2]))]
  BY DEF Learnt
<1> DEFINE a == x[1][1]
           i == x[1][2]
           path == x[2]
           mode == ModeFor(a, path, generalize)
           b == Op[a].results[i]
<1>2. a \in Ops /\ IsPrimary(a) /\ i \in DOMAIN Op[a].results
  BY DEF Results
<1>3. /\ c.op = a /\ c.symbol = Op[a].symbol /\ c.index = i /\ c.methods = MethodsAt(a, b, path)
      /\ c.mode = mode /\ c.path = path
      /\ mode = "typed_method" => c.type = UniqueType(a) /\ c.canonical = Canonical(a)
      /\ learnt.from = a
  <2> HIDE DEF a, i, path
  <2>1. learnt.from = a /\ learnt.protocol = Protocol(a, i, path, mode, MethodsAt(a, b, path))
    BY <1>1 DEF a, i, path
  <2> DEFINE P == learnt.protocol
  <2>2. /\ P.acquire = Op[a].symbol /\ P.index = i /\ P.methods = MethodsAt(a, b, path)
        /\ P.mode = mode /\ P.path = path
        /\ mode = "typed_method" => P.type = UniqueType(a) /\ P.canonical = Canonical(a)
    <3> DEFINE M == MethodsAt(a, b, path)
    <3>1. P = Protocol(a, i, path, mode, M)
      BY <2>1
    <3> HIDE DEF mode, P, M, b
    <3>2. /\ P.acquire = Op[a].symbol /\ P.index = i /\ P.methods = M
          /\ P.mode = mode /\ P.path = path
      BY <3>1, ProtocolFields
    <3>3. ASSUME mode = "typed_method" PROVE P.type = UniqueType(a) /\ P.canonical = Canonical(a)
      BY <3>1, <3>3 DEF Protocol
    <3> QED BY <3>2, <3>3 DEF M
  <2>3. /\ c.op = learnt.from /\ c.symbol = P.acquire /\ c.index = P.index /\ c.methods = P.methods
        /\ c.mode = P.mode /\ c.path = P.path /\ c.type = P.type /\ c.canonical = P.canonical
    BY DEF Proposal
  <2> HIDE DEF mode, b, c, P
  <2> QED BY <2>1, <2>2, <2>3
<1>4. Usable(b) /\ a \in inventory
  BY <1>1, <1>3 DEF Shown
<1> HIDE DEF c, a, i, path, b
<1>5. /\ mode \in Modes /\ (mode = "typed_method" => IsTyped(a))
      /\ (mode = "method_shape" => ~IsTyped(a))
  BY DEF ModeFor, Modes
<1> HIDE DEF mode
<1>6. Bindable(c)
  BY <1>2, <1>3, <1>4 DEF Bindable, Shown, IsPrimary, b
<1>7. ASSUME NEW m \in c.methods PROVE Matches(c, m) # {}
  <2>1. PICK d \in Registrations(a, b, path) : m = Method(Op[d].symbol)
    BY <1>3, <1>7 DEF MethodsAt
  <2>2. d \in Ops /\ Op[d].kind = "defer" /\ Op[a].scope = Op[d].scope
    BY DEF Registrations, CanReach
  <2>3. d \in Siblings(a)
    BY <2>2 DEF Siblings, Facts, IsFact
  <2>4. d \in inventory
    BY <2>3, <1>4
  <2> QED BY <2>1, <2>4, <1>3 DEF Matches, b
<1>8. Resolution(c) = "resolved"
  BY <1>3, <1>5, <1>6, <1>7 DEF Resolution, c
<1>9. Validates(Resolved(c))
  BY <1>3, <1>5, <1>8, ResolvedIsValid
<1> QED BY <1>8, <1>9 DEF Decision, c

(* What the reader's state is made of.                                     *)
ReaderIsTyped ==
  /\ ProjectIsTyped /\ answers \subseteq Seq(CandidateRecord)
  /\ readerPhase \in {"start", "survey", "ask", "judge", "end"}
  /\ candidates \in Seq(CandidateRecord) /\ DOMAIN decisions = DOMAIN candidates
  /\ readerPhase \in {"start", "survey"} => candidates = <<>> /\ inventory = {}

(* A candidate the resolver bound was rejected for its types.              *)
RejectionsAreOfTypes ==
  \A i \in DOMAIN candidates :
    decisions[i] = "rejected" =>
      \/ candidates[i].mode = "typed_method"
      \/ candidates[i].mode = "method_shape" /\ IsTyped(candidates[i].op)

(* The model is only asked while nothing is supported, and the stage says  *)
(* whether something was.                                                  *)
SupportIsRecorded ==
  /\ supportedOnce = Supported /\ repairError \in BOOLEAN
  /\ readerPhase \in {"start", "survey", "ask"} => supportedOnce = {} /\ ~repairError
  /\ repairError => supportedOnce = {}
  /\ readerPhase # "end" => stage = "not_run"
  /\ readerPhase = "end" => (stage \in {"findings", "supported_no_finding"} <=> supportedOnce # {})

(* Each request but the first follows a repair.                            *)
CallsAreCounted ==
  /\ repairs \in 0 .. MaxRepairs /\ calls \in Nat
  /\ readerPhase \in {"start", "survey", "ask"} => calls <= 2 * repairs
  /\ calls <= 2 * (repairs + 1)

RInv ==
  /\ ReaderIsTyped /\ RejectionsAreOfTypes /\ InventoryIsWhole
  /\ SupportIsRecorded /\ CallsAreCounted

(* The project alone says which calls are typed and what a decision        *)
(* supports.                                                               *)
LEMMA TypesStay ==
  ASSUME project' = project
  PROVE  \A x : IsTyped(x)' <=> IsTyped(x)
BY DEF IsTyped, UniqueType, Canonical, EvidenceIds, TypesOf, Evidence

(* Nothing decided is nothing supported.                                   *)
LEMMA NothingDecided ==
  ASSUME DOMAIN decisions = {}
  PROVE  Supported = {}
BY DEF Supported

LEMMA SupportStays ==
  ASSUME project' = project, candidates' = candidates, decisions' = decisions
  PROVE  Supported' = Supported
BY DEF Supported, ProtocolFrom, EvidenceIds, Evidence, Op

(* The facts of a project stay what they are.                              *)
LEMMA InventoryStays ==
  ASSUME InventoryIsWhole, project' = project, inventory' = inventory,
         readerPhase \notin {"start", "survey"}
  PROVE  InventoryIsWhole'
<1>1. /\ Facts' = Facts /\ Groups' = Groups /\ \A g : Siblings(g)' = Siblings(g)
      /\ \A g : HasCleanup(g)' <=> HasCleanup(g)
  <2>1. Ops' = Ops /\ Op' = Op
    BY DEF Ops, Op
  <2>2. Facts' = Facts
    BY <2>1 DEF Facts, IsFact
  <2>3. \A g : Siblings(g)' = Siblings(g)
    BY <2>1, <2>2 DEF Siblings
  <2>4. Groups' = Groups
    BY <2>2, <2>3 DEF Groups
  <2> QED BY <2>1, <2>2, <2>3, <2>4 DEF HasCleanup
<1>2. \A X : Fits(X, TRUE)' <=> Fits(X, TRUE)
  BY DEF Fits, Size
<1> QED BY <1>1, <1>2 DEF InventoryIsWhole

(* The invariant holds before a project is opened.                         *)
LEMMA ReaderStarts == ReaderInit => RInv
<1> SUFFICES ASSUME ReaderInit PROVE RInv
  OBVIOUS
<1>1. /\ project = NoProject /\ readerPhase = "start" /\ answers = {} /\ inventory = {}
      /\ candidates = <<>> /\ decisions = <<>> /\ repairs = 0 /\ repairError = FALSE
      /\ calls = 0 /\ stage = "not_run" /\ supportedOnce = {}
  BY DEF ReaderInit
<1>2. ProjectIsTyped
  BY <1>1, FS_EmptySet DEF ProjectIsTyped, NoProject
<1>3. ReaderIsTyped /\ RejectionsAreOfTypes
  BY <1>1, <1>2 DEF ReaderIsTyped, RejectionsAreOfTypes
<1>4. Supported = {}
  BY <1>1, NothingDecided
<1>5. SupportIsRecorded
  BY <1>1, <1>4 DEF SupportIsRecorded
<1>6. CallsAreCounted
  BY <1>1, ReaderAssumption DEF CallsAreCounted
<1> QED BY <1>1, <1>3, <1>5, <1>6 DEF RInv, InventoryIsWhole

(* Opening a project.                                                      *)
LEMMA OpenedKeepsR ==
  ASSUME RInv, NEW given \in Projects, Opened(given)
  PROVE  RInv'
<1>1. /\ readerPhase = "start" /\ project' = given.project /\ answers' = given.answers
      /\ readerPhase' = IF given.project.ops = <<>> THEN "end" ELSE "survey"
      /\ stage' = IF given.project.ops = <<>> THEN "unsupported" ELSE stage
      /\ inventory' = inventory /\ candidates' = candidates /\ decisions' = decisions
      /\ repairs' = repairs /\ repairError' = repairError /\ calls' = calls
      /\ supportedOnce' = supportedOnce
  BY DEF Opened
<1>2. /\ ReaderIsTyped /\ SupportIsRecorded /\ CallsAreCounted
      /\ candidates = <<>> /\ DOMAIN decisions = {} /\ supportedOnce = {} /\ ~repairError
      /\ stage = "not_run" /\ inventory = {}
  BY <1>1 DEF RInv, ReaderIsTyped, SupportIsRecorded
<1>3. ProjectIsTyped'
  BY <1>1, ReaderAssumption DEF ProjectIsTyped
<1>4. ReaderIsTyped' /\ RejectionsAreOfTypes'
  BY <1>1, <1>2, <1>3, ReaderAssumption DEF ReaderIsTyped, RejectionsAreOfTypes
<1>5. Supported' = {}
  BY <1>1, <1>2 DEF Supported
<1>6. SupportIsRecorded'
  BY <1>1, <1>2, <1>5 DEF SupportIsRecorded
<1>7. CallsAreCounted'
  BY <1>1, <1>2 DEF CallsAreCounted
<1>8. InventoryIsWhole'
  <2>1. CASE given.project.ops # <<>>
    BY <1>1, <2>1 DEF InventoryIsWhole
  <2>2. CASE given.project.ops = <<>>
    <3>1. Facts' = {} /\ Groups' = {} /\ inventory' = {}
      BY <1>1, <1>2, <2>2 DEF Facts, Groups, Ops
    <3>2. Cardinality({}) = 0 /\ {t \in project'.types : t.op \in {}} = {}
      BY FS_EmptySet
    <3>3. Fits({}, TRUE)'
      <4>1. Size({})' = 0
        BY <3>2 DEF Size
      <4> QED BY <3>2, <4>1, ReaderAssumption DEF Fits
    <3> QED BY <3>1, <3>3 DEF InventoryIsWhole
  <2> QED BY <2>1, <2>2
<1> QED BY <1>4, <1>6, <1>7, <1>8 DEF RInv

(* Taking the inventory.                                                   *)
LEMMA SurveyedKeepsR ==
  ASSUME RInv, Surveyed
  PROVE  RInv'
<1>1. /\ readerPhase = "survey" /\ readerPhase' = "ask" /\ inventory' = Inventory
      /\ project' = project /\ answers' = answers /\ candidates' = candidates
      /\ decisions' = decisions /\ repairs' = repairs /\ repairError' = repairError
      /\ calls' = calls /\ stage' = stage /\ supportedOnce' = supportedOnce
  BY DEF Surveyed
<1>2. ReaderIsTyped /\ SupportIsRecorded /\ CallsAreCounted /\ candidates = <<>> /\ ProjectIsTyped
  BY <1>1 DEF RInv, ReaderIsTyped
<1>3. ReaderIsTyped' /\ RejectionsAreOfTypes'
  BY <1>1, <1>2 DEF ReaderIsTyped, RejectionsAreOfTypes, ProjectIsTyped
<1>4. SupportIsRecorded'
  BY <1>1, <1>2, SupportStays DEF SupportIsRecorded
<1>5. CallsAreCounted'
  BY <1>1, <1>2 DEF CallsAreCounted
<1>6. InventoryIsWhole'
  <2> DEFINE shown == Inventory
  <2>1. /\ shown = UNION {Siblings(a) : a \in shown} /\ Fits(shown, TRUE)
        /\ \A g \in Groups \ shown :
             HasCleanup(g) => ~Fits({a \in shown : HasCleanup(a)} \cup Siblings(g), TRUE)
    BY <1>2, InventoryLemma
  <2>2. inventory' = shown
    BY <1>1
  <2> HIDE DEF shown
  <2>3. /\ Groups' = Groups /\ \A g : Siblings(g)' = Siblings(g)
        /\ \A g : HasCleanup(g)' <=> HasCleanup(g)
    <3>1. Ops' = Ops /\ Op' = Op
      BY <1>1 DEF Ops, Op
    <3>2. Facts' = Facts
      BY <3>1 DEF Facts, IsFact
    <3>3. \A g : Siblings(g)' = Siblings(g)
      BY <3>1, <3>2 DEF Siblings
    <3>4. Groups' = Groups
      BY <3>2, <3>3 DEF Groups
    <3> QED BY <3>1, <3>3, <3>4 DEF HasCleanup
  <2>4. \A X : Fits(X, TRUE)' <=> Fits(X, TRUE)
    BY <1>1 DEF Fits, Size
  <2> QED BY <2>1, <2>2, <2>3, <2>4 DEF InventoryIsWhole
<1> QED BY <1>3, <1>4, <1>5, <1>6 DEF RInv

(* What was parsed is a list of candidates.                                *)
LEMMA ParsedCandidatesAreTyped ==
  ASSUME NEW given \in Seq(CandidateRecord)
  PROVE  ParsedCandidates(given) \in Seq(CandidateRecord)
<1>1. Kept(given) \in SUBSET DOMAIN given
  BY DEF Kept
<1> QED BY <1>1, AtPositionsIsSubsequence DEF ParsedCandidates

(* An given that could be parsed.                                         *)
LEMMA AnsweredKeepsR ==
  ASSUME RInv, NEW given \in answers, NEW again \in BOOLEAN, Answered(given, again)
  PROVE  RInv'
<1> DEFINE parsed == ParsedCandidates(given)
<1>1. /\ readerPhase = "ask" /\ readerPhase' = "judge" /\ calls' = calls + (IF again THEN 2 ELSE 1)
      /\ project' = project /\ answers' = answers /\ inventory' = inventory /\ repairs' = repairs
      /\ repairError' = repairError /\ stage' = stage /\ candidates' = parsed
      /\ decisions' = [i \in DOMAIN parsed |-> Decision(parsed[i])]
      /\ supportedOnce' = supportedOnce \cup Supported'
  BY DEF Answered, Attempts
<1>2. ReaderIsTyped /\ SupportIsRecorded /\ CallsAreCounted /\ InventoryIsWhole
  BY DEF RInv
<1>3. parsed \in Seq(CandidateRecord) /\ \A i \in DOMAIN parsed : parsed[i] \in CandidateRecord
  <2>1. parsed \in Seq(CandidateRecord)
    BY <1>2, ParsedCandidatesAreTyped DEF ReaderIsTyped
  <2> HIDE DEF parsed
  <2> QED BY <2>1
<1> HIDE DEF parsed
<1>4. ReaderIsTyped'
  BY <1>1, <1>2, <1>3 DEF ReaderIsTyped, ProjectIsTyped
<1>5. RejectionsAreOfTypes'
  <2>1. \A i \in DOMAIN parsed : Decision(parsed[i]) = "rejected" =>
          parsed[i].mode = "typed_method" \/ (parsed[i].mode = "method_shape" /\ IsTyped(parsed[i].op))
    BY <1>3, RejectionIsOfTypes
  <2>2. \A x : IsTyped(x)' <=> IsTyped(x)
    BY <1>1, TypesStay
  <2>3. \A i \in DOMAIN parsed : decisions'[i] = Decision(parsed[i])
    BY <1>1
  <2> QED BY <1>1, <2>1, <2>2, <2>3 DEF RejectionsAreOfTypes
<1>6. SupportIsRecorded'
  BY <1>1, <1>2 DEF SupportIsRecorded
<1>7. CallsAreCounted'
  BY <1>1, <1>2, ReaderAssumption DEF CallsAreCounted
<1>8. InventoryIsWhole'
  BY <1>1, <1>2, InventoryStays
<1> QED BY <1>4, <1>5, <1>6, <1>7, <1>8 DEF RInv

(* Steps after which candidates and decisions are what they were.          *)
LEMMA JudgedStays ==
  ASSUME RInv, UNCHANGED <<project, answers, inventory, candidates, decisions>>,
         readerPhase \in {"ask", "judge"}, readerPhase' \in {"ask", "judge", "end"}
  PROVE  ReaderIsTyped' /\ RejectionsAreOfTypes' /\ InventoryIsWhole' /\ Supported' = Supported
<1>1. /\ project' = project /\ answers' = answers /\ inventory' = inventory
      /\ candidates' = candidates /\ decisions' = decisions
  OBVIOUS
<1>2. ReaderIsTyped /\ RejectionsAreOfTypes /\ InventoryIsWhole
  BY DEF RInv
<1>3. ReaderIsTyped'
  BY <1>1, <1>2 DEF ReaderIsTyped, ProjectIsTyped
<1>4. RejectionsAreOfTypes'
  BY <1>1, <1>2, TypesStay DEF RejectionsAreOfTypes
<1> QED BY <1>1, <1>2, <1>3, <1>4, InventoryStays, SupportStays

(* No given, or an error.                                                 *)
LEMMA UnansweredKeepsR ==
  ASSUME RInv, NEW again \in BOOLEAN, Unanswered(again)
  PROVE  RInv'
<1>1. /\ readerPhase = "ask" /\ calls' = calls + (IF again THEN 2 ELSE 1)
      /\ UNCHANGED <<project, answers, inventory, candidates, decisions, repairs, supportedOnce>>
      /\ \/ stage' = "unavailable" /\ readerPhase' = "end" /\ repairError' = repairError
         \/ repairError' = TRUE /\ readerPhase' = "judge" /\ stage' = stage
  BY DEF Unanswered, Attempts
<1>2. ReaderIsTyped' /\ RejectionsAreOfTypes' /\ InventoryIsWhole' /\ Supported' = Supported
  BY <1>1, JudgedStays
<1>3. SupportIsRecorded'
  BY <1>1, <1>2 DEF SupportIsRecorded, RInv
<1>4. CallsAreCounted'
  BY <1>1 DEF CallsAreCounted, RInv
<1> QED BY <1>2, <1>3, <1>4 DEF RInv

LEMMA BreaksKeepsR ==
  ASSUME RInv, Breaks
  PROVE  RInv'
<1>1. /\ readerPhase = "ask" /\ calls' = calls + 1 /\ readerPhase' = "end"
      /\ UNCHANGED <<project, answers, inventory, candidates, decisions>>
      /\ UNCHANGED <<repairs, repairError, stage, supportedOnce>>
  BY DEF Breaks, Attempts
<1>2. ReaderIsTyped' /\ RejectionsAreOfTypes' /\ InventoryIsWhole' /\ Supported' = Supported
  BY <1>1, JudgedStays
<1>3. SupportIsRecorded'
  BY <1>1, <1>2 DEF SupportIsRecorded, RInv
<1>4. CallsAreCounted'
  BY <1>1 DEF CallsAreCounted, RInv
<1> QED BY <1>2, <1>3, <1>4 DEF RInv

(* Asking again.                                                           *)
LEMMA RepairKeepsR ==
  ASSUME RInv, Repair
  PROVE  RInv'
<1>1. /\ readerPhase = "judge" /\ readerPhase' = "ask" /\ repairs' = repairs + 1
      /\ UNCHANGED <<project, answers, inventory, candidates, decisions>>
      /\ UNCHANGED <<repairError, calls, stage, supportedOnce>>
      /\ Supported = {} /\ repairs < MaxRepairs /\ ~repairError
  BY DEF Repair, MayRepair
<1>2. ReaderIsTyped' /\ RejectionsAreOfTypes' /\ InventoryIsWhole' /\ Supported' = Supported
  BY <1>1, JudgedStays
<1>3. SupportIsRecorded'
  BY <1>1, <1>2 DEF SupportIsRecorded, RInv
<1>4. CallsAreCounted'
  BY <1>1, ReaderAssumption DEF CallsAreCounted, RInv
<1> QED BY <1>2, <1>3, <1>4 DEF RInv

(* The end of the stage.                                                   *)
LEMMA ConcludedKeepsR ==
  ASSUME RInv, Concluded
  PROVE  RInv'
<1>1. /\ readerPhase = "judge" /\ readerPhase' = "end"
      /\ UNCHANGED <<project, answers, inventory, candidates, decisions>>
      /\ UNCHANGED <<repairs, repairError, calls, supportedOnce>>
      /\ stage' = IF repairError THEN "abstained"
                  ELSE IF LifecycleFindings(Supported) # {} THEN "findings"
                  ELSE IF Supported # {} THEN "supported_no_finding" ELSE "abstained"
  BY DEF Concluded
<1>2. ReaderIsTyped' /\ RejectionsAreOfTypes' /\ InventoryIsWhole' /\ Supported' = Supported
  BY <1>1, JudgedStays
<1>3. Supported = {} => LifecycleFindings(Supported) = {}
  BY DEF LifecycleFindings
<1>4. SupportIsRecorded'
  BY <1>1, <1>2, <1>3 DEF SupportIsRecorded, RInv
<1>5. CallsAreCounted'
  BY <1>1 DEF CallsAreCounted, RInv
<1> QED BY <1>2, <1>4, <1>5 DEF RInv

(* Nothing happens.                                                        *)
LEMMA ReaderStutters ==
  ASSUME RInv, UNCHANGED readerVars
  PROVE  RInv'
<1>1. /\ project' = project /\ readerPhase' = readerPhase /\ answers' = answers
      /\ inventory' = inventory /\ candidates' = candidates /\ decisions' = decisions
      /\ repairs' = repairs /\ repairError' = repairError /\ calls' = calls /\ stage' = stage
      /\ supportedOnce' = supportedOnce
  BY DEF readerVars
<1>2. ReaderIsTyped' /\ RejectionsAreOfTypes'
  BY <1>1, TypesStay DEF RInv, ReaderIsTyped, RejectionsAreOfTypes, ProjectIsTyped
<1>3. InventoryIsWhole'
  <2>1. CASE readerPhase \in {"start", "survey"}
    BY <1>1, <2>1 DEF InventoryIsWhole
  <2> QED BY <2>1, <1>1, InventoryStays DEF RInv
<1>4. SupportIsRecorded' /\ CallsAreCounted'
  BY <1>1, SupportStays DEF RInv, SupportIsRecorded, CallsAreCounted
<1> QED BY <1>2, <1>3, <1>4 DEF RInv

(* Every step keeps the invariant.                                         *)
LEMMA ReaderStep == RInv /\ [ReaderNext]_readerVars => RInv'
<1> SUFFICES ASSUME RInv, [ReaderNext]_readerVars PROVE RInv'
  OBVIOUS
<1>1. CASE \E given \in Projects : Opened(given)
  BY <1>1, OpenedKeepsR
<1>2. CASE Surveyed
  BY <1>2, SurveyedKeepsR
<1>3. CASE \E given \in answers, again \in BOOLEAN : Answered(given, again)
  BY <1>3, AnsweredKeepsR
<1>4. CASE \E again \in BOOLEAN : Unanswered(again)
  BY <1>4, UnansweredKeepsR
<1>5. CASE Breaks
  BY <1>5, BreaksKeepsR
<1>6. CASE Repair
  BY <1>6, RepairKeepsR
<1>7. CASE Concluded
  BY <1>7, ConcludedKeepsR
<1>8. CASE UNCHANGED readerVars
  BY <1>8, ReaderStutters
<1> QED BY <1>1, <1>2, <1>3, <1>4, <1>5, <1>6, <1>7, <1>8 DEF ReaderNext

(* The invariant gives the property.                                       *)
LEMMA ReaderIsGroundedFollows == RInv => ReaderIsGrounded
<1> SUFFICES ASSUME RInv PROVE ReaderIsGrounded
  OBVIOUS
<1>1. JudgesAgree
  <2>1. ASSUME readerPhase = "ask", NEW generalize \in BOOLEAN, NEW learnt \in Learnt(generalize),
               Decision(Proposal(learnt)) # "supported", Shown(learnt.from)
        PROVE  Resolution(Proposal(learnt)) = "ambiguous"
    <3>1. ProjectIsTyped /\ inventory = UNION {Siblings(a) : a \in inventory}
      BY <2>1 DEF RInv, ReaderIsTyped, InventoryIsWhole
    <3> QED BY <2>1, <3>1, LearntIsSupported
  <2> QED BY <2>1 DEF RInv, RejectionsAreOfTypes, JudgesAgree
<1>2. SupportIsKept
  <2>1. calls <= 2 * (MaxRepairs + 1)
    BY ReaderAssumption DEF RInv, CallsAreCounted
  <2>2. /\ readerPhase = "end" /\ supportedOnce # {} =>
             Supported = supportedOnce /\ stage \in {"findings", "supported_no_finding"}
        /\ supportedOnce = {} => stage \notin {"findings", "supported_no_finding"}
    BY DEF RInv, SupportIsRecorded
  <2> QED BY <2>1, <2>2 DEF SupportIsKept
<1>3. InventoryIsWhole
  BY DEF RInv
<1> QED BY <1>1, <1>2, <1>3 DEF ReaderIsGrounded

(* Whatever the project, its inventory is whole within its limits, what    *)
(* the resolver binds the validator rejects for its types alone, what the  *)
(* miner learns and the model proposes is supported, and the stage keeps   *)
(* what was supported, however often the model was asked                   *)
(* (project_reader.py, run_project_reader).                                *)
THEOREM ReaderIsAlwaysGrounded == ReaderSpec => []ReaderIsGrounded
<1>1. ReaderSpec => []RInv
  BY ReaderStarts, ReaderStep, PTL DEF ReaderSpec
<1> QED BY <1>1, ReaderIsGroundedFollows, PTL
-----------------------------------------------------------------------------
(* The search for a path (CallFlow).                                       *)
ProgramIsTyped == icfg \in Programs \cup {NoProgram}

Extended(X, pairs) == X \cup {<<x[1][1], x[2][2]>> : x \in {y \in X \X pairs : y[1][2] = y[2][1]}}

(* A program has finitely many operations, and its arcs are among them.    *)
LEMMA ProgramFacts ==
  ASSUME ProgramIsTyped
  PROVE  /\ IsFiniteSet(Operations) /\ Operations \subseteq Nat \ {0}
         /\ \A o \in Operations : icfg.ops[o].host \in Nat
         /\ icfg.flow \subseteq Operations \X Operations
         /\ icfg.calls \subseteq Operations \X Operations
         /\ \A p \in icfg.calls : KindOf(p[2]) = "function"
         /\ \A f \in Operations : KindOf(f) = "function" => icfg.first[f] \in Operations
<1>1. CASE icfg = NoProgram
  <2>1. icfg.ops = <<>> /\ icfg.flow = {} /\ icfg.calls = {}
    BY <1>1 DEF NoProgram
  <2>2. Operations = {}
    BY <2>1 DEF Operations
  <2> QED BY <2>1, <2>2, FS_EmptySet
<1>2. CASE icfg \in Programs
  <2> DEFINE functions == {o \in Operations : icfg.ops[o].kind = "function"}
  <2>1. /\ icfg.ops \in Seq([kind : STRING, scope : Nat, host : Nat])
        /\ icfg.flow \subseteq Operations \X Operations
        /\ icfg.calls \subseteq Operations \X functions
        /\ \A f \in functions : icfg.first[f] \in Operations
    BY <1>2, CallFlowAssumption DEF Operations
  <2>2. Operations = 1 .. Len(icfg.ops) /\ Len(icfg.ops) \in Nat
    BY <2>1 DEF Operations
  <2> DEFINE m == Len(icfg.ops)
  <2>3. IsFiniteSet(Operations) /\ Operations \subseteq Nat \ {0}
    <3> HIDE DEF m
    <3>1. m \in Nat /\ Operations = 1 .. m
      BY <2>2 DEF m
    <3>2. IsFiniteSet(1 .. m)
      BY <3>1, FS_Interval
    <3> QED BY <3>1, <3>2
  <2>4. \A o \in Operations : icfg.ops[o].host \in Nat
    <3> DEFINE Record == [kind : STRING, scope : Nat, host : Nat]
               ops == icfg.ops
    <3> HIDE DEF Record, ops
    <3>1. ops \in Seq(Record) /\ Operations = DOMAIN ops
      BY <2>1 DEF Operations, ops, Record
    <3>2. \A o \in Operations : ops[o] \in Record
      BY <3>1
    <3> QED BY <3>2 DEF ops, Record
  <2>5. \A p \in icfg.calls : p \in Operations \X Operations /\ KindOf(p[2]) = "function"
    BY <2>1 DEF KindOf
  <2> QED BY <2>1, <2>3, <2>4, <2>5 DEF KindOf
<1> QED BY <1>1, <1>2 DEF ProgramIsTyped

(* What the repeated extension is: a loop over the operations.             *)
LEMMA ClosureIsALoop ==
  ASSUME ProgramIsTyped, NEW pairs \in SUBSET (Operations \X Operations)
  PROVE  \E f \in [0 .. Cardinality(Operations) -> SUBSET (Operations \X Operations)] :
           /\ f[0] = {<<o, o>> : o \in Operations}
           /\ \A i \in 1 .. Cardinality(Operations) : f[i] = Extended(f[i - 1], pairs)
           /\ Closure(pairs) = f[Cardinality(Operations)]
<1> DEFINE n == Cardinality(Operations)
           S == SUBSET (Operations \X Operations)
           same == {<<o, o>> : o \in Operations}
           turn == [i \in 1 .. n |-> [X \in S |-> Extended(X, pairs)]]
           Value(f) == f = [i \in 0 .. n |-> IF i = 0 THEN same ELSE Extended(f[i - 1], pairs)]
<1>1. n \in Nat
  BY ProgramFacts, FS_CardinalityType
<1>2. Closure(pairs) = (CHOOSE f : Value(f))[n]
  BY DEF Closure, Extended
<1>3. \A X \in S : Extended(X, pairs) \in S
  BY DEF Extended
<1>4. same \in S
  OBVIOUS
<1> HIDE DEF n, same, S
<1>5. turn \in [1 .. n -> [S -> S]]
  BY <1>3
<1>6. PICK g \in [0 .. n -> S] : IsLoop(g, n, same, turn)
  <2> HIDE DEF turn
  <2> QED BY <1>1, <1>4, <1>5, LoopIsDefined, Zenon
<1>7. \A i \in 0 .. n : i # 0 => i \in 1 .. n /\ i - 1 \in 0 .. n
  BY <1>1
<1>8. Value(g)
  <2>2. \A i \in 0 .. n : g[i] = IF i = 0 THEN same ELSE Extended(g[i - 1], pairs)
    BY <1>6, <1>7 DEF IsLoop
  <2>3. g = [i \in 0 .. n |-> g[i]]
    BY <1>6
  <2> QED BY <2>2, <2>3
<1> DEFINE f == CHOOSE h : Value(h)
<1>9. Value(f)
  <2> HIDE DEF Value
  <2> QED BY <1>8
<1> HIDE DEF f
<1>10. f[0] = same /\ \A i \in 1 .. n : f[i] = Extended(f[i - 1], pairs)
  <2>1. 0 \in 0 .. n /\ \A i \in 1 .. n : i \in 0 .. n /\ i # 0
    BY <1>1
  <2> QED BY <1>9, <2>1
<1>11. f \in [0 .. n -> S]
  <2> DEFINE T == {i \in 0 .. n : f[i] \in S}
  <2>1. 0 \in T
    BY <1>1, <1>4, <1>10
  <2>2. ASSUME NEW i \in 1 .. n, i - 1 \in T PROVE i \in T
    BY <1>1, <1>3, <1>10, <2>2
  <2> HIDE DEF T
  <2>3. 0 .. n \subseteq T
    BY <1>1, <2>1, <2>2, UpToNumber
  <2>4. \A i \in 0 .. n : f[i] \in S
    BY <2>3 DEF T
  <2>5. f = [i \in 0 .. n |-> f[i]]
    BY <1>9
  <2> QED BY <2>4, <2>5
<1>12. Closure(pairs) = f[n]
  BY <1>2 DEF f
<1> QED BY <1>10, <1>11, <1>12 DEF n, same, S

(* Nothing else is in the closure than what the pairs make reachable.      *)
LEMMA ClosureIsLeast ==
  ASSUME ProgramIsTyped, NEW pairs \in SUBSET (Operations \X Operations),
         NEW T, \A o \in Operations : <<o, o>> \in T,
         \A a, b, c \in Operations : <<a, b>> \in T /\ <<b, c>> \in pairs => <<a, c>> \in T
  PROVE  Closure(pairs) \subseteq T
<1> DEFINE n == Cardinality(Operations)
<1>1. PICK f \in [0 .. n -> SUBSET (Operations \X Operations)] :
         /\ f[0] = {<<o, o>> : o \in Operations}
         /\ \A i \in 1 .. n : f[i] = Extended(f[i - 1], pairs)
         /\ Closure(pairs) = f[n]
  BY ClosureIsALoop
<1>2. n \in Nat
  BY ProgramFacts, FS_CardinalityType
<1> HIDE DEF n
<1> DEFINE I == {i \in 0 .. n : f[i] \subseteq T}
<1>3. 0 \in I
  BY <1>1, <1>2
<1>4. ASSUME NEW i \in 1 .. n, i - 1 \in I PROVE i \in I
  <2>1. i \in 0 .. n /\ i - 1 \in 0 .. n
    BY <1>2
  <2>2. f[i - 1] \subseteq T /\ f[i - 1] \subseteq Operations \X Operations
    BY <1>1, <1>4, <2>1
  <2>3. ASSUME NEW x \in f[i - 1], NEW p \in pairs, x[2] = p[1] PROVE <<x[1], p[2]>> \in T
    <3>1. /\ x = <<x[1], x[2]>> /\ x \in Operations \X Operations
          /\ p = <<p[1], p[2]>> /\ p \in Operations \X Operations
      BY <2>2
    <3> QED BY <3>1, <2>2, <2>3
  <2>4. Extended(f[i - 1], pairs) \subseteq T
    BY <2>2, <2>3 DEF Extended
  <2> QED BY <2>1, <2>4, <1>1
<1> HIDE DEF I
<1>5. 0 .. n \subseteq I
  BY <1>2, <1>3, <1>4, UpToNumber
<1> QED BY <1>1, <1>2, <1>5 DEF I

(* The closure is reflexive and can be extended no further: some round    *)
(* adds nothing to what one operation reaches, since there are more rounds *)
(* than operations.                                                        *)
LEMMA ClosureIsClosed ==
  ASSUME ProgramIsTyped, NEW pairs \in SUBSET (Operations \X Operations)
  PROVE  /\ Closure(pairs) \subseteq Operations \X Operations
         /\ \A o \in Operations : <<o, o>> \in Closure(pairs)
         /\ \A a, b, c \in Operations :
              <<a, b>> \in Closure(pairs) /\ <<b, c>> \in pairs => <<a, c>> \in Closure(pairs)
<1> DEFINE n == Cardinality(Operations)
<1>1. PICK f \in [0 .. n -> SUBSET (Operations \X Operations)] :
         /\ f[0] = {<<o, o>> : o \in Operations}
         /\ \A i \in 1 .. n : f[i] = Extended(f[i - 1], pairs)
         /\ Closure(pairs) = f[n]
  BY ClosureIsALoop
<1>2. n \in Nat /\ IsFiniteSet(Operations)
  BY ProgramFacts, FS_CardinalityType
<1>n. n = Cardinality(Operations)
  OBVIOUS
<1> HIDE DEF n
<1>3. ASSUME NEW i \in 1 .. n
      PROVE  /\ i \in 0 .. n /\ i - 1 \in 0 .. n /\ f[i - 1] \subseteq f[i]
             /\ \A a, b, c \in Operations : <<a, b>> \in f[i - 1] /\ <<b, c>> \in pairs => <<a, c>> \in f[i]
             /\ \A a, c \in Operations : <<a, c>> \in f[i] =>
                  <<a, c>> \in f[i - 1] \/ \E b \in Operations : <<a, b>> \in f[i - 1] /\ <<b, c>> \in pairs
  <2>1. i \in 0 .. n /\ i - 1 \in 0 .. n
    BY <1>2
  <2>2. f[i] = Extended(f[i - 1], pairs) /\ f[i - 1] \subseteq Operations \X Operations
    BY <1>1, <2>1
  <2>3. f[i - 1] \subseteq f[i]
    BY <2>2 DEF Extended
  <2>4. ASSUME NEW a \in Operations, NEW b \in Operations, NEW c \in Operations,
               <<a, b>> \in f[i - 1], <<b, c>> \in pairs
        PROVE  <<a, c>> \in f[i]
    <3> DEFINE x == <<<<a, b>>, <<b, c>>>>
    <3>1. x \in {y \in f[i - 1] \X pairs : y[1][2] = y[2][1]} /\ <<x[1][1], x[2][2]>> = <<a, c>>
      BY <2>4
    <3> HIDE DEF x
    <3>2. <<a, c>> \in Extended(f[i - 1], pairs)
      BY <3>1 DEF Extended
    <3> QED BY <3>2, <2>2
  <2>5. ASSUME NEW a \in Operations, NEW c \in Operations, <<a, c>> \in f[i], <<a, c>> \notin f[i - 1]
        PROVE  \E b \in Operations : <<a, b>> \in f[i - 1] /\ <<b, c>> \in pairs
    <3>1. PICK y \in f[i - 1] \X pairs : y[1][2] = y[2][1] /\ <<a, c>> = <<y[1][1], y[2][2]>>
      BY <2>2, <2>5 DEF Extended
    <3>2. /\ y[1] \in f[i - 1] /\ y[2] \in pairs
          /\ y[1] \in Operations \X Operations /\ y[2] \in Operations \X Operations
      BY <2>2
    <3>3. a = y[1][1] /\ c = y[2][2]
      BY <3>1
    <3>4. y[1] = <<a, y[1][2]>> /\ y[2] = <<y[1][2], c>> /\ y[1][2] \in Operations
      BY <3>1, <3>2, <3>3
    <3> QED BY <3>2, <3>4
  <2> QED BY <2>1, <2>3, <2>4, <2>5
<1>4. ASSUME NEW a \in Operations, NEW b \in Operations, NEW c \in Operations,
             <<a, b>> \in f[n], <<b, c>> \in pairs
      PROVE  <<a, c>> \in f[n]
  <2> DEFINE Row(i) == {x \in Operations : <<a, x>> \in f[i]}
             Short == {i \in 0 .. n : Cardinality(Row(i)) < i + 1}
  <2>1. \A i : IsFiniteSet(Row(i)) /\ Cardinality(Row(i)) \in Nat /\ Cardinality(Row(i)) <= n
    BY <1>2, <1>n, FS_Subset, FS_CardinalityType
  <2>2. n \in Short
    <3> DEFINE k == Cardinality(Row(n))
    <3>1. k \in Nat /\ k <= n
      BY <2>1
    <3> HIDE DEF k
    <3>2. k < n + 1
      BY <3>1, <1>2
    <3> QED BY <3>2, <1>2 DEF k
  <2>3. Short \in SUBSET Nat
    OBVIOUS
  <2>4. Row(0) = {a}
    <3>1. \A x \in Operations : <<a, x>> \in f[0] <=> x = a
      BY <1>1
    <3> QED BY <3>1
  <2>5. 0 \notin Short
    <3>1. Cardinality(Row(0)) = 1
      BY <2>4, FS_Singleton
    <3> QED BY <3>1
  <2> HIDE DEF Short
  <2>6. PICK m \in Short : \A k \in Short : m <= k
    BY <2>2, <2>3, LeastNatural, Zenon
  <2>7. m \in 1 .. n /\ m - 1 \in 0 .. n /\ m - 1 \notin Short /\ Cardinality(Row(m)) < m + 1
    <3>1. m \in 0 .. n /\ Cardinality(Row(m)) < m + 1 /\ m # 0
      BY <2>5, <2>6 DEF Short
    <3>2. m \in 1 .. n /\ m - 1 \in 0 .. n /\ ~(m <= m - 1)
      BY <3>1, <1>2
    <3> QED BY <3>1, <3>2, <2>6
  <2>8. ~(Cardinality(Row(m - 1)) < (m - 1) + 1)
    BY <2>7 DEF Short
  <2>9. \A i \in 1 .. n : Row(i - 1) \subseteq Row(i)
    BY <1>3
  <2>10. Row(m - 1) = Row(m)
    <3> DEFINE P == Row(m - 1)
               Q == Row(m)
    <3>1. P \subseteq Q /\ IsFiniteSet(Q) /\ Cardinality(P) \in Nat /\ Cardinality(Q) \in Nat
      BY <2>1, <2>7, <2>9
    <3>2. ~(Cardinality(P) < m) /\ Cardinality(Q) < m + 1
      BY <2>7, <2>8
    <3> HIDE DEF P, Q
    <3>3. Cardinality(P) <= Cardinality(Q) /\ (Cardinality(Q) = Cardinality(P) => Q = P)
      BY <3>1, FS_Subset
    <3>4. P = Q
      BY <3>1, <3>2, <3>3, <2>7
    <3> QED BY <3>4 DEF P, Q
  <2>11. \A x, y \in Operations : x \in Row(m - 1) /\ <<x, y>> \in pairs => y \in Row(m - 1)
    BY <2>7, <2>10, <1>3
  <2> DEFINE J == {i \in 0 .. n : i < m - 1 \/ Row(i) = Row(m - 1)}
  <2>12. 0 \in J
    BY <1>2, <2>7
  <2>13. ASSUME NEW i \in 1 .. n, i - 1 \in J PROVE i \in J
    <3>1. CASE i < m - 1
      BY <3>1, <1>2
    <3>2. CASE i = m - 1
      BY <3>2, <1>2
    <3>3. CASE ~(i < m - 1) /\ i # m - 1
      <4>1. Row(i - 1) = Row(m - 1)
        BY <3>3, <2>13, <2>7
      <4>2. \A y \in Row(i) : y \in Row(i - 1) \/ \E x \in Row(i - 1) : <<x, y>> \in pairs
        BY <1>3
      <4>3. Row(i) \subseteq Row(m - 1)
        BY <4>1, <4>2, <2>11
      <4>4. Row(i) = Row(m - 1)
        BY <4>1, <4>3, <2>9
      <4> QED BY <4>4, <1>2
    <3> QED BY <3>1, <3>2, <3>3, <2>7
  <2> HIDE DEF J
  <2>14. 0 .. n \subseteq J
    BY <1>2, <2>12, <2>13, UpToNumber
  <2>15. n \in J /\ ~(n < m - 1)
    BY <2>14, <2>7, <1>2
  <2>16. Row(n) = Row(m - 1)
    BY <2>15 DEF J
  <2>17. b \in Row(n)
    BY <1>4
  <2>18. c \in Row(n)
    BY <1>4, <2>11, <2>16, <2>17
  <2> QED BY <2>18
<1>5. f[n] \subseteq Operations \X Operations
  BY <1>1, <1>2
<1>6. ASSUME NEW o \in Operations PROVE <<o, o>> \in f[n]
  <2> DEFINE J == {i \in 0 .. n : <<o, o>> \in f[i]}
  <2>1. 0 \in J
    BY <1>1, <1>2
  <2>2. \A i \in 1 .. n : i - 1 \in J => i \in J
    BY <1>3
  <2> HIDE DEF J
  <2>3. 0 .. n \subseteq J
    BY <1>2, <2>1, <2>2, UpToNumber
  <2> QED BY <2>3, <1>2 DEF J
<1> QED BY <1>1, <1>4, <1>5, <1>6

SimpleKinds == {"flow", "embedded", "entry"}

(* The arcs from an operation, kind by kind.                               *)
LEMMA StepFacts ==
  ASSUME ProgramIsTyped, NEW o \in Operations, NEW s \in StepsFrom(o)
  PROVE  /\ s.from = o /\ s.to \in Operations /\ s.call \in Operations \cup {0}
         /\ s = Step(o, s.to, s.kind, s.call)
         /\ \/ s.kind \in SimpleKinds /\ <<o, s.to>> \in Direct
            \/ s.kind = "enter" /\ s.call = o /\ s.to \in Callees(o)
            \/ /\ s.kind = "return" /\ s.call \in Operations /\ KindOf(o) = "return"
               /\ ScopeOf(o) \in Callees(s.call) /\ s.to \in Continuations(s.call)
<1>1. s.from = o
  BY DEF StepsFrom
<1>2. CASE s \in FlowSteps
  <2>1. PICK p \in icfg.flow : s = Step(p[1], p[2], "flow", 0)
    BY <1>2 DEF FlowSteps
  <2>2. p[2] \in Operations
    BY ProgramFacts
  <2>3. <<s.from, s.to>> \in Direct
    BY <1>2 DEF Direct
  <2> QED BY <1>1, <2>1, <2>2, <2>3 DEF Step, SimpleKinds
<1>3. CASE s \in EmbeddedSteps
  <2>1. PICK c \in Operations : s = Step(icfg.ops[c].host, c, "embedded", c)
    BY <1>3 DEF EmbeddedSteps
  <2>2. <<s.from, s.to>> \in Direct
    BY <1>3 DEF Direct
  <2> QED BY <1>1, <2>1, <2>2 DEF Step, SimpleKinds
<1>4. CASE s \in EntrySteps
  <2>1. PICK f \in Operations : KindOf(f) = "function" /\ s = Step(f, icfg.first[f], "entry", 0)
    BY <1>4 DEF EntrySteps
  <2>2. <<s.from, s.to>> \in Direct /\ icfg.first[f] \in Operations
    BY <1>4, <2>1, ProgramFacts DEF Direct
  <2> QED BY <1>1, <2>1, <2>2 DEF Step, SimpleKinds
<1>5. CASE s \in EnterSteps
  <2>1. PICK p \in icfg.calls : s = Step(p[1], p[2], "enter", p[1])
    BY <1>5 DEF EnterSteps
  <2>2. p[2] \in Operations /\ p[2] \in Callees(p[1])
    BY ProgramFacts DEF Callees
  <2> QED BY <1>1, <2>1, <2>2 DEF Step
<1>6. CASE s \in ReturnSteps
  <2>1. PICK x \in Operations \X Operations :
          /\ KindOf(x[1]) = "return" /\ ScopeOf(x[1]) \in Callees(x[2])
          /\ \E n \in Continuations(x[2]) : s = Step(x[1], n, "return", x[2])
    BY <1>6 DEF ReturnSteps
  <2>2. PICK n \in Continuations(x[2]) : s = Step(x[1], n, "return", x[2])
    BY <2>1
  <2>3. n \in Operations
    BY ProgramFacts DEF Continuations
  <2>4. s.from = x[1] /\ s.to = n /\ s.kind = "return" /\ s.call = x[2]
    BY <2>2 DEF Step
  <2> QED BY <1>1, <2>1, <2>2, <2>3, <2>4
<1> QED BY <1>2, <1>3, <1>4, <1>5, <1>6 DEF StepsFrom

(* The arcs there are.                                                     *)
LEMMA StepsThere ==
  ASSUME ProgramIsTyped
  PROVE  /\ Direct \subseteq Operations \X Operations
         /\ \A a, b : <<a, b>> \in Direct => \E s \in StepsFrom(a) : s.to = b /\ s.kind \in SimpleKinds
         /\ \A c : \A f \in Callees(c) : Step(c, f, "enter", c) \in StepsFrom(c)
         /\ \A c, r \in Operations : \A n \in Continuations(c) :
              KindOf(r) = "return" /\ ScopeOf(r) \in Callees(c) => Step(r, n, "return", c) \in StepsFrom(r)
<1>1. \A s \in FlowSteps \cup EmbeddedSteps \cup EntrySteps :
        s.from \in Operations /\ s.kind \in SimpleKinds
  <2>1. ASSUME NEW s \in FlowSteps PROVE s.from \in Operations /\ s.kind \in SimpleKinds
    <3>1. PICK p \in icfg.flow : s = Step(p[1], p[2], "flow", 0)
      BY DEF FlowSteps
    <3>2. p[1] \in Operations
      BY ProgramFacts
    <3> QED BY <3>1, <3>2 DEF Step, SimpleKinds
  <2>2. ASSUME NEW s \in EmbeddedSteps PROVE s.from \in Operations /\ s.kind \in SimpleKinds
    BY DEF EmbeddedSteps, Step, SimpleKinds
  <2>3. ASSUME NEW s \in EntrySteps PROVE s.from \in Operations /\ s.kind \in SimpleKinds
    BY DEF EntrySteps, Step, SimpleKinds
  <2> QED BY <2>1, <2>2, <2>3
<1>2. \A s \in FlowSteps \cup EmbeddedSteps \cup EntrySteps : s \in StepsFrom(s.from)
  BY DEF StepsFrom
<1>3. ASSUME NEW a, NEW b, <<a, b>> \in Direct
      PROVE  \E s \in StepsFrom(a) : s.to = b /\ s.kind \in SimpleKinds
  <2>1. PICK s \in FlowSteps \cup EmbeddedSteps \cup EntrySteps : <<a, b>> = <<s.from, s.to>>
    BY <1>3 DEF Direct
  <2> QED BY <2>1, <1>1, <1>2
<1>4. Direct \subseteq Operations \X Operations
  <2>1. ASSUME NEW s \in FlowSteps \cup EmbeddedSteps \cup EntrySteps
        PROVE  <<s.from, s.to>> \in Operations \X Operations
    BY <1>1, <1>2, StepFacts
  <2> QED BY <2>1 DEF Direct
<1>5. ASSUME NEW c, NEW f \in Callees(c) PROVE Step(c, f, "enter", c) \in StepsFrom(c)
  <2>1. PICK p \in icfg.calls : p[1] = c /\ p[2] = f
    BY DEF Callees
  <2>2. Step(c, f, "enter", c) \in EnterSteps
    BY <2>1 DEF EnterSteps
  <2>3. Step(c, f, "enter", c).from = c
    BY DEF Step
  <2> QED BY <2>2, <2>3 DEF StepsFrom
<1>6. ASSUME NEW c \in Operations, NEW r \in Operations, NEW n \in Continuations(c),
             KindOf(r) = "return", ScopeOf(r) \in Callees(c)
      PROVE  Step(r, n, "return", c) \in StepsFrom(r)
  <2> DEFINE x == <<r, c>>
  <2>1. /\ x \in {y \in Operations \X Operations : KindOf(y[1]) = "return" /\ ScopeOf(y[1]) \in Callees(y[2])}
        /\ x[1] = r /\ x[2] = c
    BY <1>6
  <2> HIDE DEF x
  <2>2. Step(r, n, "return", c) \in {Step(x[1], m, "return", x[2]) : m \in Continuations(x[2])}
    BY <2>1
  <2>3. Step(r, n, "return", c) \in ReturnSteps
    BY <2>1, <2>2 DEF ReturnSteps
  <2>4. Step(r, n, "return", c).from = r
    BY DEF Step
  <2> QED BY <2>3, <2>4 DEF StepsFrom
<1> QED BY <1>3, <1>4, <1>5, <1>6

(* Arcs that may be taken are all taken, in their order.                   *)
LEMMA OrderedListsSteps ==
  ASSUME ProgramIsTyped, NEW o \in Operations, NEW T \in SUBSET StepsFrom(o)
  PROVE  /\ Ordered(T) \in Seq(T)
         /\ \A s \in T : \E i \in DOMAIN Ordered(T) : Ordered(T)[i] = s
<1> DEFINE kinds == {"flow", "embedded", "entry", "enter", "return"}
           ends == Operations \cup {0}
           keys == (ends \X kinds) \X ends
           R == {x \in T \X T : Ahead(x[1], x[2])}
           step == [k \in keys |-> Step(o, k[1][1], k[1][2], k[2])]
<1>1. \A s \in T : /\ s.to \in ends /\ s.call \in ends /\ s.kind \in kinds
                   /\ s = Step(o, s.to, s.kind, s.call)
  BY StepFacts DEF SimpleKinds
<1>2. IsFiniteSet(keys)
  <2>1. IsFiniteSet(ends)
    BY ProgramFacts, FS_AddElement
  <2>2. IsFiniteSet(kinds)
    <3> DEFINE A == {"flow"}
               B == A \cup {"embedded"}
               C == B \cup {"entry"}
               D == C \cup {"enter"}
    <3>1. IsFiniteSet(A) /\ kinds = D \cup {"return"}
      BY FS_Singleton
    <3> HIDE DEF A, kinds
    <3>2. IsFiniteSet(B)
      BY <3>1, FS_AddElement
    <3> HIDE DEF B
    <3>3. IsFiniteSet(C)
      BY <3>2, FS_AddElement
    <3> HIDE DEF C
    <3>4. IsFiniteSet(D)
      BY <3>3, FS_AddElement
    <3> HIDE DEF D
    <3> QED BY <3>1, <3>4, FS_AddElement
  <2> HIDE DEF ends, kinds
  <2>3. IsFiniteSet(ends \X kinds)
    BY <2>1, <2>2, FS_Product
  <2> QED BY <2>1, <2>3, FS_Product
<1>3. ends \subseteq Nat
  BY ProgramFacts
<1>4. \A k \in kinds : KindRank[k] \in Nat
  BY DEF KindRank
<1>5. \A j, k \in kinds : KindRank[j] = KindRank[k] => j = k
  BY DEF KindRank
<1> HIDE DEF kinds, ends
<1>6. IsFiniteSet(T)
  <2> DEFINE image == {step[k] : k \in keys}
  <2>1. IsFiniteSet(image)
    <3>1. step \in [keys -> image]
      OBVIOUS
    <3>2. step \in Surjection(keys, image)
      BY <3>1 DEF Surjection
    <3> HIDE DEF image, step
    <3> QED BY <1>2, <3>2, FS_Surjection
  <2>2. ASSUME NEW s \in T PROVE s \in image
    <3> DEFINE k == <<<<s.to, s.kind>>, s.call>>
    <3>1. k \in keys /\ k[1][1] = s.to /\ k[1][2] = s.kind /\ k[2] = s.call
      BY <1>1
    <3> HIDE DEF k
    <3>2. step[k] = s
      BY <1>1, <3>1
    <3> QED BY <3>1, <3>2
  <2> HIDE DEF image
  <2> QED BY <2>1, <2>2, FS_Subset
<1>7. \A x, y \in T : <<x, y>> \in R <=> Ahead(x, y)
  OBVIOUS
<1>8. \A s \in T : s.to \in Nat /\ s.call \in Nat /\ KindRank[s.kind] \in Nat
  BY <1>1, <1>3, <1>4
<1> HIDE DEF R
<1>9. IsStrictOrder(T, R)
  <2>1. ASSUME NEW x \in T PROVE <<x, x>> \notin R
    BY <1>7, <1>8 DEF Ahead
  <2>2. ASSUME NEW x \in T, NEW y \in T, x # y PROVE <<x, y>> \in R \/ <<y, x>> \in R
    <3>1. x.to # y.to \/ x.kind # y.kind \/ x.call # y.call
      BY <2>2, <1>1
    <3>2. x.to # y.to \/ KindRank[x.kind] # KindRank[y.kind] \/ x.call # y.call
      BY <3>1, <1>1, <1>5
    <3> QED BY <3>2, <1>7, <1>8 DEF Ahead
  <2>3. ASSUME NEW x \in T, NEW y \in T, NEW z \in T, <<x, y>> \in R, <<y, z>> \in R
        PROVE  <<x, z>> \in R
    BY <2>3, <1>7, <1>8 DEF Ahead
  <2> QED BY <2>1, <2>2, <2>3 DEF IsStrictOrder
<1>10. Ordered(T) = Sorted(T, R)
  BY DEF Ordered, R
<1> QED BY <1>6, <1>9, <1>10, SortedListsTheSet

-----------------------------------------------------------------------------
(* What one function does when calls nest at most d deep.                  *)
WithinPairs(d) == IF d = 0 THEN Direct ELSE Direct \cup Across(Within[d - 1])

(* A call leads on to what follows it.                                     *)
LEMMA AcrossIsTyped ==
  ASSUME ProgramIsTyped, NEW inner
  PROVE  Across(inner) \subseteq Operations \X Operations
<1>1. \A c : Continuations(c) \subseteq Operations
  BY ProgramFacts DEF Continuations
<1> QED BY <1>1 DEF Across

(* The recursion over the depth has its values.                            *)
LEMMA WithinIsALoop ==
  ASSUME ProgramIsTyped
  PROVE  \A d \in 0 .. MaxCallDepth : /\ Within[d] = Closure(WithinPairs(d))
                                      /\ WithinPairs(d) \in SUBSET (Operations \X Operations)
<1> DEFINE n == MaxCallDepth
           S == SUBSET (Operations \X Operations)
           base == Closure(Direct)
           turn == [i \in 1 .. n |-> [X \in S |-> Closure(Direct \cup Across(X))]]
           Value(f) == f = [i \in 0 .. n |-> IF i = 0 THEN base ELSE Closure(Direct \cup Across(f[i - 1]))]
<1>1. n \in Nat
  BY CallFlowAssumption
<1>2. Within = CHOOSE f : Value(f)
  BY DEF Within
<1>3. \A X : Direct \cup Across(X) \in S
  BY StepsThere, AcrossIsTyped
<1>4. \A X : Closure(Direct \cup Across(X)) \in S
  BY <1>3, ClosureIsClosed
<1>5. base \in S
  BY StepsThere, ClosureIsClosed
<1> HIDE DEF base, S
<1>6. turn \in [1 .. n -> [S -> S]]
  BY <1>4
<1>7. PICK g \in [0 .. n -> S] : IsLoop(g, n, base, turn)
  <2> HIDE DEF turn
  <2> QED BY <1>1, <1>5, <1>6, LoopIsDefined, Zenon
<1>8. \A i \in 0 .. n : i # 0 => i \in 1 .. n /\ i - 1 \in 0 .. n
  BY <1>1
<1>9. Value(g)
  <2>1. \A i \in 0 .. n : g[i] = IF i = 0 THEN base ELSE Closure(Direct \cup Across(g[i - 1]))
    BY <1>7, <1>8 DEF IsLoop
  <2>2. g = [i \in 0 .. n |-> g[i]]
    BY <1>7
  <2> QED BY <2>1, <2>2
<1>10. Value(Within)
  <2> HIDE DEF Value
  <2> QED BY <1>2, <1>9
<1>11. \A d \in 0 .. n : Within[d] = Closure(WithinPairs(d))
  BY <1>10 DEF WithinPairs, base
<1>12. \A d \in 0 .. n : WithinPairs(d) \in S
  BY <1>3, StepsThere DEF WithinPairs, S
<1> QED BY <1>11, <1>12 DEF S

(* What is within reach at each depth: more by every arc of the function   *)
(* and by every call that returns.                                         *)
LEMMA WithinFacts ==
  ASSUME ProgramIsTyped, NEW d \in 0 .. MaxCallDepth
  PROVE  /\ Within[d] \subseteq Operations \X Operations
         /\ \A o \in Operations : <<o, o>> \in Within[d]
         /\ \A a, b, c \in Operations : <<a, b>> \in Within[d] /\ <<b, c>> \in Direct => <<a, c>> \in Within[d]
         /\ d > 0 => \A a, c, n, f, r \in Operations :
              /\ <<a, c>> \in Within[d] /\ f \in Callees(c) /\ <<f, r>> \in Within[d - 1]
              /\ KindOf(r) = "return" /\ ScopeOf(r) = f /\ n \in Continuations(c)
              => <<a, n>> \in Within[d]
<1>1. Within[d] = Closure(WithinPairs(d)) /\ WithinPairs(d) \in SUBSET (Operations \X Operations)
  BY WithinIsALoop
<1>2. \A a, b, c \in Operations :
        <<a, b>> \in Within[d] /\ <<b, c>> \in WithinPairs(d) => <<a, c>> \in Within[d]
  BY <1>1, ClosureIsClosed
<1>3. Direct \subseteq WithinPairs(d)
  BY DEF WithinPairs
<1>4. ASSUME d > 0, NEW c \in Operations, NEW n \in Operations, NEW f \in Operations, NEW r \in Operations,
             f \in Callees(c), <<f, r>> \in Within[d - 1],
             KindOf(r) = "return", ScopeOf(r) = f, n \in Continuations(c)
      PROVE  <<c, n>> \in WithinPairs(d)
  <2>1. <<c, n>> \in Across(Within[d - 1])
    BY <1>4 DEF Across
  <2> QED BY <1>4, <2>1 DEF WithinPairs
<1>5. ASSUME d > 0, NEW a \in Operations, NEW c \in Operations, NEW n \in Operations,
             NEW f \in Operations, NEW r \in Operations,
             <<a, c>> \in Within[d], f \in Callees(c), <<f, r>> \in Within[d - 1],
             KindOf(r) = "return", ScopeOf(r) = f, n \in Continuations(c)
      PROVE  <<a, n>> \in Within[d]
  <2>1. <<c, n>> \in WithinPairs(d)
    BY <1>4, <1>5
  <2> QED BY <2>1, <1>2, <1>5
<1>6. \A a, b, c \in Operations : <<a, b>> \in Within[d] /\ <<b, c>> \in Direct => <<a, c>> \in Within[d]
  BY <1>2, <1>3
<1>7. Within[d] \subseteq Operations \X Operations /\ \A o \in Operations : <<o, o>> \in Within[d]
  BY <1>1, ClosureIsClosed
<1> QED BY <1>5, <1>6, <1>7

(* The rounds of calls that a run is in the middle of.                     *)
LEMMA RunsToIsALoop ==
  ASSUME ProgramIsTyped, NEW source \in Operations
  PROVE  \E f \in [0 .. MaxCallDepth -> SUBSET Operations] :
           /\ f[0] = {source}
           /\ \A d \in 1 .. MaxCallDepth : f[d] = Entered(f[d - 1], Within[MaxCallDepth - (d - 1)])
           /\ \A target : RunsTo(source, target) <=>
                \E d \in 0 .. MaxCallDepth : \E s \in f[d] : <<s, target>> \in Within[MaxCallDepth - d]
<1> DEFINE n == MaxCallDepth
           S == SUBSET Operations
           inner == [d \in 0 .. n |-> Within[d]]
           turn == [i \in 1 .. n |-> [X \in S |-> Entered(X, inner[n - (i - 1)])]]
           Value(f) == f = [i \in 0 .. n |-> IF i = 0 THEN {source} ELSE Entered(f[i - 1], inner[n - (i - 1)])]
<1>1. n \in Nat
  BY CallFlowAssumption
<1>2. \A X, Y : Entered(X, Y) \in S
  BY ProgramFacts DEF Entered, Callees
<1>3. {source} \in S
  OBVIOUS
<1>4. \A d \in 0 .. n : inner[d] = Within[d]
  OBVIOUS
<1>5. \A target : RunsTo(source, target) <=>
        \E d \in 0 .. n : \E s \in (CHOOSE f : Value(f))[d] : <<s, target>> \in inner[n - d]
  BY DEF RunsTo
<1> HIDE DEF S, inner
<1>6. turn \in [1 .. n -> [S -> S]]
  BY <1>2
<1>7. PICK g \in [0 .. n -> S] : IsLoop(g, n, {source}, turn)
  <2> HIDE DEF turn
  <2> QED BY <1>1, <1>3, <1>6, LoopIsDefined, Zenon
<1>8. \A i \in 0 .. n : i # 0 => i \in 1 .. n /\ i - 1 \in 0 .. n
  BY <1>1
<1>9. Value(g)
  <2>1. \A i \in 0 .. n : g[i] = IF i = 0 THEN {source} ELSE Entered(g[i - 1], inner[n - (i - 1)])
    BY <1>7, <1>8 DEF IsLoop
  <2>2. g = [i \in 0 .. n |-> g[i]]
    BY <1>7
  <2> QED BY <2>1, <2>2
<1> DEFINE f == CHOOSE h : Value(h)
<1>10. Value(f)
  <2> HIDE DEF Value
  <2> QED BY <1>9
<1>11. \A target : RunsTo(source, target) <=>
         \E d \in 0 .. n : \E s \in f[d] : <<s, target>> \in inner[n - d]
  BY <1>5
<1> HIDE DEF f
<1>12. 0 \in 0 .. n /\ \A i \in 1 .. n : i \in 0 .. n /\ i # 0 /\ n - (i - 1) \in 0 .. n
  BY <1>1
<1>13. \A d \in 0 .. n : n - d \in 0 .. n
  BY <1>1
<1>14. f[0] = {source} /\ \A i \in 1 .. n : f[i] = Entered(f[i - 1], Within[n - (i - 1)])
  BY <1>10, <1>12, <1>4
<1>15. f \in [0 .. n -> S]
  <2>1. ASSUME NEW i \in 0 .. n PROVE f[i] \in S
    <3>1. CASE i = 0
      BY <3>1, <1>3, <1>14
    <3>2. CASE i # 0
      <4>1. f[i] = Entered(f[i - 1], Within[n - (i - 1)])
        BY <3>2, <1>8, <1>14
      <4> QED BY <4>1, <1>2
    <3> QED BY <3>1, <3>2
  <2>2. f = [i \in 0 .. n |-> f[i]]
    BY <1>10
  <2> QED BY <2>1, <2>2
<1>16. \A target : RunsTo(source, target) <=>
         \E d \in 0 .. n : \E s \in f[d] : <<s, target>> \in Within[n - d]
  BY <1>11, <1>13, <1>4
<1> HIDE DEF Value
<1> QED BY <1>14, <1>15, <1>16 DEF S

-----------------------------------------------------------------------------
(* States of the search: an operation and the calls that are open.         *)
FrameRecord == [call : Operations, callee : Operations]
SearchState == {x \in [at : Operations, stack : Seq(FrameRecord)] : Len(x.stack) <= MaxCallDepth}

Successor(s, state) == [at |-> s.to, stack |-> Stack(s, state.stack)]

(* Where the function at a depth of the stack began: the first one with    *)
(* the source, the others with the callee of their frame.                  *)
Began(stack, i) == IF i = 0 THEN asked[1] ELSE stack[i].callee

(* There is a run that has these calls open.                               *)
Realised(state) ==
  LET open == Len(state.stack) IN
  /\ \A i \in 1 .. open :
       /\ state.stack[i].callee \in Callees(state.stack[i].call)
       /\ <<Began(state.stack, i - 1), state.stack[i].call>> \in Within[MaxCallDepth - (i - 1)]
  /\ <<Began(state.stack, open), state.at>> \in Within[MaxCallDepth - open]

Asked == asked[1] \in Operations /\ asked[2] \in Operations

(* A state whose calls are open is somewhere on a run from the source.     *)
LEMMA RealisedRuns ==
  ASSUME ProgramIsTyped, Asked, NEW state \in SearchState, Realised(state)
  PROVE  RunsTo(asked[1], state.at)
<1> DEFINE n == MaxCallDepth
           open == Len(state.stack)
<1>1. n \in Nat
  BY CallFlowAssumption
<1>2. open \in Nat /\ open <= n /\ state.at \in Operations /\ state.stack \in Seq(FrameRecord)
  BY DEF SearchState
<1>3. PICK f \in [0 .. n -> SUBSET Operations] :
         /\ f[0] = {asked[1]}
         /\ \A d \in 1 .. n : f[d] = Entered(f[d - 1], Within[n - (d - 1)])
         /\ \A target : RunsTo(asked[1], target) <=>
              \E d \in 0 .. n : \E s \in f[d] : <<s, target>> \in Within[n - d]
  BY RunsToIsALoop DEF Asked
<1> HIDE DEF n
<1> DEFINE T == {i \in 0 .. open : Began(state.stack, i) \in f[i]}
<1>4. 0 \in T
  BY <1>2, <1>3 DEF Began
<1>5. ASSUME NEW i \in 1 .. open, i - 1 \in T PROVE i \in T
  <2>1. i \in 1 .. n /\ i \in 0 .. open /\ i # 0
    BY <1>1, <1>2
  <2>2. /\ state.stack[i].callee \in Callees(state.stack[i].call)
        /\ <<Began(state.stack, i - 1), state.stack[i].call>> \in Within[n - (i - 1)]
    BY DEF Realised, n
  <2>3. state.stack[i] \in FrameRecord
    BY <1>2
  <2>4. state.stack[i].call \in Operations
    BY <2>3 DEF FrameRecord
  <2>5. Began(state.stack, i - 1) \in f[i - 1]
    BY <1>5
  <2>6. state.stack[i].callee \in Entered(f[i - 1], Within[n - (i - 1)])
    BY <2>2, <2>4, <2>5 DEF Entered
  <2>7. Began(state.stack, i) \in f[i]
    BY <2>1, <2>6, <1>3 DEF Began
  <2> QED BY <2>1, <2>7
<1> HIDE DEF T
<1>6. 0 .. open \subseteq T
  BY <1>2, <1>4, <1>5, UpToNumber
<1>7. Began(state.stack, open) \in f[open] /\ open \in 0 .. n
  BY <1>1, <1>2, <1>6 DEF T
<1>8. <<Began(state.stack, open), state.at>> \in Within[n - open]
  BY DEF Realised, n
<1> QED BY <1>3, <1>7, <1>8

(* The arc taken from a state leads to a state; if a run is in the first   *)
(* one, a run is in the second.                                            *)
LEMMA SuccessorIsRealised ==
  ASSUME ProgramIsTyped, Asked,
         NEW state \in SearchState, NEW s \in StepsFrom(state.at), MayTake(s, state.stack)
  PROVE  Successor(s, state) \in SearchState /\ (Realised(state) => Realised(Successor(s, state)))
<1> DEFINE n == MaxCallDepth
           stack == state.stack
           open == Len(stack)
           o == state.at
           next == Successor(s, state)
<1>1. n \in Nat
  BY CallFlowAssumption
<1>2. open \in Nat /\ open <= n /\ o \in Operations /\ stack \in Seq(FrameRecord)
  BY DEF SearchState
<1>3. \A i \in 1 .. open : stack[i].call \in Operations /\ stack[i].callee \in Operations
  <2> SUFFICES ASSUME NEW i \in 1 .. open
               PROVE  stack[i].call \in Operations /\ stack[i].callee \in Operations
    OBVIOUS
  <2>1. stack[i] \in FrameRecord
    <3> HIDE DEF stack
    <3> QED BY <1>2
  <2> HIDE DEF stack, open
  <2> QED BY <2>1 DEF FrameRecord
<1>4. \A i \in 0 .. open : Began(stack, i) \in Operations
  BY <1>2, <1>3 DEF Began, Asked
<1>5. /\ s.from = o /\ s.to \in Operations
      /\ \/ s.kind \in SimpleKinds /\ <<o, s.to>> \in Direct
         \/ s.kind = "enter" /\ s.call = o /\ s.to \in Callees(o)
         \/ /\ s.kind = "return" /\ s.call \in Operations /\ KindOf(o) = "return"
            /\ ScopeOf(o) \in Callees(s.call) /\ s.to \in Continuations(s.call)
  BY <1>2, StepFacts
<1>6. next.at = s.to /\ next.stack = Stack(s, stack)
  BY DEF Successor
<1>7. next = [at |-> s.to, stack |-> next.stack]
  BY DEF Successor
<1>8. Realised(state) =>
        /\ \A i \in 1 .. open : /\ stack[i].callee \in Callees(stack[i].call)
                                /\ <<Began(stack, i - 1), stack[i].call>> \in Within[n - (i - 1)]
        /\ <<Began(stack, open), o>> \in Within[n - open]
  BY DEF Realised
<1>9. n - open \in 0 .. n
  BY <1>1, <1>2
<1>10. CASE s.kind \in SimpleKinds
  <2>1. next.stack = stack
    BY <1>6, <1>10 DEF Stack, SimpleKinds
  <2>2. next \in SearchState
    BY <1>2, <1>5, <1>7, <2>1 DEF SearchState
  <2>3. ASSUME Realised(state) PROVE <<Began(stack, open), s.to>> \in Within[n - open]
    <3>1. <<o, s.to>> \in Direct
      BY <1>5, <1>10 DEF SimpleKinds
    <3>2. Began(stack, open) \in Operations
      BY <1>2, <1>4
    <3> QED BY <3>1, <3>2, <2>3, <1>8, <1>2, <1>5, <1>9, WithinFacts
  <2> HIDE DEF next
  <2>4. ASSUME Realised(state) PROVE Realised(next)
    <3>1. Len(next.stack) = open /\ next.at = s.to
      BY <1>6, <2>1
    <3> QED BY <3>1, <2>1, <2>3, <2>4, <1>8 DEF Realised
  <2> QED BY <2>2, <2>4 DEF next
<1>11. CASE s.kind = "enter"
  <2> DEFINE top == Frame(s)
  <2>1. top = [call |-> o, callee |-> s.to] /\ s.to \in Callees(o)
    BY <1>5, <1>11 DEF Frame, SimpleKinds
  <2>2. next.stack = Append(stack, top) /\ open < n
    BY <1>6, <1>11 DEF Stack, MayTake
  <2>3. top \in FrameRecord
    BY <2>1, <1>2, <1>5 DEF FrameRecord
  <2> HIDE DEF top, next
  <2>4. /\ next.stack \in Seq(FrameRecord) /\ Len(next.stack) = open + 1
        /\ \A i \in 1 .. open : next.stack[i] = stack[i]
        /\ next.stack[open + 1] = top
    BY <2>2, <2>3, <1>2
  <2>5. next \in SearchState
    <3>1. Len(next.stack) <= n
      <4> HIDE DEF n, open, stack
      <4> QED BY <1>1, <1>2, <2>2, <2>4
    <3>2. next \in [at : Operations, stack : Seq(FrameRecord)]
      BY <1>5, <1>7, <2>4
    <3> QED BY <3>1, <3>2 DEF SearchState
  <2>6. ASSUME Realised(state) PROVE Realised(next)
    <3>1. \A i \in 0 .. open : Began(next.stack, i) = Began(stack, i)
      BY <2>4, <1>2 DEF Began
    <3>2. Began(next.stack, open + 1) = s.to
      BY <2>1, <2>4, <1>2 DEF Began
    <3>3. ASSUME NEW i \in 1 .. open + 1
          PROVE  /\ next.stack[i].callee \in Callees(next.stack[i].call)
                 /\ <<Began(next.stack, i - 1), next.stack[i].call>> \in Within[n - (i - 1)]
      <4>1. CASE i \in 1 .. open
        <5>1. i - 1 \in 0 .. open
          BY <4>1, <1>2
        <5> QED BY <5>1, <4>1, <3>1, <2>4, <2>6, <1>8
      <4>2. CASE i = open + 1
        <5>1. i - 1 = open /\ open \in 0 .. open
          BY <4>2, <1>2
        <5> QED BY <5>1, <4>2, <3>1, <2>1, <2>4, <2>6, <1>8
      <4> QED BY <4>1, <4>2, <1>2
    <3>4. n - (open + 1) \in 0 .. n
      BY <2>2, <1>1, <1>2
    <3>5. <<s.to, s.to>> \in Within[n - (open + 1)]
      BY <3>4, <1>5, WithinFacts
    <3> QED BY <3>2, <3>3, <3>5, <2>4, <1>6 DEF Realised, n
  <2> QED BY <2>5, <2>6 DEF next
<1>12. CASE s.kind = "return"
  <2> DEFINE c == stack[open].call
             f == stack[open].callee
  <2>1. /\ stack # <<>> /\ s.call = Last(stack).call /\ Last(stack).callee = ScopeOf(o)
        /\ s.to \in Continuations(Last(stack).call)
    BY <1>5, <1>12 DEF MayTake, MayReturn
  <2>2. open \in 1 .. open /\ Last(stack) = stack[open]
    BY <2>1, <1>2 DEF Last
  <2>3. s.call = c /\ f = ScopeOf(o) /\ s.to \in Continuations(c) /\ KindOf(o) = "return"
    BY <2>1, <2>2, <1>5, <1>12 DEF SimpleKinds
  <2>4. c \in Operations /\ f \in Operations
    BY <2>2, <1>3
  <2>5. next.stack = Front(stack)
    BY <1>6, <1>12 DEF Stack
  <2> HIDE DEF c, f, next
  <2>6. /\ next.stack \in Seq(FrameRecord) /\ Len(next.stack) = open - 1 /\ open - 1 \in Nat
        /\ \A i \in 1 .. open - 1 : next.stack[i] = stack[i] /\ i \in 1 .. open
    BY <2>2, <2>5, <1>2 DEF Front
  <2>7. next \in SearchState
    BY <1>1, <1>2, <1>5, <1>7, <2>6 DEF SearchState
  <2>8. ASSUME Realised(state) PROVE Realised(next)
    <3>1. \A i \in 0 .. open - 1 : Began(next.stack, i) = Began(stack, i)
      BY <2>6, <1>2 DEF Began
    <3>2. ASSUME NEW i \in 1 .. open - 1
          PROVE  /\ next.stack[i].callee \in Callees(next.stack[i].call)
                 /\ <<Began(next.stack, i - 1), next.stack[i].call>> \in Within[n - (i - 1)]
      <4>1. i - 1 \in 0 .. open - 1 /\ i \in 1 .. open /\ next.stack[i] = stack[i]
        BY <2>6
      <4> QED BY <4>1, <3>1, <2>8, <1>8
    <3>3. /\ f \in Callees(c) /\ <<Began(stack, open - 1), c>> \in Within[n - (open - 1)]
          /\ <<f, o>> \in Within[n - open]
      <4>1. f \in Callees(c) /\ <<Began(stack, open - 1), c>> \in Within[n - (open - 1)]
        BY <2>2, <2>8, <1>8 DEF c, f
      <4>2. open # 0 /\ <<Began(stack, open), o>> \in Within[n - open]
        BY <2>2, <2>8, <1>8
      <4>3. Began(stack, open) = f
        BY <4>2 DEF Began, f
      <4> QED BY <4>1, <4>2, <4>3
    <3>4. n - (open - 1) \in 0 .. n /\ n - (open - 1) > 0 /\ (n - (open - 1)) - 1 = n - open
      <4> HIDE DEF n, open
      <4> QED BY <1>1, <1>2, <2>2
    <3>5. Began(stack, open - 1) \in Operations
      BY <1>4, <2>6
    <3>6. <<Began(stack, open - 1), s.to>> \in Within[n - (open - 1)]
      <4> DEFINE d == n - (open - 1)
      <4>1. d \in 0 .. n /\ d > 0 /\ <<f, o>> \in Within[d - 1] /\ <<Began(stack, open - 1), c>> \in Within[d]
        BY <3>3, <3>4
      <4> HIDE DEF d
      <4>2. \A a, x, m, g, r \in Operations :
              /\ <<a, x>> \in Within[d] /\ g \in Callees(x) /\ <<g, r>> \in Within[d - 1]
              /\ KindOf(r) = "return" /\ ScopeOf(r) = g /\ m \in Continuations(x)
              => <<a, m>> \in Within[d]
        BY <4>1, WithinFacts
      <4>3. <<Began(stack, open - 1), s.to>> \in Within[d]
        BY <4>1, <4>2, <3>3, <3>5, <2>3, <2>4, <1>2, <1>5
      <4> QED BY <4>3 DEF d
    <3>7. Began(next.stack, open - 1) = Began(stack, open - 1)
      BY <3>1, <2>6
    <3> QED BY <3>2, <3>6, <3>7, <2>6, <1>6 DEF Realised, n
  <2> QED BY <2>7, <2>8 DEF next
<1> QED BY <1>5, <1>10, <1>11, <1>12

-----------------------------------------------------------------------------
(* When the search has closed what it saw, it saw every run's end: within  *)
(* a function by the depth that is left, and then call by call.            *)
Start == [at |-> asked[1], stack |-> <<>>]

SeenIsClosed ==
  /\ seen \subseteq SearchState /\ Start \in seen
  /\ \A state \in seen : \A s \in StepsFrom(state.at) :
       MayTake(s, state.stack) => Successor(s, state) \in seen

State(at, stack) == [at |-> at, stack |-> stack]

(* What a function's own steps and its returning calls lead to was seen.   *)
LEMMA SeenWithin ==
  ASSUME ProgramIsTyped, SeenIsClosed
  PROVE  \A d \in 0 .. MaxCallDepth : \A a, b \in Operations : \A stack \in Seq(FrameRecord) :
           /\ <<a, b>> \in Within[d] /\ Len(stack) <= MaxCallDepth - d
           /\ State(a, stack) \in seen
           => State(b, stack) \in seen
<1> DEFINE n == MaxCallDepth
           Follows(d, a, b) == \A stack \in Seq(FrameRecord) :
                                 Len(stack) <= n - d /\ State(a, stack) \in seen => State(b, stack) \in seen
           T == {d \in 0 .. n : \A a, b \in Operations : <<a, b>> \in Within[d] => Follows(d, a, b)}
<1>1. n \in Nat
  BY CallFlowAssumption
<1>2. ASSUME NEW at \in Operations, NEW stack \in Seq(FrameRecord), State(at, stack) \in seen,
             NEW s \in StepsFrom(at), MayTake(s, stack)
      PROVE  State(s.to, Stack(s, stack)) \in seen
  <2>1. State(at, stack).at = at /\ State(at, stack).stack = stack
    BY DEF State
  <2>2. Successor(s, State(at, stack)) \in seen
    BY <1>2, <2>1 DEF SeenIsClosed
  <2> QED BY <2>1, <2>2 DEF Successor, State
<1>3. ASSUME NEW d \in 0 .. n, d = 0 \/ d - 1 \in T PROVE d \in T
  <2>1. ASSUME NEW b \in Operations, NEW c \in Operations, <<b, c>> \in WithinPairs(d),
               NEW stack \in Seq(FrameRecord), Len(stack) <= n - d, State(b, stack) \in seen
        PROVE  State(c, stack) \in seen
    <3>1. CASE <<b, c>> \in Direct
      <4>1. PICK s \in StepsFrom(b) : s.to = c /\ s.kind \in SimpleKinds
        BY <3>1, StepsThere
      <4>2. MayTake(s, stack) /\ Stack(s, stack) = stack
        BY <4>1 DEF MayTake, Stack, SimpleKinds
      <4> QED BY <4>1, <4>2, <2>1, <1>2
    <3>2. CASE <<b, c>> \notin Direct
      <4>1. d # 0 /\ <<b, c>> \in Across(Within[d - 1])
        BY <2>1, <3>2 DEF WithinPairs
      <4>2. PICK f \in Callees(b), r \in Operations :
              /\ KindOf(r) = "return" /\ ScopeOf(r) = f /\ <<f, r>> \in Within[d - 1] /\ c \in Continuations(b)
        BY <4>1 DEF Across
      <4>3. f \in Operations
        BY ProgramFacts DEF Callees
      <4> DEFINE enter == Step(b, f, "enter", b)
                 back  == Step(r, c, "return", b)
                 frame == [call |-> b, callee |-> f]
                 inside == Append(stack, frame)
      <4>4. /\ enter \in StepsFrom(b) /\ enter.kind = "enter" /\ enter.to = f /\ Frame(enter) = frame
            /\ back \in StepsFrom(r) /\ back.kind = "return" /\ back.to = c /\ back.call = b /\ back.from = r
        BY <4>2, StepsThere DEF Step, Frame
      <4>5. frame \in FrameRecord /\ frame.call = b /\ frame.callee = f
        BY <4>3 DEF FrameRecord
      <4> HIDE DEF enter, back, frame
      <4>6. Len(stack) \in Nat /\ Len(stack) < n /\ Len(stack) + 1 <= n - (d - 1) /\ d - 1 \in 0 .. n
        <5>1. Len(stack) \in Nat
          OBVIOUS
        <5> DEFINE k == Len(stack)
        <5> HIDE DEF n, k
        <5>2. k \in Nat /\ k <= n - d
          BY <5>1, <2>1 DEF k
        <5>3. k < n /\ k + 1 <= n - (d - 1) /\ d - 1 \in 0 .. n
          BY <5>2, <4>1, <1>1
        <5> QED BY <5>2, <5>3 DEF k
      <4>7. inside \in Seq(FrameRecord) /\ Len(inside) = Len(stack) + 1 /\ inside[Len(inside)] = frame
        BY <4>5
      <4>8. inside # <<>> /\ Last(inside) = frame /\ Front(inside) = stack
        <5>1. inside # <<>> /\ Last(inside) = frame
          BY <4>7, <4>6 DEF Last
        <5>2. Front(inside) = [i \in 1 .. Len(stack) |-> inside[i]]
          BY <4>7, <4>6 DEF Front
        <5>3. \A i \in 1 .. Len(stack) : inside[i] = stack[i]
          BY <4>5
        <5>4. stack = [i \in 1 .. Len(stack) |-> stack[i]]
          OBVIOUS
        <5> QED BY <5>1, <5>2, <5>3, <5>4
      <4>9. State(f, inside) \in seen
        <5>1. MayTake(enter, stack) /\ Stack(enter, stack) = inside
          BY <4>4, <4>6 DEF MayTake, Stack
        <5>2. State(enter.to, Stack(enter, stack)) \in seen
          BY <5>1, <4>4, <2>1, <1>2
        <5> QED BY <5>1, <5>2, <4>4
      <4> HIDE DEF inside
      <4>10. State(r, inside) \in seen
        <5>1. d - 1 \in T
          BY <4>1, <1>3
        <5>2. Follows(d - 1, f, r)
          BY <5>1, <4>2, <4>3
        <5>3. Len(inside) <= n - (d - 1)
          BY <4>6, <4>7
        <5> HIDE DEF n
        <5> QED BY <5>2, <5>3, <4>7, <4>9
      <4>11. MayTake(back, inside) /\ Stack(back, inside) = stack
        BY <4>2, <4>4, <4>5, <4>8 DEF MayTake, MayReturn, Stack
      <4> QED BY <4>4, <4>7, <4>10, <4>11, <1>2
    <3> QED BY <3>1, <3>2
  <2> DEFINE P == {p \in Operations \X Operations : Follows(d, p[1], p[2])}
  <2>2. \A o \in Operations : <<o, o>> \in P
    OBVIOUS
  <2>3. ASSUME NEW a \in Operations, NEW b \in Operations, NEW c \in Operations,
               <<a, b>> \in P, <<b, c>> \in WithinPairs(d)
        PROVE  <<a, c>> \in P
    <3>1. Follows(d, a, b)
      BY <2>3
    <3>2. Follows(d, b, c)
      BY <2>1, <2>3
    <3>3. Follows(d, a, c)
      BY <3>1, <3>2
    <3> QED BY <3>3
  <2>4. WithinPairs(d) \in SUBSET (Operations \X Operations) /\ Within[d] = Closure(WithinPairs(d))
    BY WithinIsALoop
  <2> HIDE DEF P
  <2>5. Within[d] \subseteq P
    BY <2>2, <2>3, <2>4, ClosureIsLeast
  <2>6. \A a, b \in Operations : <<a, b>> \in Within[d] => Follows(d, a, b)
    BY <2>5 DEF P
  <2> HIDE DEF Follows
  <2> QED BY <2>6
<1> HIDE DEF T
<1>4. 0 \in T
  BY <1>1, <1>3
<1>5. \A d \in 1 .. n : d - 1 \in T => d \in T
  BY <1>1, <1>3
<1>6. 0 .. n \subseteq T
  BY <1>1, <1>4, <1>5, UpToNumber
<1> QED BY <1>6 DEF T

(* Every run's end was seen.                                               *)
LEMMA SeenHasTheRuns ==
  ASSUME ProgramIsTyped, Asked, SeenIsClosed, NEW target \in Operations, RunsTo(asked[1], target)
  PROVE  \E state \in seen : state.at = target
<1> DEFINE n == MaxCallDepth
<1>1. n \in Nat
  BY CallFlowAssumption
<1>2. PICK f \in [0 .. n -> SUBSET Operations] :
         /\ f[0] = {asked[1]}
         /\ \A d \in 1 .. n : f[d] = Entered(f[d - 1], Within[n - (d - 1)])
         /\ \A t : RunsTo(asked[1], t) <=>
              \E d \in 0 .. n : \E s \in f[d] : <<s, t>> \in Within[n - d]
  BY RunsToIsALoop DEF Asked
<1>3. \A d \in 0 .. n : n - d \in 0 .. n /\ d <= n - (n - d)
  BY <1>1
<1> DEFINE T == {d \in 0 .. n : \A s \in f[d] : \E stack \in Seq(FrameRecord) :
                                   Len(stack) = d /\ State(s, stack) \in seen}
<1>4. 0 \in T
  <2>1. State(asked[1], <<>>) \in seen
    BY DEF SeenIsClosed, Start, State
  <2>2. <<>> \in Seq(FrameRecord) /\ Len(<<>>) = 0
    OBVIOUS
  <2>3. 0 \in 0 .. n /\ \A s \in f[0] : s = asked[1]
    BY <1>1, <1>2
  <2> QED BY <2>1, <2>2, <2>3
<1>5. ASSUME NEW d \in 1 .. n, d - 1 \in T PROVE d \in T
  <2> SUFFICES ASSUME NEW s \in f[d]
               PROVE  \E stack \in Seq(FrameRecord) : Len(stack) = d /\ State(s, stack) \in seen
    BY <1>1
  <2>1. d \in 0 .. n /\ d - 1 \in 0 .. n
    BY <1>1
  <2>2. s \in Entered(f[d - 1], Within[n - (d - 1)])
    BY <1>2
  <2>3. PICK c \in Operations : s \in Callees(c) /\ \E s0 \in f[d - 1] : <<s0, c>> \in Within[n - (d - 1)]
    BY <2>2 DEF Entered
  <2>4. PICK s0 \in f[d - 1] : <<s0, c>> \in Within[n - (d - 1)]
    BY <2>3
  <2>5. PICK stack \in Seq(FrameRecord) : Len(stack) = d - 1 /\ State(s0, stack) \in seen
    BY <1>5, <2>4
  <2>6. s0 \in Operations /\ s \in Operations
    BY <1>2, <2>1, <2>3, ProgramFacts DEF Callees
  <2>7. State(c, stack) \in seen
    <3>1. n - (d - 1) \in 0 .. n /\ Len(stack) <= n - (n - (d - 1))
      BY <2>1, <2>5, <1>3
    <3> QED BY <3>1, <2>4, <2>5, <2>6, SeenWithin
  <2> DEFINE enter == Step(c, s, "enter", c)
             frame == [call |-> c, callee |-> s]
             next  == Append(stack, frame)
  <2>8. /\ enter \in StepsFrom(c) /\ enter.kind = "enter" /\ enter.to = s /\ Frame(enter) = frame
    BY <2>3, StepsThere DEF Step, Frame
  <2>9. frame \in FrameRecord
    BY <2>6 DEF FrameRecord
  <2> HIDE DEF enter, frame
  <2>10. next \in Seq(FrameRecord) /\ Len(next) = d
    BY <2>5, <2>9, <1>1
  <2>11. MayTake(enter, stack) /\ Stack(enter, stack) = next
    BY <2>5, <2>8, <1>1 DEF MayTake, Stack
  <2>12. State(c, stack).at = c /\ State(c, stack).stack = stack
    BY DEF State
  <2>13. Successor(enter, State(c, stack)) \in seen
    BY <2>7, <2>8, <2>11, <2>12 DEF SeenIsClosed
  <2>14. State(s, next) \in seen
    BY <2>8, <2>11, <2>12, <2>13 DEF Successor, State
  <2> QED BY <2>10, <2>14
<1> HIDE DEF T
<1>6. 0 .. n \subseteq T
  BY <1>1, <1>4, <1>5, UpToNumber
<1>7. PICK d \in 0 .. n : \E s \in f[d] : <<s, target>> \in Within[n - d]
  BY <1>2
<1>8. PICK s \in f[d] : <<s, target>> \in Within[n - d]
  BY <1>7
<1>9. PICK stack \in Seq(FrameRecord) : Len(stack) = d /\ State(s, stack) \in seen
  BY <1>6, <1>8 DEF T
<1>10. s \in Operations /\ n - d \in 0 .. n /\ Len(stack) <= n - (n - d)
  BY <1>2, <1>3, <1>9
<1>11. State(target, stack) \in seen
  BY <1>8, <1>9, <1>10, SeenWithin
<1> QED BY <1>11 DEF State

-----------------------------------------------------------------------------
(* The inductive invariant of the search.                                  *)
Elements(q) == {q[i] : i \in 1 .. Len(q)}
Waiting == Elements(searchQueue)

SearchIsTyped ==
  /\ ProgramIsTyped
  /\ icfg = NoProgram => searchQueue = <<>> /\ seen = {} /\ answer = "none yet"
  /\ icfg # NoProgram => Asked
  /\ searchQueue \in Seq(SearchState) /\ seen \subseteq SearchState

(* What waits or was seen is somewhere on a run.                           *)
SearchIsRealised ==
  /\ \A state \in Waiting : state = Start \/ Realised(state)
  /\ answer = "path" => asked[1] = asked[2] \/ RunsTo(asked[1], asked[2])

(* What can follow what was seen was seen, or waits.                       *)
SearchIsComplete ==
  /\ icfg # NoProgram /\ answer # "path" =>
       /\ asked[1] # asked[2] /\ Start \in seen \cup Waiting
       /\ \A state \in seen \cup Waiting : state.at # asked[2]
       /\ \A state \in seen : \A s \in StepsFrom(state.at) :
            MayTake(s, state.stack) => Successor(s, state) \in seen \cup Waiting
  /\ answer = "no path" => searchQueue = <<>>

PInv == SearchIsTyped /\ SearchIsRealised /\ SearchIsComplete

(* The program and the question stay.                                      *)
LEMMA SameProgram ==
  ASSUME UNCHANGED <<icfg, asked>>
  PROVE  /\ ProgramIsTyped' = ProgramIsTyped /\ Asked' = Asked /\ SearchState' = SearchState /\ Start' = Start
         /\ \A x : Realised(x)' <=> Realised(x)
         /\ RunsTo(asked[1], asked[2])' <=> RunsTo(asked[1], asked[2])
         /\ \A o : StepsFrom(o)' = StepsFrom(o)
         /\ \A s, stack : MayTake(s, stack)' = MayTake(s, stack)
         /\ \A s, x : Successor(s, x)' = Successor(s, x)
<1>1. Operations' = Operations
  BY DEF Operations
<1>2. (\A o : KindOf(o)' = KindOf(o)) /\ (\A o : ScopeOf(o)' = ScopeOf(o))
  BY DEF KindOf, ScopeOf
<1>3. (\A c : Callees(c)' = Callees(c)) /\ (\A c : Continuations(c)' = Continuations(c))
  BY DEF Callees, Continuations, HostOf
<1>4. /\ FlowSteps' = FlowSteps /\ EmbeddedSteps' = EmbeddedSteps /\ EnterSteps' = EnterSteps
      /\ EntrySteps' = EntrySteps
  BY <1>1, <1>2, <1>3
     DEF FlowSteps, EmbeddedSteps, EnterSteps, EntrySteps, ResolvedHosts, IsResolved, KindOf, Callees,
         Operations, Step
<1>5. ReturnSteps' = ReturnSteps
  BY <1>1, <1>2, <1>3 DEF ReturnSteps, Step
<1>6. \A o : StepsFrom(o)' = StepsFrom(o)
  BY <1>4, <1>5 DEF StepsFrom
<1>7. Direct' = Direct
  BY <1>4 DEF Direct
<1>8. \A x : Across(x)' = Across(x)
  BY <1>1, <1>2, <1>3 DEF Across
<1>9. \A x : Closure(x)' = Closure(x)
  BY <1>1 DEF Closure
<1>10. Within' = Within
  BY <1>7, <1>8, <1>9 DEF Within
<1>12. RunsTo(asked[1], asked[2])' <=> RunsTo(asked[1], asked[2])
  BY <1>1, <1>10 DEF RunsTo, Entered, Callees
<1>13. \A x : Realised(x)' <=> Realised(x)
  BY <1>3, <1>10 DEF Realised, Began
<1>14. SearchState' = SearchState
  BY <1>1 DEF SearchState, FrameRecord
<1>15. \A s, stack : MayTake(s, stack)' = MayTake(s, stack)
  BY <1>2, <1>3 DEF MayTake, MayReturn
<1>16. \A s, x : Successor(s, x)' = Successor(s, x)
  BY DEF Successor, Stack, Frame
<1> QED BY <1>1, <1>6, <1>12, <1>13, <1>14, <1>15, <1>16 DEF ProgramIsTyped, Asked, Start

(* Queues of no state and of one.                                          *)
LEMMA ShortQueues ==
  /\ Elements(<<>>) = {} /\ \A S : <<>> \in Seq(S)
  /\ \A S, x : x \in S => Elements(<<x>>) = {x} /\ <<x>> \in Seq(S)
BY DEF Elements

(* Before a question nothing waits.                                        *)
LEMMA SearchStarts == SearchInit => PInv
<1> SUFFICES ASSUME SearchInit PROVE PInv
  OBVIOUS
<1> USE DEF SearchInit
<1>1. Waiting = {}
  BY ShortQueues DEF Waiting
<1>2. SearchIsTyped
  <2>1. <<>> \in Seq(SearchState)
    BY ShortQueues
  <2> QED BY <2>1 DEF SearchIsTyped, ProgramIsTyped
<1> QED BY <1>1, <1>2 DEF PInv, SearchIsRealised, SearchIsComplete

(* A question puts its source into the queue.                              *)
LEMMA AskPathKeepsP == PInv /\ AskPath => PInv'
<1> SUFFICES ASSUME PInv, AskPath PROVE PInv'
  OBVIOUS
<1>1. /\ icfg = NoProgram /\ answer = "none yet" /\ icfg' \in Programs /\ asked' \in Queries[icfg']
      /\ IF asked'[1] = asked'[2] THEN answer' = "path" /\ UNCHANGED searchQueue
         ELSE searchQueue' = <<[at |-> asked'[1], stack |-> <<>>]>> /\ UNCHANGED answer
      /\ UNCHANGED <<seen, steps>>
  BY DEF AskPath
<1>2. searchQueue = <<>> /\ seen = {}
  BY <1>1 DEF PInv, SearchIsTyped
<1>3. Asked' /\ ProgramIsTyped'
  <2>1. Queries[icfg'] \subseteq (DOMAIN icfg'.ops) \X (DOMAIN icfg'.ops)
    BY <1>1, CallFlowAssumption
  <2> QED BY <1>1, <2>1 DEF Asked, Operations, ProgramIsTyped
<1>4. CASE asked'[1] = asked'[2]
  <2>1. answer' = "path" /\ searchQueue' = <<>> /\ seen' = {} /\ icfg' \in Programs
    BY <1>1, <1>2, <1>4
  <2>2. Waiting' = {}
    BY <2>1, ShortQueues DEF Waiting
  <2>3. SearchIsTyped'
    <3>1. ASSUME icfg' = NoProgram PROVE FALSE
      BY <3>1, <1>3 DEF Asked, Operations, NoProgram
    <3>2. <<>> \in Seq(SearchState')
      OBVIOUS
    <3> QED BY <1>3, <2>1, <3>1, <3>2 DEF SearchIsTyped
  <2> QED BY <2>1, <2>2, <2>3, <1>4 DEF PInv, SearchIsRealised, SearchIsComplete
<1>5. CASE asked'[1] # asked'[2]
  <2>1. answer' = "none yet" /\ searchQueue' = <<Start'>> /\ seen' = {}
    BY <1>1, <1>2, <1>5 DEF Start
  <2>2. Waiting' = {Start'}
    BY <2>1, ShortQueues DEF Waiting
  <2>3. Start' \in SearchState'
    BY <1>3, CallFlowAssumption DEF Start, SearchState, Asked
  <2>4. searchQueue' \in Seq(SearchState')
    BY <2>1, <2>3, ShortQueues
  <2>5. SearchIsTyped'
    <3>1. ASSUME icfg' = NoProgram PROVE FALSE
      BY <3>1, <1>3 DEF Asked, Operations, NoProgram
    <3> QED BY <1>3, <2>1, <2>4, <3>1 DEF SearchIsTyped
  <2>6. SearchIsRealised'
    BY <2>1, <2>2 DEF SearchIsRealised
  <2>7. SearchIsComplete'
    <3>1. Start'.at = asked'[1]
      BY DEF Start
    <3> QED BY <2>1, <2>2, <3>1, <1>5 DEF SearchIsComplete
  <2> QED BY <2>5, <2>6, <2>7 DEF PInv
<1> QED BY <1>4, <1>5

(* The queue without its first state, and with states added.               *)
LEMMA QueueFacts ==
  ASSUME NEW S, NEW q \in Seq(S), q # <<>>, NEW T, NEW more \in Seq(T)
  PROVE  /\ Head(q) \in S /\ Tail(q) \in Seq(S) /\ Tail(q) \o more \in Seq(S \cup T)
         /\ Elements(q) = {Head(q)} \cup Elements(Tail(q))
         /\ Elements(Tail(q) \o more) = Elements(Tail(q)) \cup Elements(more)
<1> DEFINE t == Tail(q)
           n == Len(t)
           m == Len(more)
<1>1. /\ Head(q) = q[1] /\ t \in Seq(S) /\ Len(q) = n + 1 /\ n \in Nat /\ m \in Nat
      /\ \A i \in 1 .. n : t[i] = q[i + 1]
  OBVIOUS
<1>2. Head(q) \in S
  OBVIOUS
<1>3. t \o more \in Seq(S \cup T) /\ Len(t \o more) = n + m
  <2>1. t \in Seq(S \cup T) /\ more \in Seq(S \cup T)
    BY <1>1
  <2> QED BY <2>1
<1>4. /\ \A i \in 1 .. n : (t \o more)[i] = t[i]
      /\ \A i \in 1 .. m : (t \o more)[n + i] = more[i]
  <2> HIDE DEF t
  <2> QED BY <1>1
<1> HIDE DEF t, n, m
<1>5. {q[i] : i \in 1 .. Len(q)} = {Head(q)} \cup {t[i] : i \in 1 .. n}
  <2>1. ASSUME NEW i \in 1 .. Len(q) PROVE q[i] \in {Head(q)} \cup {t[k] : k \in 1 .. n}
    <3>1. CASE i = 1
      BY <3>1, <1>1
    <3>2. CASE i # 1
      <4>1. i - 1 \in 1 .. n /\ (i - 1) + 1 = i
        BY <3>2, <1>1
      <4>2. t[i - 1] = q[i]
        BY <4>1, <1>1
      <4> QED BY <4>1, <4>2
    <3> QED BY <3>1, <3>2
  <2>2. 1 \in 1 .. Len(q) /\ \A i \in 1 .. n : i + 1 \in 1 .. Len(q)
    BY <1>1
  <2> QED BY <2>1, <2>2, <1>1
<1>6. {(t \o more)[i] : i \in 1 .. n + m} = {t[i] : i \in 1 .. n} \cup {more[i] : i \in 1 .. m}
  <2>1. ASSUME NEW i \in 1 .. n + m PROVE (t \o more)[i] \in {t[k] : k \in 1 .. n} \cup {more[k] : k \in 1 .. m}
    <3>1. CASE i \in 1 .. n
      BY <3>1, <1>4
    <3>2. CASE i \notin 1 .. n
      <4>1. i - n \in 1 .. m /\ n + (i - n) = i
        BY <3>2, <1>1
      <4>2. (t \o more)[i] = more[i - n]
        BY <4>1, <1>4
      <4> QED BY <4>1, <4>2
    <3> QED BY <3>1, <3>2
  <2>2. /\ \A i \in 1 .. n : i \in 1 .. n + m
        /\ \A i \in 1 .. m : n + i \in 1 .. n + m
    BY <1>1
  <2>3. \A i \in 1 .. n : t[i] \in {(t \o more)[k] : k \in 1 .. n + m}
    BY <2>2, <1>4
  <2>4. \A i \in 1 .. m : more[i] \in {(t \o more)[k] : k \in 1 .. n + m}
    BY <2>2, <1>4
  <2> QED BY <2>1, <2>3, <2>4
<1> QED BY <1>1, <1>2, <1>3, <1>5, <1>6 DEF t, n, m, Elements

(* The source is on a run.                                                 *)
LEMMA StartIsRealised ==
  ASSUME ProgramIsTyped, Asked
  PROVE  Realised(Start)
<1>1. Len(Start.stack) = 0 /\ Start.at = asked[1]
  BY DEF Start
<1>2. MaxCallDepth \in 0 .. MaxCallDepth /\ MaxCallDepth - 0 = MaxCallDepth
  BY CallFlowAssumption
<1>3. <<asked[1], asked[1]>> \in Within[MaxCallDepth]
  BY <1>2, WithinFacts DEF Asked
<1> QED BY <1>1, <1>2, <1>3 DEF Realised, Began

(* One state is taken from the queue.                                      *)
LEMMA ExpandKeepsP == PInv /\ Expand => PInv'
<1> SUFFICES ASSUME PInv, Expand PROVE PInv'
  OBVIOUS
<1> DEFINE state == Head(searchQueue)
           may   == {s \in StepsFrom(state.at) : MayTake(s, state.stack)}
           taken == Ordered(may)
           next  == [i \in DOMAIN taken |-> [at |-> taken[i].to, stack |-> Stack(taken[i], state.stack)]]
           found == \E i \in DOMAIN taken : taken[i].to = asked[2]
           rest  == Elements(Tail(searchQueue))
           added == Elements(next)
<1>1. /\ answer = "none yet" /\ searchQueue # <<>> /\ UNCHANGED <<icfg, asked>>
      /\ IF state \in seen
         THEN searchQueue' = Tail(searchQueue) /\ UNCHANGED <<seen, steps, answer>>
         ELSE /\ seen' = seen \cup {state}
              /\ searchQueue' = IF found THEN <<>> ELSE Tail(searchQueue) \o next
              /\ answer' = IF found THEN "path" ELSE answer
  BY DEF Expand
<1>2. /\ ProgramIsTyped /\ Asked /\ icfg # NoProgram
      /\ searchQueue \in Seq(SearchState) /\ seen \subseteq SearchState
  BY <1>1 DEF PInv, SearchIsTyped
<1>3. /\ ProgramIsTyped' /\ Asked' /\ SearchState' = SearchState /\ Start' = Start
      /\ \A x : Realised(x)' <=> Realised(x)
      /\ RunsTo(asked[1], asked[2])' <=> RunsTo(asked[1], asked[2])
      /\ \A o : StepsFrom(o)' = StepsFrom(o)
      /\ \A s, stack : MayTake(s, stack)' = MayTake(s, stack)
      /\ \A s, x : Successor(s, x)' = Successor(s, x)
  BY <1>1, <1>2, SameProgram
<1>4. /\ asked[1] # asked[2] /\ Start \in seen \cup Waiting
      /\ \A x \in seen \cup Waiting : x.at # asked[2]
      /\ \A x \in seen : \A s \in StepsFrom(x.at) :
           MayTake(s, x.stack) => Successor(s, x) \in seen \cup Waiting
  BY <1>1, <1>2 DEF PInv, SearchIsComplete
<1>5. state \in SearchState /\ Tail(searchQueue) \in Seq(SearchState) /\ Waiting = {state} \cup rest
  <2>1. <<>> \in Seq({})
    OBVIOUS
  <2> QED BY <1>1, <1>2, <2>1, QueueFacts DEF Waiting
<1>6. state = Start \/ Realised(state)
  BY <1>5 DEF PInv, SearchIsRealised
<1>7. Realised(state)
  BY <1>2, <1>6, StartIsRealised
<1>8. \A s \in may : Successor(s, state) \in SearchState /\ Realised(Successor(s, state))
  BY <1>2, <1>5, <1>7, SuccessorIsRealised
<1>9. taken \in Seq(may) /\ \A s \in may : \E i \in DOMAIN taken : taken[i] = s
  <2>1. state.at \in Operations
    BY <1>5 DEF SearchState
  <2>2. may \in SUBSET StepsFrom(state.at)
    OBVIOUS
  <2> HIDE DEF may
  <2> QED BY <1>2, <2>1, <2>2, OrderedListsSteps
<1>10. may \subseteq StepsFrom(state.at) /\ \A s \in may : MayTake(s, state.stack)
  OBVIOUS
<1>10a. \A s \in StepsFrom(state.at) : MayTake(s, state.stack) => s \in may
  OBVIOUS
<1> HIDE DEF state, may, taken, rest
<1>11. \A i \in DOMAIN taken : taken[i] \in may /\ next[i] = Successor(taken[i], state)
  BY <1>9 DEF Successor
<1>12. next \in Seq(SearchState) /\ Len(next) = Len(taken) /\ DOMAIN taken = 1 .. Len(taken)
  <2>1. \A i \in DOMAIN taken : next[i] \in SearchState
    BY <1>8, <1>11
  <2>2. DOMAIN taken = 1 .. Len(taken) /\ Len(taken) \in Nat
    BY <1>9
  <2>3. next = [i \in 1 .. Len(taken) |-> next[i]]
    BY <2>2
  <2> HIDE DEF next
  <2> QED BY <2>1, <2>2, <2>3
<1>13. added = {Successor(s, state) : s \in may}
  <2>1. added = {next[i] : i \in DOMAIN taken}
    BY <1>12 DEF Elements
  <2>2. \A i \in DOMAIN taken : taken[i] \in may /\ next[i] = Successor(taken[i], state)
    BY <1>11
  <2>3. \A s \in may : \E i \in DOMAIN taken : taken[i] = s
    BY <1>9
  <2> HIDE DEF next, added
  <2> QED BY <2>1, <2>2, <2>3
<1> HIDE DEF next, added
<1>14. CASE state \in seen
  <2>1. searchQueue' = Tail(searchQueue) /\ seen' = seen /\ answer' = answer
    BY <1>1, <1>14
  <2>2. Waiting' = rest /\ seen' \cup Waiting' = seen \cup Waiting
    BY <2>1, <1>5, <1>14 DEF Waiting, rest
  <2>3. SearchIsTyped'
    BY <2>1, <1>1, <1>2, <1>3, <1>5 DEF SearchIsTyped
  <2>4. SearchIsRealised'
    BY <2>1, <2>2, <1>1, <1>3, <1>5 DEF PInv, SearchIsRealised
  <2>5. SearchIsComplete'
    BY <2>1, <2>2, <1>1, <1>3, <1>4 DEF SearchIsComplete
  <2> QED BY <2>3, <2>4, <2>5 DEF PInv
<1>15. CASE state \notin seen /\ found
  <2>1. searchQueue' = <<>> /\ seen' = seen \cup {state} /\ answer' = "path"
    BY <1>1, <1>15
  <2>2. Waiting' = {}
    BY <2>1, ShortQueues DEF Waiting
  <2>3. PICK i \in DOMAIN taken : taken[i].to = asked[2]
    BY <1>15
  <2>4. /\ Successor(taken[i], state) \in SearchState /\ Realised(Successor(taken[i], state))
        /\ Successor(taken[i], state).at = asked[2]
    BY <2>3, <1>8, <1>11 DEF Successor
  <2>5. RunsTo(asked[1], asked[2])
    BY <2>4, <1>2, RealisedRuns
  <2>6. SearchIsTyped'
    <3>1. <<>> \in Seq(SearchState)
      OBVIOUS
    <3>2. searchQueue' \in Seq(SearchState') /\ seen' \subseteq SearchState' /\ icfg' # NoProgram
      BY <2>1, <3>1, <1>1, <1>2, <1>3, <1>5
    <3> QED BY <3>2, <1>3 DEF SearchIsTyped
  <2>7. SearchIsRealised'
    BY <2>1, <2>2, <2>5, <1>3 DEF SearchIsRealised
  <2>8. SearchIsComplete'
    BY <2>1 DEF SearchIsComplete
  <2> QED BY <2>6, <2>7, <2>8 DEF PInv
<1>16. CASE state \notin seen /\ ~found
  <2>1. searchQueue' = Tail(searchQueue) \o next /\ seen' = seen \cup {state} /\ answer' = "none yet"
    BY <1>1, <1>16
  <2>2. searchQueue' \in Seq(SearchState) /\ Waiting' = rest \cup added
    <3>1. SearchState \cup SearchState = SearchState
      OBVIOUS
    <3>2. /\ Tail(searchQueue) \o next \in Seq(SearchState \cup SearchState)
          /\ Elements(Tail(searchQueue) \o next) = Elements(Tail(searchQueue)) \cup Elements(next)
      <4>1. searchQueue # <<>> /\ searchQueue \in Seq(SearchState) /\ next \in Seq(SearchState)
        BY <1>1, <1>2, <1>12
      <4> QED BY <4>1, QueueFacts
    <3> QED BY <2>1, <3>1, <3>2 DEF Waiting, rest, added
  <2>3. SearchIsTyped'
    BY <2>1, <2>2, <1>1, <1>2, <1>3, <1>5 DEF SearchIsTyped
  <2>4. SearchIsRealised'
    <3>1. \A x \in Waiting' : x = Start \/ Realised(x)
      BY <2>2, <1>5, <1>8, <1>13 DEF PInv, SearchIsRealised
    <3> QED BY <2>1, <3>1, <1>3 DEF SearchIsRealised
  <2>5. seen' \cup Waiting' = seen \cup Waiting \cup added
    BY <2>1, <2>2, <1>5
  <2>6. \A x \in added : x.at # asked[2]
    <3> SUFFICES ASSUME NEW s \in may PROVE Successor(s, state).at # asked[2]
      BY <1>13
    <3>1. s.to # asked[2]
      BY <1>9, <1>16
    <3> QED BY <3>1 DEF Successor
  <2>7. \A s \in StepsFrom(state.at) : MayTake(s, state.stack) => Successor(s, state) \in added
    BY <1>10a, <1>13
  <2>8. SearchIsComplete'
    BY <2>1, <2>5, <2>6, <2>7, <1>1, <1>3, <1>4 DEF SearchIsComplete
  <2> QED BY <2>3, <2>4, <2>8 DEF PInv
<1> QED BY <1>14, <1>15, <1>16

(* The search gives its answer.                                            *)
LEMMA NoPathFoundKeepsP == PInv /\ NoPathFound => PInv'
<1> SUFFICES ASSUME PInv, NoPathFound PROVE PInv'
  OBVIOUS
<1>1. /\ answer = "none yet" /\ icfg # NoProgram /\ UNCHANGED <<icfg, asked, searchQueue, seen>>
      /\ answer' = IF searchQueue = <<>> THEN "no path" ELSE "gave up"
  BY DEF NoPathFound
<1>2. /\ ProgramIsTyped' = ProgramIsTyped /\ Asked' = Asked /\ SearchState' = SearchState /\ Start' = Start
      /\ \A x : Realised(x)' <=> Realised(x)
      /\ RunsTo(asked[1], asked[2])' <=> RunsTo(asked[1], asked[2])
      /\ \A o : StepsFrom(o)' = StepsFrom(o)
      /\ \A s, stack : MayTake(s, stack)' = MayTake(s, stack)
      /\ \A s, x : Successor(s, x)' = Successor(s, x)
  BY <1>1, SameProgram
<1>3. Waiting' = Waiting
  BY <1>1 DEF Waiting
<1>4. SearchIsTyped'
  BY <1>1, <1>2 DEF PInv, SearchIsTyped
<1>5. SearchIsRealised'
  BY <1>1, <1>2, <1>3 DEF PInv, SearchIsRealised
<1>6. SearchIsComplete'
  BY <1>1, <1>2, <1>3 DEF PInv, SearchIsComplete
<1> QED BY <1>4, <1>5, <1>6 DEF PInv

(* A step of something else leaves the search as it is.                    *)
LEMMA SearchStutters == PInv /\ UNCHANGED searchVars => PInv'
<1> SUFFICES ASSUME PInv, UNCHANGED searchVars PROVE PInv'
  OBVIOUS
<1>1. UNCHANGED <<icfg, asked, searchQueue, seen, answer>>
  BY DEF searchVars
<1>2. /\ ProgramIsTyped' = ProgramIsTyped /\ Asked' = Asked /\ SearchState' = SearchState /\ Start' = Start
      /\ \A x : Realised(x)' <=> Realised(x)
      /\ RunsTo(asked[1], asked[2])' <=> RunsTo(asked[1], asked[2])
      /\ \A o : StepsFrom(o)' = StepsFrom(o)
      /\ \A s, stack : MayTake(s, stack)' = MayTake(s, stack)
      /\ \A s, x : Successor(s, x)' = Successor(s, x)
  BY <1>1, SameProgram
<1>3. Waiting' = Waiting
  BY <1>1 DEF Waiting
<1>4. SearchIsTyped'
  BY <1>1, <1>2 DEF PInv, SearchIsTyped
<1>5. SearchIsRealised'
  BY <1>1, <1>2, <1>3 DEF PInv, SearchIsRealised
<1>6. SearchIsComplete'
  BY <1>1, <1>2, <1>3 DEF PInv, SearchIsComplete
<1> QED BY <1>4, <1>5, <1>6 DEF PInv

(* When the search has answered, it answered rightly.                      *)
LEMMA PathsAreMatchedFollows == PInv => PathsAreMatched
<1> SUFFICES ASSUME PInv PROVE PathsAreMatched
  OBVIOUS
<1>1. ASSUME answer \in {"path", "no path"} PROVE ProgramIsTyped /\ Asked
  BY <1>1 DEF PInv, SearchIsTyped
<1>2. ASSUME answer = "path" PROVE RunsTo(asked[1], asked[2])
  <2>1. CASE asked[1] # asked[2]
    BY <1>2, <2>1 DEF PInv, SearchIsRealised
  <2>2. CASE asked[1] = asked[2]
    <3>1. Start \in SearchState /\ Start.at = asked[1]
      BY <1>1, <1>2, CallFlowAssumption DEF Start, SearchState, Asked
    <3> QED BY <3>1, <2>2, <1>1, <1>2, StartIsRealised, RealisedRuns
  <2> QED BY <2>1, <2>2
<1>3. ASSUME answer = "no path", RunsTo(asked[1], asked[2]) PROVE FALSE
  <2>1. Waiting = {} /\ icfg # NoProgram
    <3>1. searchQueue = <<>> /\ icfg # NoProgram
      BY <1>3 DEF PInv, SearchIsComplete, SearchIsTyped
    <3> QED BY <3>1, ShortQueues DEF Waiting
  <2>2. SeenIsClosed /\ \A x \in seen : x.at # asked[2]
    BY <1>3, <2>1 DEF PInv, SearchIsComplete, SearchIsTyped, SeenIsClosed
  <2>3. asked[2] \in Operations
    BY <1>1, <1>3 DEF Asked
  <2>4. \E x \in seen : x.at = asked[2]
    BY <2>2, <2>3, <1>1, <1>3, SeenHasTheRuns
  <2> QED BY <2>2, <2>4
<1> QED BY <1>2, <1>3 DEF PathsAreMatched

(* For every program, question and bounds, a search that says there is a   *)
(* path is right, and so is one that says there is none: within the bound  *)
(* of nested calls, every return goes back to its own call                 *)
(* (analysis/icfg.py, path).                                               *)
THEOREM PathsAreAlwaysMatched == SearchSpec => []PathsAreMatched
<1>1. SearchInit => PInv
  BY SearchStarts
<1>2. PInv /\ [SearchNext]_searchVars => PInv'
  BY AskPathKeepsP, ExpandKeepsP, NoPathFoundKeepsP, SearchStutters DEF SearchNext
<1>3. PInv => PathsAreMatched
  BY PathsAreMatchedFollows
<1> QED BY <1>1, <1>2, <1>3, PTL DEF SearchSpec

-----------------------------------------------------------------------------
(* The search for a retry without a pause (RetryLoops).                    *)
RetrierIsTyped == retrier \in Retriers \cup {NoRetrier}

RetryOps == DOMAIN retrier.ops
Quiet(o, call) == ~Mitigates(o, LoopOp(call).error) /\ ~Works(o)

(* SetToSeq lists a finite set.                                            *)
LEMMA ListsTheSet ==
  ASSUME NEW S, IsFiniteSet(S)
  PROVE  SetToSeq(S) \in Seq(S) /\ ToSet(SetToSeq(S)) = S
<1> DEFINE n == Cardinality(S)
           f == SetToSeq(S)
<1>1. n \in Nat /\ ExistsBijection(1 .. n, S)
  BY FS_CardinalityType
<1>2. PICK g \in Bijection(1 .. n, S) : TRUE
  BY <1>1 DEF ExistsBijection
<1>3. g \in [1 .. n -> S] /\ IsInjective(g)
  BY <1>2 DEF Bijection, Injection, IsInjective
<1>4. f \in [1 .. n -> S] /\ IsInjective(f)
  BY <1>3 DEF SetToSeq
<1> HIDE DEF f
<1>5. f \in Injection(1 .. n, S)
  BY <1>4 DEF Injection
<1>6. IsFiniteSet(1 .. n) /\ Cardinality(1 .. n) = n
  BY <1>1, FS_Interval
<1>7. f \in Surjection(1 .. n, S)
  BY <1>5, <1>6, FS_Injection
<1> HIDE DEF n
<1>8. ToSet(f) = S
  BY <1>4, <1>7 DEF Surjection, ToSet
<1>9. f \in Seq(S)
  BY <1>1, <1>4
<1> QED BY <1>8, <1>9 DEF f

(* A function's operations, its arcs and its loop.                         *)
LEMMA RetrierFacts ==
  ASSUME RetrierIsTyped
  PROVE  /\ Len(retrier.ops) \in Nat /\ RetryOps = 1 .. Len(retrier.ops)
         /\ retrier.arcs \subseteq [from : RetryOps, to : RetryOps, kind : STRING] /\ IsFiniteSet(retrier.arcs)
         /\ retrier.loop.at \in RetryOps \cup {0}
<1>1. CASE retrier = NoRetrier
  BY <1>1, FS_EmptySet DEF NoRetrier, RetryOps
<1>2. CASE retrier \in Retriers
  <2> DEFINE Record == [kind : STRING, risky : BOOLEAN, error : STRING, tests : STRING, failsOn : STRING,
                        sets : SUBSET STRING, reads : SUBSET STRING, limits : BOOLEAN, pauses : BOOLEAN,
                        records : BOOLEAN]
  <2>1. /\ retrier.ops \in Seq(Record)
        /\ retrier.arcs \subseteq [from : RetryOps, to : RetryOps, kind : STRING] /\ IsFiniteSet(retrier.arcs)
        /\ retrier.loop \in [at : RetryOps, endless : BOOLEAN]
    BY <1>2, RetryAssumption DEF RetryOps
  <2> HIDE DEF Record
  <2>2. Len(retrier.ops) \in Nat /\ RetryOps = 1 .. Len(retrier.ops)
    BY <2>1 DEF RetryOps
  <2> QED BY <2>1, <2>2
<1> QED BY <1>1, <1>2 DEF RetrierIsTyped

(* The roads from a failure are grown arc by arc.                          *)
LEMMA RoadsAreALoop ==
  ASSUME RetrierIsTyped, NEW branch
  PROVE  \E f \in [0 .. Len(retrier.ops) -> SUBSET Seq(RetryOps)] :
           /\ f[0] = {<<a.to>> : a \in ErrorArcs(branch)}
           /\ \A i \in 1 .. Len(retrier.ops) : f[i] = f[i - 1] \cup Lengthened(f[i - 1])
           /\ RoadsFrom(branch) = f[Len(retrier.ops)]
<1> DEFINE n == Len(retrier.ops)
           S == SUBSET Seq(RetryOps)
           base == {<<a.to>> : a \in ErrorArcs(branch)}
           turn == [i \in 1 .. n |-> [X \in S |-> X \cup Lengthened(X)]]
           Value(f) == f = [i \in 0 .. n |-> IF i = 0 THEN base ELSE f[i - 1] \cup Lengthened(f[i - 1])]
<1>1. n \in Nat
  BY RetrierFacts
<1>2. RoadsFrom(branch) = (CHOOSE f : Value(f))[n]
  BY DEF RoadsFrom
<1>3. \A X \in S : X \cup Lengthened(X) \in S
  <2> SUFFICES ASSUME NEW X \in S, NEW r \in Lengthened(X) PROVE r \in Seq(RetryOps)
    OBVIOUS
  <2>1. PICK q \in X, a \in Inside : r = Append(q, a.to)
    BY DEF Lengthened
  <2>2. a.to \in RetryOps
    BY <2>1, RetrierFacts DEF Inside
  <2> QED BY <2>1, <2>2
<1>4. base \in S
  <2>1. ASSUME NEW a \in ErrorArcs(branch) PROVE <<a.to>> \in Seq(RetryOps)
    <3>1. a.to \in RetryOps
      BY RetrierFacts DEF ErrorArcs, ArcsFrom
    <3> QED BY <3>1
  <2> QED BY <2>1
<1> HIDE DEF n, base, S
<1>5. turn \in [1 .. n -> [S -> S]]
  BY <1>3
<1>6. PICK g \in [0 .. n -> S] : IsLoop(g, n, base, turn)
  <2> HIDE DEF turn
  <2> QED BY <1>1, <1>4, <1>5, LoopIsDefined, Zenon
<1>7. \A i \in 0 .. n : i # 0 => i \in 1 .. n /\ i - 1 \in 0 .. n
  BY <1>1
<1>8. Value(g)
  <2>2. \A i \in 0 .. n : g[i] = IF i = 0 THEN base ELSE g[i - 1] \cup Lengthened(g[i - 1])
    BY <1>6, <1>7 DEF IsLoop
  <2>3. g = [i \in 0 .. n |-> g[i]]
    BY <1>6
  <2> QED BY <2>2, <2>3
<1> DEFINE f == CHOOSE h : Value(h)
<1>9. Value(f)
  <2> HIDE DEF Value
  <2> QED BY <1>8
<1> HIDE DEF f
<1>10. f[0] = base /\ \A i \in 1 .. n : f[i] = f[i - 1] \cup Lengthened(f[i - 1])
  <2>1. 0 \in 0 .. n /\ \A i \in 1 .. n : i \in 0 .. n /\ i # 0
    BY <1>1
  <2> QED BY <1>9, <2>1
<1>11. f \in [0 .. n -> S]
  <2> DEFINE T == {i \in 0 .. n : f[i] \in S}
  <2>1. 0 \in T
    BY <1>1, <1>4, <1>10
  <2>2. ASSUME NEW i \in 1 .. n, i - 1 \in T PROVE i \in T
    BY <1>1, <1>3, <1>10, <2>2
  <2> HIDE DEF T
  <2>3. 0 .. n \subseteq T
    BY <1>1, <2>1, <2>2, UpToNumber
  <2>4. \A i \in 0 .. n : f[i] \in S
    BY <2>3 DEF T
  <2>5. f = [i \in 0 .. n |-> f[i]]
    BY <1>9
  <2> QED BY <2>4, <2>5
<1>12. RoadsFrom(branch) = f[n]
  BY <1>2 DEF f
<1> QED BY <1>10, <1>11, <1>12 DEF n, base, S

(* What is grown from what was grown.                                      *)
Grows(f, branch) ==
  /\ f \in [0 .. Len(retrier.ops) -> SUBSET Seq(RetryOps)]
  /\ f[0] = {<<a.to>> : a \in ErrorArcs(branch)}
  /\ \A i \in 1 .. Len(retrier.ops) : f[i] = f[i - 1] \cup Lengthened(f[i - 1])

(* A road of length k + 1 has been grown after k rounds, as have its       *)
(* beginnings; it has no operation twice.                                  *)
IsRoadOf(f, i, r) ==
  /\ r \in Seq(RetryOps) /\ Len(r) \in 1 .. i + 1
  /\ \A j, k \in 1 .. Len(r) : j < k => r[j] # r[k]
  /\ \A j \in 1 .. Len(r) : \A m \in j - 1 .. Len(retrier.ops) : SubSeq(r, 1, j) \in f[m]

(* What was grown is not lost.                                             *)
LEMMA RoadsStay ==
  ASSUME RetrierIsTyped, NEW f, NEW branch, Grows(f, branch), NEW i \in 0 .. Len(retrier.ops), NEW r \in f[i]
  PROVE  \A m \in i .. Len(retrier.ops) : r \in f[m]
<1> DEFINE n == Len(retrier.ops)
           T == {m \in 0 .. n : m >= i => r \in f[m]}
<1>1. n \in Nat
  BY RetrierFacts
<1> HIDE DEF n
<1>2. 0 \in T
  BY <1>1 DEF n
<1>3. ASSUME NEW m \in 1 .. n, m - 1 \in T PROVE m \in T
  <2>1. f[m] = f[m - 1] \cup Lengthened(f[m - 1])
    BY DEF Grows, n
  <2>2. CASE m = i
    BY <2>2, <1>1
  <2>3. CASE m # i
    BY <2>1, <2>3, <1>1, <1>3 DEF n
  <2> QED BY <2>2, <2>3
<1> HIDE DEF T
<1>4. 0 .. n \subseteq T
  BY <1>1, <1>2, <1>3, UpToNumber
<1>5. \A m \in i .. n : m \in 0 .. n /\ m >= i
  BY <1>1 DEF n
<1> QED BY <1>4, <1>5 DEF T, n

(* A road with one more operation.                                         *)
LEMMA LengthenedRoad ==
  ASSUME RetrierIsTyped, NEW f, NEW branch, Grows(f, branch), NEW i \in 1 .. Len(retrier.ops),
         NEW q, IsRoadOf(f, i - 1, q), NEW a \in Inside, a.from = Last(q), a.to \notin ToSet(q)
  PROVE  IsRoadOf(f, i, Append(q, a.to))
<1> DEFINE n == Len(retrier.ops)
           o == a.to
           r == Append(q, o)
           k == Len(q)
<1>0. o \in RetryOps
  BY RetrierFacts DEF Inside
<1>1. n \in Nat
  BY RetrierFacts
<1>2. q \in Seq(RetryOps) /\ k \in 1 .. i /\ k \in Nat
  BY <1>1 DEF IsRoadOf
<1>3. /\ r \in Seq(RetryOps) /\ Len(r) = k + 1 /\ r[k + 1] = o
      /\ \A j \in 1 .. k : r[j] = q[j]
  BY <1>0, <1>2
<1> HIDE DEF n, r, k, o
<1>4. Len(r) \in 1 .. i + 1
  BY <1>1, <1>2, <1>3
<1>5. \A j, m \in 1 .. Len(r) : j < m => r[j] # r[m]
  <2>1. \A j \in 1 .. k : q[j] # o
    BY <1>2 DEF ToSet, k, o
  <2>2. \A j, m \in 1 .. k : j < m => q[j] # q[m]
    BY DEF IsRoadOf, k
  <2>3. \A j \in 1 .. Len(r) : j \in 1 .. k \/ j = k + 1
    BY <1>2, <1>3
  <2> QED BY <2>1, <2>2, <2>3, <1>2, <1>3
<1>6. ASSUME NEW j \in 1 .. Len(r), NEW m \in j - 1 .. n PROVE SubSeq(r, 1, j) \in f[m]
  <2>1. CASE j = k + 1
    <3>1. SubSeq(r, 1, j) = r
      BY <2>1, <1>2, <1>3
    <3>2. k \in 1 .. n /\ m \in k .. n
      BY <2>1, <1>1, <1>2
    <3>3. q \in f[k - 1]
      <4>1. SubSeq(q, 1, k) = q
        BY <1>2 DEF k
      <4>2. k \in 1 .. k /\ k - 1 \in k - 1 .. n
        BY <1>1, <3>2
      <4>3. \A b \in 1 .. Len(q) : \A c \in b - 1 .. Len(retrier.ops) : SubSeq(q, 1, b) \in f[c]
        BY DEF IsRoadOf
      <4> QED BY <4>1, <4>2, <4>3 DEF k, n
    <3> DEFINE before == f[k - 1]
    <3>4. r \in Lengthened(before)
      <4> HIDE DEF before
      <4>1. <<q, a>> \in before \X Inside
        BY <3>3 DEF before
      <4> QED BY <4>1 DEF Lengthened, r, o
    <3>5. r \in f[k]
      BY <3>2, <3>4 DEF Grows, n
    <3>6. k \in 0 .. n
      BY <3>2
    <3>7. r \in f[m]
      BY <3>2, <3>5, <3>6, RoadsStay DEF n
    <3> QED BY <3>1, <3>7
  <2>2. CASE j # k + 1
    <3>1. j \in 1 .. k
      BY <2>2, <1>2, <1>3
    <3>2. SubSeq(r, 1, j) = SubSeq(q, 1, j)
      BY <3>1, <1>2, <1>3
    <3>3. \A b \in 1 .. Len(q) : \A c \in b - 1 .. Len(retrier.ops) : SubSeq(q, 1, b) \in f[c]
      BY DEF IsRoadOf
    <3> QED BY <3>1, <3>2, <3>3 DEF k, n
  <2> QED BY <2>1, <2>2
<1> QED BY <1>3, <1>4, <1>5, <1>6 DEF IsRoadOf, r, n, o
(* What is grown is roads.                                                 *)
LEMMA RoadsAreRoads ==
  ASSUME RetrierIsTyped, NEW f, NEW branch, Grows(f, branch)
  PROVE  \A i \in 0 .. Len(retrier.ops) : \A r \in f[i] : IsRoadOf(f, i, r)
<1> DEFINE n == Len(retrier.ops)
           T == {i \in 0 .. n : \A r \in f[i] : IsRoadOf(f, i, r)}
<1>1. n \in Nat
  BY RetrierFacts
<1>2. 0 \in T
  <2> SUFFICES ASSUME NEW r \in f[0] PROVE IsRoadOf(f, 0, r)
    BY <1>1
  <2>1. PICK a \in ErrorArcs(branch) : r = <<a.to>>
    BY DEF Grows
  <2>2. a.to \in RetryOps
    BY RetrierFacts DEF ErrorArcs, ArcsFrom
  <2>3. r \in Seq(RetryOps) /\ Len(r) = 1 /\ SubSeq(r, 1, 1) = r
    <3> DEFINE o == a.to
    <3> HIDE DEF o
    <3>1. <<o>> \in Seq(RetryOps) /\ Len(<<o>>) = 1
      BY <2>2 DEF o
    <3>2. \A t \in Seq(RetryOps) : SubSeq(t, 1, Len(t)) = t
      OBVIOUS
    <3> QED BY <2>1, <3>1, <3>2 DEF o
  <2>4. \A m \in 0 .. n : r \in f[m]
    <3>1. 0 \in 0 .. n
      BY <1>1
    <3> QED BY <3>1, RoadsStay
  <2>5. \A j \in 1 .. Len(r) : j = 1
    BY <2>3
  <2> HIDE DEF n
  <2>6. \A j \in 1 .. Len(r) : \A m \in j - 1 .. n : SubSeq(r, 1, j) \in f[m]
    <3> SUFFICES ASSUME NEW j \in 1 .. Len(r), NEW m \in j - 1 .. n PROVE SubSeq(r, 1, j) \in f[m]
      OBVIOUS
    <3>1. j = 1 /\ m \in 0 .. n
      BY <2>5
    <3> QED BY <2>3, <2>4, <3>1
  <2>7. \A j, k \in 1 .. Len(r) : j < k => r[j] # r[k]
    BY <2>5
  <2>8. Len(r) \in 1 .. 0 + 1
    BY <2>3
  <2> QED BY <2>3, <2>6, <2>7, <2>8 DEF IsRoadOf, n
<1>3. ASSUME NEW i \in 1 .. n, i - 1 \in T PROVE i \in T
  <2> SUFFICES ASSUME NEW r \in f[i] PROVE IsRoadOf(f, i, r)
    BY <1>1
  <2>1. f[i] = f[i - 1] \cup Lengthened(f[i - 1])
    BY DEF Grows
  <2>2. CASE r \in f[i - 1]
    <3>1. IsRoadOf(f, i - 1, r)
      BY <1>3, <2>2
    <3>2. Len(r) \in 1 .. i + 1
      BY <3>1, <1>1 DEF IsRoadOf
    <3> QED BY <3>1, <3>2 DEF IsRoadOf
  <2>3. CASE r \in Lengthened(f[i - 1])
    <3>1. PICK q \in f[i - 1], a \in Inside :
            r = Append(q, a.to) /\ a.from = Last(q) /\ a.to \notin ToSet(q)
      BY <2>3 DEF Lengthened
    <3>2. IsRoadOf(f, i - 1, q)
      BY <1>3, <3>1
    <3> QED BY <3>1, <3>2, LengthenedRoad
  <2> QED BY <2>1, <2>2, <2>3
<1> HIDE DEF T
<1>4. 0 .. n \subseteq T
  BY <1>1, <1>2, <1>3, UpToNumber
<1> QED BY <1>4 DEF T, n

(* A function has no longer road than operations.                          *)
LEMMA RoadsAreShort ==
  ASSUME RetrierIsTyped, NEW r \in Seq(RetryOps), \A j, k \in 1 .. Len(r) : j < k => r[j] # r[k]
  PROVE  Len(r) <= Len(retrier.ops)
<1> DEFINE n == Len(retrier.ops)
           k == Len(r)
<1>1. n \in Nat /\ k \in Nat /\ RetryOps = 1 .. n
  BY RetrierFacts
<1>2. r \in [1 .. k -> 1 .. n]
  BY <1>1
<1> HIDE DEF n, k
<1>3. \A i, j \in 1 .. k : i # j => r[i] # r[j]
  <2>1. \A i, j \in 1 .. k : i # j => i < j \/ j < i
    BY <1>1
  <2> QED BY <2>1 DEF k
<1>4. r \in Injection(1 .. k, 1 .. n)
  BY <1>2, <1>3 DEF Injection, IsInjective
<1>5. IsFiniteSet(1 .. n) /\ Cardinality(1 .. n) = n /\ Cardinality(1 .. k) = k
  BY <1>1, FS_Interval
<1>6. Cardinality(1 .. k) <= Cardinality(1 .. n)
  BY <1>4, <1>5, FS_Injection
<1> QED BY <1>5, <1>6 DEF n, k

(* From the end of a road another arc of the loop is taken: that is the    *)
(* end of a road too, with nothing on it that was not on the first, but    *)
(* for the arc's target.                                                   *)
LEMMA RoadsGoOn ==
  ASSUME RetrierIsTyped, NEW branch, NEW r \in RoadsFrom(branch), NEW a \in Inside, a.from = Last(r)
  PROVE  \E q \in RoadsFrom(branch) :
           /\ q \in Seq(RetryOps) /\ q # <<>> /\ Last(q) = a.to
           /\ ToSet(Tail(q)) \subseteq ToSet(Tail(r)) \cup {a.to}
<1> DEFINE n == Len(retrier.ops)
           k == Len(r)
           o == a.to
<1>1. n \in Nat /\ o \in RetryOps
  BY RetrierFacts DEF Inside
<1>2. PICK f : Grows(f, branch) /\ RoadsFrom(branch) = f[n]
  BY RoadsAreALoop DEF Grows
<1>3. n \in 0 .. n
  BY <1>1
<1>4. IsRoadOf(f, n, r)
  BY <1>2, <1>3, RoadsAreRoads
<1>5. r \in Seq(RetryOps) /\ k \in 1 .. n + 1 /\ k <= n
  BY <1>4, RoadsAreShort DEF IsRoadOf
<1>6. \A j \in 1 .. k : \A m \in j - 1 .. n : SubSeq(r, 1, j) \in f[m]
  BY <1>4 DEF IsRoadOf
<1>7. CASE o \in ToSet(r)
  <2>1. PICK j \in 1 .. k : r[j] = o
    BY <1>5, <1>7 DEF ToSet
  <2> DEFINE q == SubSeq(r, 1, j)
  <2>2. q \in Seq(RetryOps) /\ Len(q) = j /\ \A i \in 1 .. j : q[i] = r[i]
    BY <1>5, <2>1
  <2>3. q \in RoadsFrom(branch)
    BY <1>1, <1>2, <1>5, <1>6
  <2>4. q # <<>> /\ Last(q) = o
    BY <2>1, <2>2 DEF Last
  <2>5. ToSet(Tail(q)) \subseteq ToSet(Tail(r))
    <3> SUFFICES ASSUME NEW i \in DOMAIN Tail(q) PROVE \E m \in DOMAIN Tail(r) : Tail(r)[m] = Tail(q)[i]
      BY DEF ToSet
    <3>1. i \in 1 .. j - 1 /\ Tail(q)[i] = q[i + 1] /\ i + 1 \in 1 .. j
      <4> HIDE DEF q
      <4> QED BY <2>2, <2>4
    <3>2. i \in DOMAIN Tail(r) /\ Tail(r)[i] = r[i + 1]
      BY <3>1, <1>5
    <3> QED BY <2>2, <3>1, <3>2
  <2> QED BY <2>2, <2>3, <2>4, <2>5
<1>8. CASE o \notin ToSet(r)
  <2> DEFINE q == Append(r, o)
  <2>1. q \in Seq(RetryOps) /\ Len(q) = k + 1 /\ q[k + 1] = o /\ \A i \in 1 .. k : q[i] = r[i]
    BY <1>1, <1>5
  <2>2. q \in RoadsFrom(branch)
    <3>1. SubSeq(r, 1, k) = r
      BY <1>5
    <3>2. k \in 1 .. n /\ k - 1 \in k - 1 .. n /\ k \in 1 .. k
      BY <1>1, <1>5
    <3>3. r \in f[k - 1]
      BY <1>6, <3>1, <3>2
    <3> DEFINE before == f[k - 1]
    <3>4. q \in Lengthened(before)
      <4> HIDE DEF before
      <4>1. <<r, a>> \in before \X Inside
        BY <3>3 DEF before
      <4> QED BY <1>8, <4>1 DEF Lengthened
    <3>5. q \in f[k]
      BY <1>2, <3>2, <3>4 DEF Grows
    <3>6. k \in 0 .. n /\ n \in k .. n
      BY <1>1, <3>2
    <3> QED BY <1>2, <3>5, <3>6, RoadsStay
  <2>3. q # <<>> /\ Last(q) = o
    BY <2>1, <1>5 DEF Last
  <2>4. ToSet(Tail(q)) \subseteq ToSet(Tail(r)) \cup {o}
    <3> SUFFICES ASSUME NEW i \in DOMAIN Tail(q)
                 PROVE  Tail(q)[i] = o \/ \E m \in DOMAIN Tail(r) : Tail(r)[m] = Tail(q)[i]
      BY DEF ToSet
    <3>1. i \in 1 .. k /\ Tail(q)[i] = q[i + 1]
      <4> HIDE DEF q
      <4> QED BY <2>1, <2>3, <1>5
    <3>2. CASE i = k
      BY <3>1, <3>2, <2>1
    <3>3. CASE i # k
      <4>1. i + 1 \in 1 .. k /\ i \in DOMAIN Tail(r) /\ Tail(r)[i] = r[i + 1]
        BY <3>1, <3>3, <1>5
      <4> QED BY <2>1, <3>1, <4>1
    <3> QED BY <3>2, <3>3
  <2> QED BY <2>1, <2>2, <2>3, <2>4
<1> QED BY <1>7, <1>8

-----------------------------------------------------------------------------
(* The inductive invariant of the search.                                  *)
Places == [at : RetryOps, mitigated : BOOLEAN, blocked : BOOLEAN]

RetryIsTyped ==
  /\ RetrierIsTyped
  /\ retrying \in {"start", "loop", "search"}
  /\ loopBody \subseteq RetryOps /\ (retrying = "start" => retrier = NoRetrier)
  /\ retrying # "search" => tries = <<>> /\ trial = NoTrial /\ spins = {}
  /\ tries \in Seq(TrialsOf) /\ trial \in TrialsOf \cup {NoTrial} /\ spins \in SUBSET TrialsOf
  /\ trialStack \in Seq(Places) /\ trialSeen \in SUBSET Places
  /\ trial = NoTrial => trialStack = <<>>

SpinsStraight(t) == \E road \in Roads(t.branch) : Hurried(Tail(road), t.call)

(* A trial is still to come, is being made, was reported, or has no road   *)
(* without a pause or work after its first operation.                      *)
TrialsAreTracked ==
  retrying = "search" => \A t \in TrialsOf : t \in spins \cup ToSet(tries) \cup {trial} \/ ~SpinsStraight(t)

ReportedSpins == \A t \in spins : \E road \in Roads(t.branch) : Hurried(Tail(road), t.call)

(* What waits without a pause or work on the way has a road like that.     *)
Approached(state) ==
  ~state.mitigated /\ ~state.blocked =>
    \E r \in RoadsFrom(trial.branch) : Last(r) = state.at /\ Hurried(Tail(r), trial.call)

StackIsApproached == trial # NoTrial => \A state \in ToSet(trialStack) : Approached(state)

(* What can follow what was seen was seen, or waits, and what was seen did *)
(* not come back.                                                          *)
Following(state, a) ==
  LET error == LoopOp(trial.call).error IN
  Searching(a.to, state.mitigated \/ Mitigates(a.to, error), state.blocked \/ Works(a.to))

TrialIsComplete ==
  trial # NoTrial /\ trial \notin spins =>
    /\ \A a \in ErrorArcs(trial.branch) : Searching(a.to, FALSE, FALSE) \in trialSeen \cup ToSet(trialStack)
    /\ \A state \in trialSeen : state.at \in loopBody =>
         \A a \in ArcsFrom(state.at) :
           /\ ~ComesBack(state, a)
           /\ a.kind # "loop_back" => Following(state, a) \in trialSeen \cup ToSet(trialStack)

SInv == RetryIsTyped /\ TrialsAreTracked /\ ReportedSpins /\ StackIsApproached /\ TrialIsComplete


(* The function, its loop and its roads stay.                              *)
LEMMA SameLoop ==
  ASSUME UNCHANGED <<retrier, loopBody>>
  PROVE  /\ RetrierIsTyped' = RetrierIsTyped /\ RetryOps' = RetryOps /\ Places' = Places /\ TrialsOf' = TrialsOf
         /\ \A o : LoopOp(o)' = LoopOp(o) /\ ErrorArcs(o)' = ErrorArcs(o) /\ ArcsFrom(o)' = ArcsFrom(o)
                   /\ RoadsFrom(o)' = RoadsFrom(o) /\ Roads(o)' = Roads(o) /\ Works(o)' = Works(o)
         /\ \A o, e : Mitigates(o, e)' = Mitigates(o, e)
         /\ \A r, c : Hurried(r, c)' = Hurried(r, c)
<1>1. RetrierIsTyped' = RetrierIsTyped /\ RetryOps' = RetryOps /\ Places' = Places
  BY DEF RetrierIsTyped, RetryOps, Places
<1>2. TrialsOf' = TrialsOf
  BY DEF TrialsOf, LoopOp
<1>3. \A o : LoopOp(o)' = LoopOp(o) /\ ErrorArcs(o)' = ErrorArcs(o) /\ ArcsFrom(o)' = ArcsFrom(o)
  BY DEF LoopOp, ErrorArcs, ArcsFrom
<1>4. Inside' = Inside
  BY DEF Inside
<1>5. \A X : Lengthened(X)' = Lengthened(X)
  BY <1>4 DEF Lengthened
<1>6. \A o : RoadsFrom(o)' = RoadsFrom(o)
  BY <1>3, <1>5 DEF RoadsFrom
<1>7. \A o : LeadsBack(o)' = LeadsBack(o)
  BY <1>3 DEF LeadsBack
<1>8. \A o : Roads(o)' = Roads(o)
  BY <1>6, <1>7 DEF Roads
<1>9. \A o : Works(o)' = Works(o)
  BY DEF Works, LoopOp
<1>10. AssignedNames' = AssignedNames
  BY DEF AssignedNames, LoopOp
<1>11. \A o, e : Mitigates(o, e)' = Mitigates(o, e)
  BY <1>10 DEF Mitigates, LoopOp
<1>12. \A r, c : Hurried(r, c)' = Hurried(r, c)
  BY <1>3, <1>9, <1>11 DEF Hurried
<1> QED BY <1>1, <1>2, <1>3, <1>6, <1>8, <1>9, <1>11, <1>12

(* A road is hurried when none of its operations pauses or works.          *)
LEMMA HurriedIsQuiet ==
  ASSUME NEW r, NEW call
  PROVE  Hurried(r, call) <=> \A o \in ToSet(r) : Quiet(o, call)
BY DEF Hurried, Quiet, ToSet

(* The trials of a function are finitely many pairs of its operations.     *)
LEMMA TrialFacts ==
  ASSUME RetrierIsTyped, loopBody \subseteq RetryOps
  PROVE  /\ IsFiniteSet(TrialsOf) /\ NoTrial \notin TrialsOf
         /\ \A t \in TrialsOf : t.call \in Nat /\ t.branch \in Nat /\ t = [call |-> t.call, branch |-> t.branch]
         /\ \A b : IsFiniteSet(ErrorArcs(b)) /\ ErrorArcs(b) \subseteq retrier.arcs
         /\ \A b : IsFiniteSet(ArcsFrom(b)) /\ ArcsFrom(b) \subseteq retrier.arcs
<1> DEFINE n == Len(retrier.ops)
           pairs == RetryOps \X RetryOps
           trials == [p \in pairs |-> [call |-> p[1], branch |-> p[2]]]
           image == {trials[p] : p \in pairs}
<1>1. n \in Nat /\ RetryOps = 1 .. n
  BY RetrierFacts
<1>2. \A t \in TrialsOf : /\ t.call \in RetryOps /\ t.branch \in RetryOps
                          /\ t = [call |-> t.call, branch |-> t.branch]
  <2> DEFINE failing == {o \in loopBody : LoopOp(o).kind = "call" /\ LoopOp(o).risky /\ LoopOp(o).error # ""}
             testing == {o \in loopBody : LoopOp(o).kind = "branch"}
  <2>1. failing \subseteq RetryOps /\ testing \subseteq RetryOps
    OBVIOUS
  <2>2. TrialsOf \subseteq [call : failing, branch : testing]
    BY DEF TrialsOf
  <2> HIDE DEF failing, testing
  <2> QED BY <2>1, <2>2
<1>3. IsFiniteSet(RetryOps) /\ IsFiniteSet(pairs)
  <2>1. IsFiniteSet(RetryOps)
    BY <1>1, FS_Interval
  <2> QED BY <2>1, FS_Product
<1>4. IsFiniteSet(image)
  <2> HIDE DEF pairs
  <2>1. trials \in [pairs -> image]
    OBVIOUS
  <2>2. trials \in Surjection(pairs, image)
    BY <2>1 DEF Surjection
  <2> HIDE DEF image, trials
  <2> QED BY <1>3, <2>2, FS_Surjection
<1>5. TrialsOf \subseteq image
  <2> SUFFICES ASSUME NEW t \in TrialsOf PROVE t \in image
    OBVIOUS
  <2> DEFINE p == <<t.call, t.branch>>
  <2>1. p \in pairs /\ trials[p] = t
    BY <1>2
  <2> HIDE DEF p, trials, pairs
  <2> QED BY <2>1
<1> HIDE DEF image
<1>6. IsFiniteSet(TrialsOf)
  BY <1>4, <1>5, FS_Subset
<1>7. NoTrial \notin TrialsOf
  <2>1. NoTrial.call \notin RetryOps
    BY <1>1 DEF NoTrial
  <2> QED BY <1>2, <2>1
<1>8. \A b : IsFiniteSet(ArcsFrom(b)) /\ ArcsFrom(b) \subseteq retrier.arcs
  BY RetrierFacts, FS_Subset DEF ArcsFrom
<1>9. \A b : IsFiniteSet(ErrorArcs(b)) /\ ErrorArcs(b) \subseteq retrier.arcs
  <2>1. \A b : ErrorArcs(b) \subseteq retrier.arcs
    BY <1>8 DEF ErrorArcs
  <2> QED BY <2>1, RetrierFacts, FS_Subset
<1> QED BY <1>1, <1>2, <1>6, <1>7, <1>8, <1>9

(* What pauses and what works is told by yes or no.                        *)
LEMMA FlagsAreBoolean ==
  ASSUME RetrierIsTyped, NEW o \in RetryOps, NEW error
  PROVE  Mitigates(o, error) \in BOOLEAN /\ Works(o) \in BOOLEAN
<1> DEFINE Record == [kind : STRING, risky : BOOLEAN, error : STRING, tests : STRING, failsOn : STRING,
                      sets : SUBSET STRING, reads : SUBSET STRING, limits : BOOLEAN, pauses : BOOLEAN,
                      records : BOOLEAN]
<1>1. retrier \in Retriers
  BY DEF RetrierIsTyped, RetryOps, NoRetrier
<1>2. retrier.ops \in Seq(Record)
  BY <1>1, RetryAssumption
<1> HIDE DEF Record
<1>3. retrier.ops[o] \in Record
  BY <1>2 DEF RetryOps
<1>4. LoopOp(o).pauses \in BOOLEAN
  BY <1>3 DEF LoopOp, Record
<1>5. Mitigates(o, error) \in BOOLEAN
  <2>1. CASE LoopOp(o).kind = "branch"
    BY <2>1 DEF Mitigates
  <2>2. CASE LoopOp(o).kind = "call"
    BY <2>2, <1>4 DEF Mitigates
  <2>3. CASE LoopOp(o).kind \notin {"branch", "call"}
    BY <2>3 DEF Mitigates
  <2> QED BY <2>1, <2>2, <2>3
<1>6. Works(o) \in BOOLEAN
  BY DEF Works
<1> QED BY <1>5, <1>6

(* The trials are taken one after the other, all of them.                  *)
LEMMA SortedTrials ==
  ASSUME RetrierIsTyped, loopBody \subseteq RetryOps
  PROVE  LET s == Sorted(TrialsOf, {x \in TrialsOf \X TrialsOf : Earlier(x[1], x[2])}) IN
         s \in Seq(TrialsOf) /\ ToSet(s) = TrialsOf
<1> DEFINE T == TrialsOf
           R == {x \in T \X T : Earlier(x[1], x[2])}
<1>1. /\ IsFiniteSet(T)
      /\ \A t \in T : t.call \in Nat /\ t.branch \in Nat /\ t = [call |-> t.call, branch |-> t.branch]
  BY TrialFacts
<1> HIDE DEF T
<1>2. \A x, y \in T : <<x, y>> \in R <=> Earlier(x, y)
  OBVIOUS
<1> HIDE DEF R
<1>3. IsStrictOrder(T, R)
  <2>1. ASSUME NEW x \in T PROVE <<x, x>> \notin R
    BY <1>1, <1>2 DEF Earlier
  <2>2. ASSUME NEW x \in T, NEW y \in T, x # y PROVE <<x, y>> \in R \/ <<y, x>> \in R
    <3>1. x.call # y.call \/ x.branch # y.branch
      BY <2>2, <1>1
    <3> QED BY <3>1, <1>1, <1>2 DEF Earlier
  <2>3. ASSUME NEW x \in T, NEW y \in T, NEW z \in T, <<x, y>> \in R, <<y, z>> \in R PROVE <<x, z>> \in R
    BY <2>3, <1>1, <1>2 DEF Earlier
  <2> QED BY <2>1, <2>2, <2>3 DEF IsStrictOrder
<1> DEFINE s == Sorted(T, R)
<1>4. /\ Cardinality(T) \in Nat /\ s \in Seq(T) /\ Len(s) = Cardinality(T)
      /\ \A x \in T : \E k \in 1 .. Cardinality(T) : s[k] = x
  BY <1>1, <1>3, SortedListsTheSet
<1> HIDE DEF s
<1>5. ToSet(s) = T
  BY <1>4 DEF ToSet
<1> QED BY <1>4, <1>5 DEF s, T, R

(* Stacks: the last state, the ones below it, and more on top.             *)
LEMMA StackFacts ==
  ASSUME NEW S, NEW q \in Seq(S), q # <<>>, NEW more \in Seq(S)
  PROVE  /\ Last(q) \in S /\ Last(q) \in ToSet(q) /\ Front(q) \o more \in Seq(S) /\ Front(q) \in Seq(S)
         /\ ToSet(q) = {Last(q)} \cup ToSet(Front(q))
         /\ ToSet(Front(q) \o more) = ToSet(Front(q)) \cup ToSet(more)
<1> DEFINE k == Len(q)
           f == Front(q)
<1>1. k \in Nat /\ k >= 1 /\ k \in 1 .. k
  BY EmptySeq
<1>2. f \in Seq(S) /\ Len(f) = k - 1 /\ \A i \in 1 .. k - 1 : f[i] = q[i]
  <2>1. 1 \in 1 .. k + 1 /\ k - 1 \in 1 - 1 .. k
    BY <1>1
  <2>2. /\ f \in Seq(S) /\ Len(f) = k - 1
        /\ \A i \in 1 .. k - 1 : f[i] = q[1 + i - 1]
    <3> DEFINE m == k - 1
    <3>1. f = SubSeq(q, 1, m)
      BY DEF Front
    <3>2. 1 \in Int /\ m \in Int /\ \A i \in 1 .. m : q[i] \in S
      <4>1. 1 \in Int /\ m \in Int /\ \A i \in 1 .. m : i \in 1 .. k
        BY <1>1
      <4>2. \A i \in 1 .. k : q[i] \in S
        BY DEF k
      <4> QED BY <4>1, <4>2
    <3>4. m - 1 + 1 = m /\ (~(1 <= m) => m = 0)
      <4> HIDE DEF k, f
      <4> QED BY <1>1
    <3> HIDE DEF f, m
    <3>5. /\ f \in Seq(S) /\ Len(f) = (IF 1 <= m THEN m - 1 + 1 ELSE 0)
          /\ \A i \in 1 .. m - 1 + 1 : f[i] = q[1 + i - 1]
      BY <3>1, <3>2, SubSeqProperties
    <3> QED BY <3>4, <3>5 DEF m
  <2>3. \A i \in 1 .. k - 1 : 1 + i - 1 = i
    BY <1>1
  <2> QED BY <2>2, <2>3
<1>3. Last(q) = q[k] /\ Last(q) \in S
  BY <1>1 DEF Last
<1> HIDE DEF k, f
<1>4. {q[i] : i \in 1 .. k} = {q[k]} \cup {f[i] : i \in 1 .. k - 1}
  <2>1. ASSUME NEW i \in 1 .. k PROVE q[i] \in {q[k]} \cup {f[j] : j \in 1 .. k - 1}
    <3>1. CASE i = k
      BY <3>1
    <3>2. CASE i # k
      <4>1. i \in 1 .. k - 1
        BY <3>2, <1>1
      <4> QED BY <4>1, <1>2
    <3> QED BY <3>1, <3>2
  <2>2. \A i \in 1 .. k - 1 : f[i] = q[i] /\ i \in 1 .. k
    BY <1>1, <1>2
  <2> QED BY <2>1, <2>2, <1>1
<1>5. ToSet(q) = {Last(q)} \cup ToSet(f)
  <2>1. DOMAIN q = 1 .. k /\ DOMAIN f = 1 .. k - 1
    BY <1>1, <1>2 DEF k
  <2> QED BY <2>1, <1>3, <1>4 DEF ToSet
<1>6. f \o more \in Seq(S)
  BY <1>2
<1>7. ToSet(f \o more) = ToSet(f) \cup ToSet(more)
  <2> DEFINE g == f \o more
             a == Len(f)
             b == Len(more)
  <2>1. /\ a \in Nat /\ b \in Nat /\ Len(g) = a + b
        /\ DOMAIN g = 1 .. a + b /\ DOMAIN f = 1 .. a /\ DOMAIN more = 1 .. b
        /\ \A i \in 1 .. a : g[i] = f[i]
        /\ \A i \in 1 .. b : g[a + i] = more[i]
    <3>1. f \in Seq(S)
      BY <1>2
    <3>2. a \in Nat /\ b \in Nat /\ Len(g) = a + b /\ DOMAIN f = 1 .. a /\ DOMAIN more = 1 .. b
      BY <3>1
    <3>3. DOMAIN g = 1 .. a + b
      BY <3>1
    <3>4. \A i \in 1 .. a : g[i] = f[i]
      BY <3>1
    <3>5. \A i \in 1 .. b : g[a + i] = more[i]
      BY <3>1
    <3> QED BY <3>2, <3>3, <3>4, <3>5
  <2> HIDE DEF g, a, b
  <2>2. ASSUME NEW i \in 1 .. a + b PROVE g[i] \in ToSet(f) \cup ToSet(more)
    <3>1. CASE i \in 1 .. a
      BY <3>1, <2>1 DEF ToSet
    <3>2. CASE i \notin 1 .. a
      <4>1. i - a \in 1 .. b /\ a + (i - a) = i
        BY <3>2, <2>1
      <4>2. g[i] = more[i - a]
        BY <4>1, <2>1
      <4> QED BY <4>1, <4>2, <2>1 DEF ToSet
    <3> QED BY <3>1, <3>2
  <2>3. /\ \A i \in 1 .. a : i \in 1 .. a + b
        /\ \A i \in 1 .. b : a + i \in 1 .. a + b
    BY <2>1
  <2>4. \A i \in 1 .. a : f[i] \in ToSet(g)
    BY <2>1, <2>3 DEF ToSet
  <2>5. \A i \in 1 .. b : more[i] \in ToSet(g)
    BY <2>1, <2>3 DEF ToSet
  <2> QED BY <2>1, <2>2, <2>4, <2>5 DEF ToSet, g
<1> QED BY <1>2, <1>3, <1>5, <1>6, <1>7 DEF f

(* A road starts where the failure leads.                                  *)
LEMMA RoadsStart ==
  ASSUME RetrierIsTyped, NEW branch, NEW a \in ErrorArcs(branch)
  PROVE  <<a.to>> \in RoadsFrom(branch)
<1> DEFINE n == Len(retrier.ops)
<1>1. n \in Nat
  BY RetrierFacts
<1>2. PICK f : Grows(f, branch) /\ RoadsFrom(branch) = f[n]
  BY RoadsAreALoop DEF Grows
<1>3. <<a.to>> \in f[0] /\ 0 \in 0 .. n /\ n \in 0 .. n
  BY <1>1, <1>2 DEF Grows
<1> QED BY <1>2, <1>3, RoadsStay

(* A state with nothing against it on the way, and one that follows it.    *)
LEMMA FollowingFacts ==
  ASSUME RetrierIsTyped, NEW state \in Places, NEW a \in retrier.arcs
  PROVE  /\ Following(state, a) \in Places /\ Following(state, a).at = a.to
         /\ ~Following(state, a).mitigated /\ ~Following(state, a).blocked
              <=> ~state.mitigated /\ ~state.blocked /\ Quiet(a.to, trial.call)
<1> DEFINE error == LoopOp(trial.call).error
           m == Mitigates(a.to, error)
           w == Works(a.to)
<1>1. a.to \in RetryOps
  BY RetrierFacts
<1>2. m \in BOOLEAN /\ w \in BOOLEAN
  BY <1>1, FlagsAreBoolean
<1>3. state.mitigated \in BOOLEAN /\ state.blocked \in BOOLEAN
  BY DEF Places
<1>4. Following(state, a) =
        [at |-> a.to, mitigated |-> (state.mitigated \/ m), blocked |-> (state.blocked \/ w)]
  BY DEF Following, Searching
<1>5. Quiet(a.to, trial.call) <=> ~m /\ ~w
  BY DEF Quiet
<1> HIDE DEF m, w
<1>6. (state.mitigated \/ m) \in BOOLEAN /\ (state.blocked \/ w) \in BOOLEAN
  OBVIOUS
<1>7. Following(state, a) \in Places
  BY <1>1, <1>4, <1>6 DEF Places
<1>8. /\ Following(state, a).at = a.to
      /\ Following(state, a).mitigated = (state.mitigated \/ m)
      /\ Following(state, a).blocked = (state.blocked \/ w)
  BY <1>4
<1> QED BY <1>2, <1>3, <1>5, <1>7, <1>8

(* Clear(o) is the state at o with nothing against it.                     *)
Clear(o) == Searching(o, FALSE, FALSE)

(* What follows it when the next operation is quiet.                       *)
LEMMA ClearGoesOn ==
  ASSUME RetrierIsTyped, NEW o \in RetryOps, NEW a \in retrier.arcs, Quiet(a.to, trial.call)
  PROVE  Clear(o) \in Places /\ Following(Clear(o), a) = Clear(a.to)
<1> DEFINE state == Clear(o)
           next == Following(state, a)
<1>1. state \in Places /\ ~state.mitigated /\ ~state.blocked
  BY DEF Clear, Searching, Places
<1> HIDE DEF state
<1>2. next \in Places /\ next.at = a.to /\ ~next.mitigated /\ ~next.blocked
  BY <1>1, FollowingFacts
<1> HIDE DEF next
<1>3. next.mitigated = FALSE /\ next.blocked = FALSE
  BY <1>2 DEF Places
<1>4. next = [at |-> next.at, mitigated |-> next.mitigated, blocked |-> next.blocked]
  BY <1>2 DEF Places
<1>5. next = Clear(a.to)
  BY <1>2, <1>3, <1>4 DEF Clear, Searching
<1> QED BY <1>1, <1>5 DEF state, next

(* A search whose stack is empty has missed no hurried road.               *)
LEMMA NothingIsMissed ==
  ASSUME RetryIsTyped, TrialIsComplete, trial # NoTrial, trial \notin spins, trialStack = <<>>
  PROVE  ~SpinsStraight(trial)
<1> DEFINE n == Len(retrier.ops)
           allQuiet(r) == \A o \in ToSet(Tail(r)) : Quiet(o, trial.call)
           branch == trial.branch
<1>1. RetrierIsTyped
  BY DEF RetryIsTyped
<1>2. n \in Nat /\ retrier.arcs \subseteq [from : RetryOps, to : RetryOps, kind : STRING]
  BY <1>1, RetrierFacts
<1>3. PICK f : Grows(f, branch) /\ RoadsFrom(branch) = f[n]
  BY <1>1, RoadsAreALoop DEF Grows
<1>4. ToSet(trialStack) = {}
  BY DEF ToSet
<1>5. /\ \A a \in ErrorArcs(branch) : Clear(a.to) \in trialSeen
      /\ \A state \in trialSeen : state.at \in loopBody =>
           \A a \in ArcsFrom(state.at) :
             /\ ~ComesBack(state, a)
             /\ a.kind # "loop_back" => Following(state, a) \in trialSeen
  BY <1>4, Zenon DEF TrialIsComplete, Clear
<1> DEFINE T == {i \in 0 .. n : \A r \in f[i] : allQuiet(r) => Clear(Last(r)) \in trialSeen}
<1>6. 0 \in T
  <2> SUFFICES ASSUME NEW r \in f[0] PROVE Clear(Last(r)) \in trialSeen
    BY <1>2
  <2>1. PICK a \in ErrorArcs(branch) : r = <<a.to>>
    BY <1>3 DEF Grows
  <2>2. Last(r) = a.to
    BY <2>1 DEF Last
  <2> QED BY <1>5, <2>2
<1>7. ASSUME NEW i \in 1 .. n, i - 1 \in T PROVE i \in T
  <2> SUFFICES ASSUME NEW r \in f[i], allQuiet(r) PROVE Clear(Last(r)) \in trialSeen
    BY <1>2
  <2>1. f[i] = f[i - 1] \cup Lengthened(f[i - 1]) /\ f[i - 1] \subseteq Seq(RetryOps)
    <3>1. i - 1 \in 0 .. n
      BY <1>2
    <3> QED BY <1>3, <3>1 DEF Grows
  <2>2. CASE r \in f[i - 1]
    BY <1>7, <2>2
  <2>3. CASE r \in Lengthened(f[i - 1])
    <3>1. PICK q \in f[i - 1], a \in Inside : r = Append(q, a.to) /\ a.from = Last(q)
      BY <2>3 DEF Lengthened
    <3>2. a \in retrier.arcs /\ a.kind # "loop_back" /\ a.from \in loopBody /\ a \in ArcsFrom(a.from)
      BY DEF Inside, ArcsFrom
    <3>3. a.from \in RetryOps /\ a.to \in RetryOps
      BY <1>2, <3>2
    <3>4. q \in Seq(RetryOps) /\ q # <<>>
      <4>1. IsRoadOf(f, i - 1, q)
        <5>1. i - 1 \in 0 .. n
          BY <1>2
        <5> QED BY <1>1, <1>3, <3>1, <5>1, RoadsAreRoads
      <4> QED BY <2>1, <4>1 DEF IsRoadOf
    <3>5. ToSet(Tail(q)) \subseteq ToSet(Tail(r)) /\ a.to \in ToSet(Tail(r)) /\ Last(r) = a.to
      <4> DEFINE o == a.to
      <4> HIDE DEF o
      <4>1. /\ r = Append(q, o) /\ Len(r) = Len(q) + 1 /\ r[Len(q) + 1] = o /\ Len(q) \in Nat
            /\ \A k \in 1 .. Len(q) : r[k] = q[k]
            /\ DOMAIN r = 1 .. Len(q) + 1 /\ DOMAIN q = 1 .. Len(q)
        BY <3>1, <3>3, <3>4 DEF o
      <4> DEFINE k == Len(q)
      <4>2. Last(r) = o /\ k # 0
        BY <3>4, <4>1 DEF Last
      <4>3. /\ DOMAIN Tail(r) = 1 .. k /\ \A m \in 1 .. k : Tail(r)[m] = r[m + 1]
            /\ DOMAIN Tail(q) = 1 .. k - 1 /\ \A m \in 1 .. k - 1 : Tail(q)[m] = q[m + 1]
        <5>1. r \in Seq(RetryOps) /\ r # <<>>
          BY <3>3, <3>4, <4>1 DEF o
        <5> QED BY <3>4, <4>1, <4>2, <5>1
      <4>4. k \in 1 .. k /\ Tail(r)[k] = o
        BY <4>1, <4>2, <4>3
      <4>5. \A m \in 1 .. k - 1 : m \in 1 .. k /\ Tail(r)[m] = Tail(q)[m]
        <5>1. \A m \in 1 .. k - 1 : m \in 1 .. k /\ m + 1 \in 1 .. k
          BY <4>1
        <5> QED BY <4>1, <4>3, <5>1
      <4>6. o \in ToSet(Tail(r))
        BY <4>3, <4>4 DEF ToSet
      <4>7. ToSet(Tail(q)) \subseteq ToSet(Tail(r))
        BY <4>3, <4>5 DEF ToSet
      <4> QED BY <4>2, <4>6, <4>7 DEF o
    <3>6. Clear(a.from) \in trialSeen
      <4>1. allQuiet(q)
        BY <3>5
      <4> QED BY <1>7, <3>1, <4>1
    <3>7. Quiet(a.to, trial.call)
      BY <3>5
    <3>8. Following(Clear(a.from), a) = Clear(a.to)
      BY <1>1, <3>2, <3>3, <3>7, ClearGoesOn
    <3>9. Clear(a.from).at = a.from
      BY DEF Clear, Searching
    <3> QED BY <1>5, <3>2, <3>5, <3>6, <3>8, <3>9
  <2> QED BY <2>1, <2>2, <2>3
<1> HIDE DEF T
<1>8. 0 .. n \subseteq T
  BY <1>2, <1>6, <1>7, UpToNumber
<1>9. n \in 0 .. n
  BY <1>2
<1> SUFFICES ASSUME NEW road \in Roads(branch), Hurried(Tail(road), trial.call) PROVE FALSE
  BY DEF SpinsStraight
<1>10. allQuiet(road)
  BY HurriedIsQuiet
<1>11. Clear(Last(road)) \in trialSeen
  BY <1>3, <1>8, <1>9, <1>10 DEF T, Roads
<1>12. PICK a \in ArcsFrom(Last(road)) : a.kind = "loop_back" /\ a.to = retrier.loop.at
  BY DEF Roads, LeadsBack
<1>13. Last(road) \in loopBody /\ Clear(Last(road)).at = Last(road)
  BY DEF Roads, LeadsBack, Clear, Searching
<1>14. ComesBack(Clear(Last(road)), a)
  BY <1>12 DEF ComesBack, Clear, Searching
<1> QED BY <1>5, <1>11, <1>12, <1>13, <1>14

-----------------------------------------------------------------------------
(* The images of finitely many arcs are listed.                            *)
LEMMA ImagesAreListed ==
  ASSUME NEW A, IsFiniteSet(A), NEW S, NEW image \in SUBSET S, NEW g \in [A -> image],
         \A x \in image : \E a \in A : g[a] = x
  PROVE  SetToSeq(image) \in Seq(S) /\ ToSet(SetToSeq(image)) = image
<1>1. image \subseteq S
  OBVIOUS
<1>2. g \in Surjection(A, image)
  BY DEF Surjection
<1>3. IsFiniteSet(image)
  BY <1>2, FS_Surjection
<1> DEFINE list == SetToSeq(image)
<1>4. list \in Seq(image) /\ ToSet(list) = image
  BY <1>3, ListsTheSet
<1> HIDE DEF list
<1>5. list \in Seq(S)
  BY <1>1, <1>4
<1> QED BY <1>4, <1>5 DEF list

(* The body of a loop is made of operations.                               *)
LEMMA OwnedIsInside == RetrierIsTyped => Owned \subseteq RetryOps
<1> SUFFICES ASSUME RetrierIsTyped, NEW o \in Owned PROVE o \in RetryOps
  OBVIOUS
<1>1. \A a \in retrier.arcs : a.from \in RetryOps /\ a.to \in RetryOps
  BY RetrierFacts
<1> DEFINE within == {<<a.from, a.to>> : a \in {b \in retrier.arcs : b.kind # "loop_exit"}}
<1>2. \A p \in within : p[2] \in RetryOps
  BY <1>1
<1>3. \E all : LET inner == {p[2] : p \in {q \in within : q[1] \in all}} IN
         o \in inner \cup {a.from : a \in {b \in retrier.arcs : b.to \in inner}}
  BY DEF Owned
<1> HIDE DEF within
<1> QED BY <1>1, <1>2, <1>3

(* At first there is no function.                                          *)
LEMMA RetryStarts == RetryInit => SInv
<1> SUFFICES ASSUME RetryInit PROVE SInv
  OBVIOUS
<1> USE DEF RetryInit
<1>1. RetryIsTyped
  BY DEF RetryIsTyped, RetrierIsTyped
<1>2. TrialsAreTracked /\ ReportedSpins /\ StackIsApproached /\ TrialIsComplete
  BY DEF TrialsAreTracked, ReportedSpins, StackIsApproached, TrialIsComplete
<1> QED BY <1>1, <1>2 DEF SInv

(* A function is given.                                                    *)
LEMMA BeginRetryKeepsS == SInv /\ BeginRetry => SInv'
<1> SUFFICES ASSUME SInv, BeginRetry PROVE SInv'
  OBVIOUS
<1> USE DEF BeginRetry
<1>1. RetryIsTyped /\ retrier = NoRetrier /\ tries = <<>> /\ trial = NoTrial /\ spins = {} /\ trialStack = <<>>
  BY DEF SInv, RetryIsTyped
<1>2. RetryOps = {}
  BY <1>1 DEF RetryOps, NoRetrier
<1>3. loopBody = {} /\ trialSeen = {}
  BY <1>1, <1>2 DEF RetryIsTyped, Places
<1>4. RetryIsTyped'
  BY <1>1, <1>3 DEF RetryIsTyped, RetrierIsTyped
<1>5. (TrialsAreTracked /\ ReportedSpins /\ StackIsApproached /\ TrialIsComplete)'
  BY <1>1 DEF TrialsAreTracked, ReportedSpins, StackIsApproached, TrialIsComplete
<1> QED BY <1>4, <1>5 DEF SInv

(* The loop's body becomes known.                                          *)
LEMMA OwnLoopKeepsS == SInv /\ OwnLoop => SInv'
<1> SUFFICES ASSUME SInv, OwnLoop PROVE SInv'
  OBVIOUS
<1> USE DEF OwnLoop
<1>1. RetryIsTyped /\ retrying = "loop" /\ tries = <<>> /\ trial = NoTrial /\ spins = {} /\ trialStack = <<>>
  BY DEF SInv, RetryIsTyped
<1>2. RetryIsTyped'
  <2>1. RetrierIsTyped' /\ RetryOps' = RetryOps /\ Places' = Places
    BY <1>1 DEF RetryIsTyped, RetrierIsTyped, RetryOps, Places
  <2>2. loopBody' \subseteq RetryOps'
    BY <1>1, <2>1, OwnedIsInside DEF RetryIsTyped
  <2> QED BY <1>1, <2>1, <2>2 DEF RetryIsTyped
<1>3. (TrialsAreTracked /\ ReportedSpins /\ StackIsApproached /\ TrialIsComplete)'
  BY <1>1 DEF TrialsAreTracked, ReportedSpins, StackIsApproached, TrialIsComplete
<1> QED BY <1>2, <1>3 DEF SInv

(* The trials are listed.                                                  *)
LEMMA ListTrialsKeepsS == SInv /\ ListTrials => SInv'
<1> SUFFICES ASSUME SInv, ListTrials PROVE SInv'
  OBVIOUS
<1> USE DEF ListTrials
<1>1. RetryIsTyped /\ retrying = "loop" /\ trial = NoTrial /\ spins = {} /\ trialStack = <<>>
  BY DEF SInv, RetryIsTyped
<1>2. tries' \in Seq(TrialsOf) /\ ToSet(tries') = TrialsOf
  BY <1>1, SortedTrials DEF RetryIsTyped
<1>3. RetrierIsTyped' = RetrierIsTyped /\ RetryOps' = RetryOps /\ Places' = Places /\ TrialsOf' = TrialsOf
  BY SameLoop
<1>4. RetryIsTyped'
  BY <1>1, <1>2, <1>3 DEF RetryIsTyped
<1>5. TrialsAreTracked'
  BY <1>2, <1>3 DEF TrialsAreTracked
<1>6. (ReportedSpins /\ StackIsApproached /\ TrialIsComplete)'
  BY <1>1 DEF ReportedSpins, StackIsApproached, TrialIsComplete
<1> QED BY <1>4, <1>5, <1>6 DEF SInv

(* What each part of the invariant reads of the loop stays.                *)
LEMMA LoopStays ==
  ASSUME UNCHANGED <<retrier, loopBody>>
  PROVE  /\ \A t : SpinsStraight(t)' = SpinsStraight(t)
         /\ \A o, call : Quiet(o, call)' = Quiet(o, call)
         /\ \A s, a : ComesBack(s, a)' = ComesBack(s, a)
<1>1. \A t : SpinsStraight(t)' = SpinsStraight(t)
  BY SameLoop DEF SpinsStraight
<1>2. \A o, call : Quiet(o, call)' = Quiet(o, call)
  BY SameLoop DEF Quiet
<1>3. \A s, a : ComesBack(s, a)' = ComesBack(s, a)
  BY DEF ComesBack
<1> QED BY <1>1, <1>2, <1>3

(* The first of a list and the others.                                     *)
LEMMA HeadFacts ==
  ASSUME NEW S, NEW q \in Seq(S), q # <<>>
  PROVE  Head(q) \in S /\ Tail(q) \in Seq(S) /\ ToSet(q) = {Head(q)} \cup ToSet(Tail(q))
<1> DEFINE k == Len(q)
           rest == Tail(q)
<1>1. /\ Head(q) = q[1] /\ rest \in Seq(S) /\ Len(rest) = k - 1 /\ k \in Nat /\ k >= 1
      /\ \A i \in 1 .. k - 1 : rest[i] = q[i + 1]
  BY EmptySeq
<1>2. DOMAIN rest = 1 .. k - 1 /\ DOMAIN q = 1 .. k /\ Head(q) \in S
  BY <1>1
<1> HIDE DEF k, rest
<1>3. ASSUME NEW i \in 1 .. k PROVE q[i] = Head(q) \/ q[i] \in ToSet(rest)
  <2>1. CASE i = 1
    BY <2>1, <1>1
  <2>2. CASE i # 1
    <3>1. i - 1 \in 1 .. k - 1 /\ (i - 1) + 1 = i
      BY <2>2, <1>1
    <3>2. rest[i - 1] = q[i]
      BY <3>1, <1>1
    <3> QED BY <3>1, <3>2, <1>2 DEF ToSet
  <2> QED BY <2>1, <2>2
<1>4. 1 \in 1 .. k /\ \A i \in 1 .. k - 1 : i + 1 \in 1 .. k
  BY <1>1
<1>5. \A i \in 1 .. k - 1 : rest[i] \in ToSet(q)
  BY <1>1, <1>2, <1>4 DEF ToSet
<1>6. Head(q) \in ToSet(q)
  BY <1>1, <1>2, <1>4 DEF ToSet
<1>7. ToSet(q) \subseteq {Head(q)} \cup ToSet(rest)
  BY <1>2, <1>3 DEF ToSet
<1>8. ToSet(rest) \subseteq ToSet(q)
  BY <1>2, <1>5 DEF ToSet
<1> QED BY <1>1, <1>2, <1>6, <1>7, <1>8 DEF rest

(* The next trial starts where its failure leads.                          *)
LEMMA BeginTrialKeepsS == SInv /\ BeginTrial => SInv'
<1> SUFFICES ASSUME SInv, BeginTrial PROVE SInv'
  OBVIOUS
<1> USE DEF BeginTrial
<1>0. PICK t : t = Head(tries)
  OBVIOUS
<1>1. RetryIsTyped /\ retrying = "search" /\ trial = NoTrial /\ tries # <<>> /\ RetrierIsTyped
  BY DEF SInv, RetryIsTyped
<1>2. RetrierIsTyped' /\ RetryOps' = RetryOps /\ Places' = Places /\ TrialsOf' = TrialsOf
  BY <1>1, SameLoop
<1>3. /\ t \in TrialsOf /\ Tail(tries) \in Seq(TrialsOf)
      /\ ToSet(tries) = {t} \cup ToSet(Tail(tries))
  <2>1. tries \in Seq(TrialsOf)
    BY <1>1 DEF RetryIsTyped
  <2> QED BY <1>0, <1>1, <2>1, HeadFacts
<1>4. trial' = t /\ tries' = Tail(tries) /\ spins' = spins /\ trialSeen' = {} /\ t # NoTrial
  BY <1>0, <1>1, <1>3, TrialFacts DEF RetryIsTyped
<1> DEFINE start == {Clear(a.to) : a \in ErrorArcs(t.branch)}
<1>5. trialStack' \in Seq(Places) /\ ToSet(trialStack') = start
  <2> DEFINE A == ErrorArcs(t.branch)
             g == [a \in A |-> Clear(a.to)]
  <2>1. IsFiniteSet(A) /\ A \subseteq retrier.arcs
    BY <1>1, TrialFacts DEF RetryIsTyped
  <2>2. \A a \in A : Clear(a.to) \in Places
    BY <1>1, <2>1, RetrierFacts DEF Clear, Searching, Places
  <2>3. start \subseteq Places /\ g \in [A -> start] /\ \A x \in start : \E a \in A : g[a] = x
    BY <2>2
  <2>4. trialStack' = SetToSeq(start)
    BY <1>0 DEF Clear
  <2> HIDE DEF A, g, start
  <2>5. SetToSeq(start) \in Seq(Places) /\ ToSet(SetToSeq(start)) = start
    BY <2>1, <2>3, ImagesAreListed
  <2> QED BY <2>4, <2>5
<1>6. RetryIsTyped'
  <2>1. retrying' = "search" /\ loopBody' \subseteq RetryOps' /\ spins' \in SUBSET TrialsOf'
    BY <1>1, <1>2 DEF RetryIsTyped
  <2>2. tries' \in Seq(TrialsOf') /\ trial' \in TrialsOf' \cup {NoTrial} /\ trial' # NoTrial
    BY <1>2, <1>3, <1>4
  <2>3. trialStack' \in Seq(Places') /\ trialSeen' \in SUBSET Places'
    BY <1>2, <1>4, <1>5
  <2> QED BY <1>2, <2>1, <2>2, <2>3 DEF RetryIsTyped
<1>7. TrialsAreTracked'
  <2>1. \A x \in TrialsOf : x \in spins \cup ToSet(tries) \cup {trial} \/ ~SpinsStraight(x)
    BY <1>1 DEF SInv, TrialsAreTracked
  <2>2. \A x \in TrialsOf : x \in spins \cup ToSet(Tail(tries)) \cup {t} \/ ~SpinsStraight(x)
    BY <2>1, <1>1, <1>3, TrialFacts DEF RetryIsTyped
  <2>3. \A x : SpinsStraight(x)' = SpinsStraight(x)
    BY LoopStays
  <2> QED BY <1>2, <1>4, <2>2, <2>3 DEF TrialsAreTracked
<1>8. ReportedSpins'
  BY SameLoop DEF SInv, ReportedSpins
<1>9. StackIsApproached'
  <2> SUFFICES ASSUME NEW state \in ToSet(trialStack') PROVE Approached(state)'
    BY DEF StackIsApproached
  <2>1. PICK a \in ErrorArcs(t.branch) : state = Clear(a.to)
    BY <1>5
  <2> DEFINE r == <<a.to>>
  <2>2. r \in RoadsFrom(t.branch)
    BY <1>1, RoadsStart
  <2>3. Last(r) = a.to /\ Tail(r) = <<>>
    BY DEF Last
  <2>4. Hurried(Tail(r), t.call)
    BY <2>3 DEF Hurried
  <2>5. state.at = a.to
    BY <2>1 DEF Clear, Searching
  <2> HIDE DEF r
  <2>6. r \in RoadsFrom(t.branch)' /\ Hurried(Tail(r), t.call)' /\ Last(r) = state.at
    BY <2>2, <2>3, <2>4, <2>5, SameLoop
  <2>7. r \in RoadsFrom(trial.branch)' /\ Hurried(Tail(r), trial.call)'
    BY <1>4, <2>6, SameLoop
  <2> QED BY <2>6, <2>7 DEF Approached
<1>10. TrialIsComplete'
  <2>1. \A a \in ErrorArcs(t.branch) : Clear(a.to) \in ToSet(trialStack')
    BY <1>5
  <2>2. ErrorArcs(trial.branch)' = ErrorArcs(t.branch)
    BY <1>4, SameLoop
  <2> QED BY <1>4, <2>1, <2>2 DEF TrialIsComplete, Clear
<1> QED BY <1>6, <1>7, <1>8, <1>9, <1>10 DEF SInv

(* The states that follow one are listed.                                  *)
Successors(state) == {Following(state, a) : a \in {b \in ArcsFrom(state.at) : b.kind # "loop_back"}}

LEMMA SuccessorsAreListed ==
  ASSUME RetryIsTyped, NEW state \in Places
  PROVE  SetToSeq(Successors(state)) \in Seq(Places) /\ ToSet(SetToSeq(Successors(state))) = Successors(state)
<1> DEFINE A == {b \in ArcsFrom(state.at) : b.kind # "loop_back"}
           image == Successors(state)
           g == [a \in A |-> Following(state, a)]
<1>1. RetrierIsTyped /\ IsFiniteSet(A) /\ A \subseteq retrier.arcs
  <2>1. RetrierIsTyped /\ loopBody \subseteq RetryOps
    BY DEF RetryIsTyped
  <2>2. IsFiniteSet(ArcsFrom(state.at)) /\ ArcsFrom(state.at) \subseteq retrier.arcs
    BY <2>1, TrialFacts
  <2>3. A \subseteq ArcsFrom(state.at)
    OBVIOUS
  <2> HIDE DEF A
  <2>4. IsFiniteSet(A)
    BY <2>2, <2>3, FS_Subset
  <2> QED BY <2>1, <2>2, <2>3, <2>4
<1>2. \A a \in A : Following(state, a) \in Places
  BY <1>1, FollowingFacts
<1>3. image \subseteq Places /\ g \in [A -> image] /\ \A x \in image : \E a \in A : g[a] = x
  BY <1>2 DEF Successors
<1> HIDE DEF A, g, image
<1>4. SetToSeq(image) \in Seq(Places) /\ ToSet(SetToSeq(image)) = image
  BY <1>1, <1>3, ImagesAreListed
<1> QED BY <1>4 DEF image

(* The cases of a step of the search: it comes back, it skips a state, or  *)
(* it goes on from it.                                                     *)
LEMMA SearchCases ==
  ASSUME SInv, SearchRetry
  PROVE  /\ RetryIsTyped /\ trial # NoTrial /\ trialStack # <<>> /\ retrying = "search"
         /\ \E state \in Places :
              /\ state \in ToSet(trialStack) /\ trialSeen' = trialSeen \cup {state}
              /\ ToSet(trialStack) = {state} \cup ToSet(Front(trialStack)) /\ trialStack' \in Seq(Places)
              /\ \/ /\ state.at \in loopBody /\ \E a \in ArcsFrom(state.at) : ComesBack(state, a)
                    /\ trialStack' = <<>> /\ spins' = spins \cup {trial}
                 \/ /\ state \in trialSeen \/ state.at \notin loopBody
                    /\ ToSet(trialStack') = ToSet(Front(trialStack)) /\ spins' = spins
                 \/ /\ state.at \in loopBody /\ \A a \in ArcsFrom(state.at) : ~ComesBack(state, a)
                    /\ ToSet(trialStack') = ToSet(Front(trialStack)) \cup Successors(state) /\ spins' = spins
<1>1. RetryIsTyped /\ trial # NoTrial /\ trialStack # <<>> /\ retrying = "search"
  BY DEF SInv, RetryIsTyped, SearchRetry
<1>2. PICK state : state = Last(trialStack)
  OBVIOUS
<1>3. trialStack \in Seq(Places)
  BY <1>1 DEF RetryIsTyped
<1>4. /\ state \in Places /\ state \in ToSet(trialStack) /\ Front(trialStack) \in Seq(Places)
      /\ ToSet(trialStack) = {state} \cup ToSet(Front(trialStack))
  BY <1>1, <1>2, <1>3, StackFacts
<1> DEFINE skip == state \in trialSeen \/ state.at \notin loopBody
           back == \E a \in ArcsFrom(state.at) : ComesBack(state, a)
           front == Front(trialStack)
<1>5. trialSeen' = trialSeen \cup {state}
  BY <1>2 DEF SearchRetry
<1>6. CASE ~skip /\ back
  <2>1. trialStack' = <<>> /\ spins' = spins \cup {trial}
    BY <1>2, <1>6 DEF SearchRetry
  <2>2. trialStack' \in Seq(Places)
    BY <2>1
  <2> QED BY <1>1, <1>4, <1>5, <1>6, <2>1, <2>2
<1>7. CASE skip
  <2>1. trialStack' = front \o <<>> /\ spins' = spins
    BY <1>2, <1>7 DEF SearchRetry
  <2> HIDE DEF front
  <2>2. front \in Seq(Places)
    BY <1>4 DEF front
  <2>3. front \o <<>> = front
    BY <2>2, ConcatEmptySeq
  <2>4. trialStack' = Front(trialStack) /\ trialStack' \in Seq(Places)
    BY <2>1, <2>2, <2>3 DEF front
  <2> QED BY <1>1, <1>4, <1>5, <1>7, <2>1, <2>4
<1>8. CASE ~skip /\ ~back
  <2> DEFINE next == {Searching(a.to, state.mitigated \/ Mitigates(a.to, LoopOp(trial.call).error),
                                state.blocked \/ Works(a.to)) :
                        a \in {b \in ArcsFrom(state.at) : b.kind # "loop_back"}}
  <2>1. trialStack' = front \o SetToSeq(next) /\ spins' = spins
    BY <1>2, <1>8 DEF SearchRetry
  <2>2. next = Successors(state)
    BY DEF Successors, Following
  <2> HIDE DEF next
  <2> DEFINE more == SetToSeq(Successors(state))
  <2>3. more \in Seq(Places) /\ ToSet(more) = Successors(state)
    BY <1>1, <1>4, SuccessorsAreListed
  <2>4. trialStack' = Front(trialStack) \o more
    BY <2>1, <2>2
  <2> HIDE DEF more
  <2>5. Front(trialStack) \o more \in Seq(Places)
        /\ ToSet(Front(trialStack) \o more) = ToSet(Front(trialStack)) \cup ToSet(more)
    BY <1>1, <1>3, <2>3, StackFacts
  <2>6. /\ trialStack' \in Seq(Places)
        /\ ToSet(trialStack') = ToSet(Front(trialStack)) \cup Successors(state)
    BY <2>3, <2>4, <2>5
  <2> QED BY <1>1, <1>4, <1>5, <1>8, <2>1, <2>6
<1> QED BY <1>6, <1>7, <1>8

(* What follows a state that has a road has one.                           *)
LEMMA SuccessorsAreApproached ==
  ASSUME RetryIsTyped, NEW state \in Places, state.at \in loopBody, Approached(state),
         NEW next \in Successors(state)
  PROVE  Approached(next)
<1> SUFFICES ASSUME ~next.mitigated /\ ~next.blocked
             PROVE  \E r \in RoadsFrom(trial.branch) : Last(r) = next.at /\ Hurried(Tail(r), trial.call)
  BY DEF Approached
<1>1. RetrierIsTyped
  BY DEF RetryIsTyped
<1>2. PICK a \in ArcsFrom(state.at) : a.kind # "loop_back" /\ next = Following(state, a)
  BY DEF Successors
<1>3. a \in retrier.arcs /\ a.from = state.at /\ a \in Inside
  BY <1>2 DEF ArcsFrom, Inside
<1>4. next.at = a.to /\ ~state.mitigated /\ ~state.blocked /\ Quiet(a.to, trial.call)
  BY <1>1, <1>2, <1>3, FollowingFacts
<1>5. PICK r \in RoadsFrom(trial.branch) : Last(r) = state.at /\ Hurried(Tail(r), trial.call)
  BY <1>4 DEF Approached
<1>6. PICK q \in RoadsFrom(trial.branch) :
        Last(q) = a.to /\ ToSet(Tail(q)) \subseteq ToSet(Tail(r)) \cup {a.to}
  BY <1>1, <1>3, <1>5, RoadsGoOn
<1>7. \A o \in ToSet(Tail(r)) : Quiet(o, trial.call)
  BY <1>5, HurriedIsQuiet
<1>8. \A o \in ToSet(Tail(q)) : Quiet(o, trial.call)
  BY <1>4, <1>6, <1>7
<1>9. Hurried(Tail(q), trial.call)
  BY <1>8, HurriedIsQuiet
<1> QED BY <1>4, <1>6, <1>9

(* What the search does with a trial leaves the invariant.                 *)
LEMMA SearchRetryKeepsS == SInv /\ SearchRetry => SInv'
<1> SUFFICES ASSUME SInv, SearchRetry PROVE SInv'
  OBVIOUS
<1>1. UNCHANGED <<retrier, loopBody, tries, trial, retrying>>
  BY DEF SearchRetry
<1>2. RetryIsTyped /\ RetrierIsTyped /\ trial # NoTrial /\ retrying = "search"
  BY SearchCases DEF RetryIsTyped
<1>3. PICK state \in Places :
        /\ state \in ToSet(trialStack) /\ trialSeen' = trialSeen \cup {state}
        /\ ToSet(trialStack) = {state} \cup ToSet(Front(trialStack)) /\ trialStack' \in Seq(Places)
        /\ \/ /\ state.at \in loopBody /\ \E a \in ArcsFrom(state.at) : ComesBack(state, a)
              /\ trialStack' = <<>> /\ spins' = spins \cup {trial}
           \/ /\ state \in trialSeen \/ state.at \notin loopBody
              /\ ToSet(trialStack') = ToSet(Front(trialStack)) /\ spins' = spins
           \/ /\ state.at \in loopBody /\ \A a \in ArcsFrom(state.at) : ~ComesBack(state, a)
              /\ ToSet(trialStack') = ToSet(Front(trialStack)) \cup Successors(state) /\ spins' = spins
  BY SearchCases, Zenon
<1>4. Approached(state)
  BY <1>2, <1>3 DEF SInv, StackIsApproached
<1>5. spins' = spins \/ spins' = spins \cup {trial}
  BY <1>3
<1>6. trial \in TrialsOf
  BY <1>2 DEF RetryIsTyped
<1>7. /\ RetrierIsTyped' = RetrierIsTyped /\ RetryOps' = RetryOps /\ Places' = Places /\ TrialsOf' = TrialsOf
      /\ \A o : ErrorArcs(o)' = ErrorArcs(o) /\ ArcsFrom(o)' = ArcsFrom(o) /\ LoopOp(o)' = LoopOp(o)
                /\ RoadsFrom(o)' = RoadsFrom(o) /\ Roads(o)' = Roads(o) /\ Works(o)' = Works(o)
      /\ \A o, e : Mitigates(o, e)' = Mitigates(o, e)
      /\ \A r, c : Hurried(r, c)' = Hurried(r, c)
      /\ \A t : SpinsStraight(t)' = SpinsStraight(t)
      /\ \A s, a : ComesBack(s, a)' = ComesBack(s, a)
  BY <1>1, SameLoop, LoopStays
<1>8. \A s, a : Following(s, a)' = Following(s, a)
  BY <1>1, <1>7 DEF Following, Searching
<1>9. \A s : Approached(s)' = Approached(s)
  BY <1>1, <1>7 DEF Approached
<1>10. RetryIsTyped'
  <2>1. spins' \in SUBSET TrialsOf'
    BY <1>2, <1>5, <1>6, <1>7 DEF RetryIsTyped
  <2>2. trialSeen' \in SUBSET Places' /\ trialStack' \in Seq(Places')
    BY <1>2, <1>3, <1>7 DEF RetryIsTyped
  <2>3. /\ RetrierIsTyped' /\ retrying' = "search" /\ loopBody' \subseteq RetryOps'
        /\ tries' \in Seq(TrialsOf') /\ trial' \in TrialsOf' /\ trial' # NoTrial
    BY <1>1, <1>2, <1>6, <1>7 DEF RetryIsTyped
  <2> QED BY <2>1, <2>2, <2>3 DEF RetryIsTyped
<1>11. TrialsAreTracked'
  <2>1. \A x \in TrialsOf : x \in spins' \cup ToSet(tries) \cup {trial} \/ ~SpinsStraight(x)
    BY <1>2, <1>5 DEF SInv, TrialsAreTracked
  <2> QED BY <1>1, <1>7, <2>1 DEF TrialsAreTracked
<1>12. ReportedSpins'
  <2>1. \A t \in spins : \E road \in Roads(t.branch) : Hurried(Tail(road), t.call)
    BY DEF SInv, ReportedSpins
  <2>2. CASE spins' = spins
    BY <1>7, <2>1, <2>2 DEF ReportedSpins
  <2>3. CASE spins' # spins
    <3>1. PICK a \in ArcsFrom(state.at) : ComesBack(state, a)
      BY <1>3, <2>3
    <3>2. state.at \in loopBody /\ spins' = spins \cup {trial}
      BY <1>3, <2>3
    <3>3. ~state.mitigated /\ ~state.blocked /\ a.kind = "loop_back" /\ a.to = retrier.loop.at
      BY <3>1 DEF ComesBack
    <3>4. PICK r \in RoadsFrom(trial.branch) : Last(r) = state.at /\ Hurried(Tail(r), trial.call)
      BY <1>4, <3>3 DEF Approached
    <3>5. LeadsBack(Last(r))
      BY <3>1, <3>2, <3>3, <3>4 DEF LeadsBack
    <3>6. r \in Roads(trial.branch)
      BY <3>4, <3>5 DEF Roads
    <3>7. \A t \in spins' : \E road \in Roads(t.branch) : Hurried(Tail(road), t.call)
      BY <2>1, <3>2, <3>4, <3>6
    <3> QED BY <1>7, <3>7 DEF ReportedSpins
  <2> QED BY <2>2, <2>3
<1>13. StackIsApproached'
  <2> SUFFICES ASSUME NEW x \in ToSet(trialStack') PROVE Approached(x)
    BY <1>9 DEF StackIsApproached
  <2>1. \A y \in ToSet(Front(trialStack)) : Approached(y)
    BY <1>2, <1>3 DEF SInv, StackIsApproached
  <2>2. CASE x \in ToSet(Front(trialStack))
    BY <2>1, <2>2
  <2>3. CASE x \notin ToSet(Front(trialStack))
    <3>1. ToSet(trialStack') = {} \/ (state.at \in loopBody /\ x \in Successors(state))
      <4>1. trialStack' = <<>> => ToSet(trialStack') = {}
        BY DEF ToSet
      <4> QED BY <1>3, <2>3, <4>1
    <3>2. state.at \in loopBody /\ x \in Successors(state)
      BY <3>1
    <3> QED BY <1>2, <1>4, <3>2, SuccessorsAreApproached
  <2> QED BY <2>2, <2>3
<1>14. TrialIsComplete'
  <2> SUFFICES ASSUME trial \notin spins'
               PROVE  /\ \A a \in ErrorArcs(trial.branch) : Clear(a.to) \in trialSeen' \cup ToSet(trialStack')
                      /\ \A s \in trialSeen' : s.at \in loopBody =>
                           \A a \in ArcsFrom(s.at) :
                             /\ ~ComesBack(s, a)
                             /\ a.kind # "loop_back" => Following(s, a) \in trialSeen' \cup ToSet(trialStack')
    BY <1>1, <1>7, <1>8 DEF TrialIsComplete, Clear
  <2>1. spins' = spins /\ trial \notin spins
    BY <1>3
  <2>2. trialSeen \cup ToSet(trialStack) \subseteq trialSeen' \cup ToSet(trialStack')
    BY <1>3, <2>1
  <2>3. /\ \A a \in ErrorArcs(trial.branch) : Clear(a.to) \in trialSeen \cup ToSet(trialStack)
        /\ \A s \in trialSeen : s.at \in loopBody =>
             \A a \in ArcsFrom(s.at) :
               /\ ~ComesBack(s, a)
               /\ a.kind # "loop_back" => Following(s, a) \in trialSeen \cup ToSet(trialStack)
    BY <1>2, <2>1, Zenon DEF SInv, TrialIsComplete, Clear
  <2>4. \A a \in ErrorArcs(trial.branch) : Clear(a.to) \in trialSeen' \cup ToSet(trialStack')
    BY <2>2, <2>3
  <2>5. ASSUME NEW s \in trialSeen', s.at \in loopBody, NEW a \in ArcsFrom(s.at)
        PROVE  /\ ~ComesBack(s, a)
               /\ a.kind # "loop_back" => Following(s, a) \in trialSeen' \cup ToSet(trialStack')
    <3>1. CASE s \in trialSeen
      BY <2>2, <2>3, <2>5, <3>1
    <3>2. CASE s \notin trialSeen
      <4>1. s = state
        BY <1>3, <3>2
      <4>2. /\ \A b \in ArcsFrom(s.at) : ~ComesBack(s, b)
            /\ ToSet(trialStack') = ToSet(Front(trialStack)) \cup Successors(s)
        BY <1>3, <2>1, <2>5, <3>2, <4>1
      <4>3. a.kind # "loop_back" => Following(s, a) \in Successors(s)
        BY DEF Successors
      <4> QED BY <4>2, <4>3
    <3> QED BY <3>1, <3>2
  <2> QED BY <2>4, <2>5
<1> QED BY <1>10, <1>11, <1>12, <1>13, <1>14 DEF SInv

(* The trial's search is over.                                             *)
LEMMA EndTrialKeepsS == SInv /\ EndTrial => SInv'
<1> SUFFICES ASSUME SInv, EndTrial PROVE SInv'
  OBVIOUS
<1> USE DEF EndTrial
<1>1. RetryIsTyped /\ trial # NoTrial /\ retrying = "search"
  BY DEF SInv, RetryIsTyped
<1>2. RetrierIsTyped' = RetrierIsTyped /\ RetryOps' = RetryOps /\ Places' = Places /\ TrialsOf' = TrialsOf
  BY SameLoop
<1>3. RetryIsTyped'
  BY <1>1, <1>2 DEF RetryIsTyped
<1>4. trial \in spins \/ ~SpinsStraight(trial)
  BY <1>1, NothingIsMissed DEF SInv
<1>5. TrialsAreTracked'
  <2>1. \A x \in TrialsOf : x \in spins \cup ToSet(tries) \cup {trial} \/ ~SpinsStraight(x)
    BY <1>1 DEF SInv, TrialsAreTracked
  <2>2. \A x \in TrialsOf : x \in spins \cup ToSet(tries) \/ ~SpinsStraight(x)
    BY <1>4, <2>1
  <2> QED BY <1>2, <2>2, LoopStays DEF TrialsAreTracked
<1>6. ReportedSpins'
  BY SameLoop DEF SInv, ReportedSpins
<1>7. (StackIsApproached /\ TrialIsComplete)'
  BY DEF StackIsApproached, TrialIsComplete
<1> QED BY <1>3, <1>5, <1>6, <1>7 DEF SInv

(* A step of something else leaves the search as it is.                    *)
LEMMA RetryStutters == SInv /\ UNCHANGED retryVars => SInv'
<1> SUFFICES ASSUME SInv, UNCHANGED retryVars PROVE SInv'
  OBVIOUS
<1> USE DEF retryVars
<1>1. /\ RetrierIsTyped' = RetrierIsTyped /\ RetryOps' = RetryOps /\ Places' = Places /\ TrialsOf' = TrialsOf
      /\ \A o : ErrorArcs(o)' = ErrorArcs(o) /\ ArcsFrom(o)' = ArcsFrom(o) /\ LoopOp(o)' = LoopOp(o)
                /\ RoadsFrom(o)' = RoadsFrom(o) /\ Roads(o)' = Roads(o) /\ Works(o)' = Works(o)
      /\ \A o, e : Mitigates(o, e)' = Mitigates(o, e)
      /\ \A r, c : Hurried(r, c)' = Hurried(r, c)
      /\ \A t : SpinsStraight(t)' = SpinsStraight(t)
      /\ \A s, a : ComesBack(s, a)' = ComesBack(s, a)
  BY SameLoop, LoopStays
<1>2. RetryIsTyped'
  BY <1>1 DEF SInv, RetryIsTyped
<1>3. TrialsAreTracked' /\ ReportedSpins'
  BY <1>1 DEF SInv, TrialsAreTracked, ReportedSpins
<1>4. \A s : Approached(s)' = Approached(s)
  BY <1>1 DEF Approached
<1>5. StackIsApproached'
  BY <1>4 DEF SInv, StackIsApproached
<1>6. \A s, a : Following(s, a)' = Following(s, a)
  BY <1>1 DEF Following, Searching
<1>7. TrialIsComplete'
  BY <1>1, <1>6 DEF SInv, TrialIsComplete, Searching
<1> QED BY <1>2, <1>3, <1>5, <1>7 DEF SInv

(* When every trial was made, exactly the hurried ones were reported.      *)
LEMMA RetriesAreFoundFollows == SInv => RetriesAreFound
<1> SUFFICES ASSUME SInv, RetryEnd, NEW t \in TrialsOf
             PROVE  t \in spins <=> \E road \in Roads(t.branch) : Hurried(Tail(road), t.call)
  BY DEF RetriesAreFound
<1>1. t # NoTrial
  BY TrialFacts DEF SInv, RetryIsTyped
<1>2. ToSet(tries) = {} /\ trial = NoTrial /\ retrying = "search"
  BY DEF RetryEnd, ToSet
<1>3. t \in spins \/ ~SpinsStraight(t)
  BY <1>1, <1>2 DEF SInv, TrialsAreTracked
<1> QED BY <1>3 DEF SInv, ReportedSpins, SpinsStraight

(* For every function with an endless loop, each failing call and each     *)
(* test of its error: the search reports a retry exactly when some path    *)
(* leads from the failure back to the loop head with no pause, limit or    *)
(* work after its first operation, at which the code does not look         *)
(* (analysis/retry_loops.py, _unmitigated_loopback), whatever other paths  *)
(* there are.                                                              *)
THEOREM RetriesAreAlwaysFound == RetrySpec => []RetriesAreFound
<1>1. RetryInit => SInv
  BY RetryStarts
<1>2. SInv /\ [RetryNext]_retryVars => SInv'
  BY BeginRetryKeepsS, OwnLoopKeepsS, ListTrialsKeepsS, BeginTrialKeepsS, SearchRetryKeepsS, EndTrialKeepsS,
     RetryStutters DEF RetryNext
<1>3. SInv => RetriesAreFound
  BY RetriesAreFoundFollows
<1> QED BY <1>1, <1>2, <1>3, PTL DEF RetrySpec
=============================================================================
