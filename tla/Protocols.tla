------------------------------ MODULE Protocols -----------------------------
(***************************************************************************)
(* Resource protocols over the operations of a project                     *)
(* (analysis/resource_lifecycle.py, ir/type_evidence.py): what is learnt   *)
(* from the cleanups a project registers, and which uses of an acquired    *)
(* resource no cleanup dominates.                                          *)
(*                                                                         *)
(* A symbol is <<qualifier, method>>, a reference <<binding, path>>; no    *)
(* qualifier and no path are "".  Operations are numbered in source order. *)
(***************************************************************************)
EXTENDS Naturals, Sequences, FiniteSets, SequencesExt

VARIABLE
  project   \* [ops, arcs, types]: operations, control flow, type evidence

Op  == project.ops
Ops == DOMAIN project.ops

Flow == INSTANCE ControlFlow WITH
  Ids <- Nat, nodes <- Ops, arcs <- project.arcs, phase <- "done", dominators <- <<>>,
  remaining <- {}, changed <- FALSE

CanReach(a, b) == Op[a].scope = Op[b].scope /\ Flow!Reachable(a, b)

-----------------------------------------------------------------------------
(* Type evidence of the receiver of a call: [op, id, type, symbol].        *)
Evidence(call)  == {t \in project.types : t.op = call}
TypesOf(call)   == {t.type : t \in Evidence(call)}
UniqueType(call) == IF Cardinality(TypesOf(call)) = 1 THEN CHOOSE t \in TypesOf(call) : TRUE ELSE ""
Canonical(call)  == {t.symbol : t \in {e \in Evidence(call) : e.symbol # ""}}
EvidenceIds(call) == {t.id : t \in Evidence(call)}

IsTyped(call) ==
  UniqueType(call) # "" /\ Cardinality(Canonical(call)) = 1 /\ EvidenceIds(call) # {}

-----------------------------------------------------------------------------
(* A call is the primary one when it is the first of the assignment that   *)
(* hosts it.                                                               *)
IsPrimary(a) ==
  /\ Op[a].kind = "call" /\ Op[a].results # <<>>
  /\ Op[a].host \in Ops /\ Op[Op[a].host].kind = "assign" /\ Op[Op[a].host].first = Op[a].symbol

Usable(binding) == binding \notin {"", "_"}

NoPath == "no path"
MemberPath(op, binding) == IF op.receiver[1] = binding THEN op.receiver[2] ELSE NoPath

(* The registrations of a cleanup for a binding, at a path below it.       *)
Registrations(a, binding, path) ==
  {d \in Ops : /\ Op[d].kind = "defer" /\ CanReach(a, d)
               /\ MemberPath(Op[d], binding) = path}

Method(symbol) == symbol[2]
MethodsAt(a, binding, path) == {Method(Op[d].symbol) : d \in Registrations(a, binding, path)}

Protocol(a, index, path, mode, methods) ==
  [acquire |-> Op[a].symbol, index |-> index, methods |-> methods, mode |-> mode, path |-> path,
   type |-> IF mode = "typed_method" THEN UniqueType(a) ELSE "",
   canonical |-> IF mode = "typed_method" THEN Canonical(a) ELSE {},
   evidence |-> IF mode = "typed_method" THEN EvidenceIds(a) ELSE {}]

ModeFor(a, path, generalize) ==
  IF ~generalize \/ path = "" THEN "exact"
  ELSE IF IsTyped(a) THEN "typed_method" ELSE "method_shape"

(* ResourceProtocolMiner.learn, each protocol with the call it is from.    *)
Results == UNION {{a} \X DOMAIN Op[a].results : a \in {o \in Ops : IsPrimary(o)}}
Paths   == {Op[d].receiver[2] : d \in {o \in Ops : Op[o].kind = "defer"}}

Learnt(generalize) ==
  LET binding(r) == Op[r[1]].results[r[2]]
      learnable  == {x \in Results \X Paths :
                       Usable(binding(x[1])) /\ Registrations(x[1][1], binding(x[1]), x[2]) # {}}
  IN  {[from |-> x[1][1],
        protocol |-> Protocol(x[1][1], x[1][2], x[2], ModeFor(x[1][1], x[2], generalize),
                              MethodsAt(x[1][1], binding(x[1]), x[2]))] : x \in learnable}

-----------------------------------------------------------------------------
(* ResourceLifecycleAnalyzer.analyze.                                      *)
MatchesAcquire(a, protocol) ==
  CASE protocol.mode = "exact" -> Op[a].symbol = protocol.acquire
    [] protocol.mode = "method_shape" ->
         /\ Op[a].symbol[1] # "" /\ protocol.acquire[1] # ""
         /\ Method(Op[a].symbol) = Method(protocol.acquire) /\ Evidence(a) = {}
    [] protocol.mode = "typed_method" ->
         /\ Op[a].symbol[1] # "" /\ protocol.acquire[1] # ""
         /\ Method(Op[a].symbol) = Method(protocol.acquire)
         /\ UniqueType(a) # "" /\ UniqueType(a) = protocol.type
         /\ Canonical(a) = protocol.canonical /\ Cardinality(Canonical(a)) = 1

AcquiredBy(protocol) ==
  {a \in Ops : Op[a].kind = "call" /\ MatchesAcquire(a, protocol) /\ IsPrimary(a)}

Transfers(a, binding) ==
  {r \in Ops : Op[r].kind = "return" /\ binding \in Op[r].returns /\ CanReach(a, r)}

CleanupsOf(a, protocol) ==
  {d \in Registrations(a, Op[a].results[protocol.index], protocol.path) :
     Method(Op[d].symbol) \in protocol.methods}

UsesOf(a, protocol) ==
  LET resource == <<Op[a].results[protocol.index], protocol.path>> IN
  {u \in Ops \ ({a, Op[a].host} \cup CleanupsOf(a, protocol)) :
     /\ Op[u].kind = "call" => Op[u].host = 0
     /\ resource \in Op[u].uses \/ (protocol.path = "" /\ \E r \in Op[u].uses : r[1] = resource[1])
     /\ CanReach(a, u)}

Abstains(a, protocol) ==
  \/ protocol.index \notin DOMAIN Op[a].results
  \/ ~Usable(Op[a].results[protocol.index])
  \/ Transfers(a, Op[a].results[protocol.index]) # {} \/ UsesOf(a, protocol) = {}

ProtectedBy(a, cleanups, use) ==
  \E d \in cleanups : CanReach(d, use) /\ Flow!DominatesBetween(a, d, use)

LifecycleFindings(protocols) ==
  {[protocol |-> x[1], acquire |-> x[2]] :
     x \in {y \in protocols \X Ops :
              /\ y[2] \in AcquiredBy(y[1]) /\ ~Abstains(y[2], y[1])
              /\ \E u \in UsesOf(y[2], y[1]) : ~ProtectedBy(y[2], CleanupsOf(y[2], y[1]), u)}}
=============================================================================
