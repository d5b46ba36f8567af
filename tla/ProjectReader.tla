---------------------------- MODULE ProjectReader ---------------------------
(***************************************************************************)
(* The project reader (engine/project_reader.py) inside its session        *)
(* (core/session.py, run_project_reader): a model proposes resource        *)
(* protocols over an inventory of calls and cleanups, a resolver binds     *)
(* each to evidence, a validator judges it, and while nothing is supported *)
(* and something was rejected the model is asked again.                    *)
(*                                                                         *)
(* A fact of the inventory is the operation it is about.  A proposal names *)
(* an operation, a symbol, an index, methods, a mode, a path and, for the  *)
(* typed mode, a type and a canonical symbol, right or wrong.              *)
(***************************************************************************)
EXTENDS Protocols, Lists

CONSTANTS
  Projects,   \* programs, each with the proposals its model may make
  MaxFacts,   \* max_inventory_facts
  MaxChars,   \* max_serialized_chars, in units of one fact
  MaxRepairs

VARIABLES
  readerPhase,  \* "start", "survey", "ask", "judge", "end"
  answers,      \* the lists of candidates the model may answer
  inventory,    \* operations of the facts the model is shown
  candidates,   \* of the last answer that was parsed
  decisions,    \* of the resolver and the validator, per candidate
  repairs, repairError,
  calls,        \* requests to the model
  stage,        \* ProjectReaderStage.status
  supportedOnce \* history: protocols some answer got supported

readerVars == <<project, readerPhase, answers, inventory, candidates, decisions, repairs,
                repairError, calls, stage, supportedOnce>>

OperationRecord ==
  [kind : STRING, file : Nat, scope : Nat, symbol : STRING \X STRING, first : STRING \X STRING,
   host : Nat, receiver : STRING \X STRING, results : Seq(STRING), uses : SUBSET (STRING \X STRING),
   returns : SUBSET STRING]
TypeRecord  == [op : Nat, id : Nat, type : STRING, symbol : STRING]
Modes      == {"exact", "method_shape", "typed_method"}
CandidateRecord ==
  [id : Nat, op : Nat, symbol : STRING \X STRING, index : Nat, methods : SUBSET STRING, mode : Modes,
   path : STRING, type : STRING, canonical : SUBSET STRING]

(* Files are numbered in the order of their names.                         *)
ASSUME ReaderAssumption ==
  /\ MaxFacts \in Nat /\ MaxChars \in Nat /\ MaxRepairs \in Nat
  /\ \A given \in Projects :
       /\ given.project.ops \in Seq(OperationRecord)
       /\ given.project.types \subseteq TypeRecord /\ IsFiniteSet(given.project.types)
       /\ given.answers \subseteq Seq(CandidateRecord)

NoProject == [ops |-> <<>>, arcs |-> {}, types |-> {}]

ReaderInit ==
  /\ project = NoProject /\ readerPhase = "start" /\ answers = {} /\ inventory = {}
  /\ candidates = <<>> /\ decisions = <<>> /\ repairs = 0 /\ repairError = FALSE
  /\ calls = 0 /\ stage = "not_run" /\ supportedOnce = {}

-----------------------------------------------------------------------------
(* build_project_inventory: the facts of a scope are taken together, those *)
(* with a cleanup first, and the rest from the middle of the files out.  A *)
(* group is named by its first fact.                                       *)
IsFact(a) == \/ Op[a].kind = "call" /\ Op[a].results # <<>>
             \/ Op[a].kind = "defer"

Facts    == {a \in Ops : IsFact(a)}
Siblings(g) == {a \in Facts : Op[a].scope = Op[g].scope}
Groups   == {g \in Facts : \A a \in Siblings(g) : g <= a}
HasCleanup(g) == \E a \in Siblings(g) : Op[a].kind = "defer"

(* Where an index of a list is met when the list is bisected breadth first:*)
(* the number of halvings before it is the middle.                         *)
Middle(range) == (range[1] + range[2]) \div 2
Half(range, k) == IF k < Middle(range) THEN <<range[1], Middle(range)>>
                  ELSE <<Middle(range) + 1, range[2]>>

Depth(k, n) ==
  LET range[i \in 0 .. n] ==
        IF i = 0 THEN <<0, n>>
        ELSE LET last == range[i - 1] IN IF Middle(last) = k THEN last ELSE Half(last, k)
  IN  Cardinality({i \in 0 .. n : Middle(range[i]) # k})

Precedes(p, q) == p[1] < q[1] \/ (p[1] = q[1] /\ p[2] < q[2])

(* _midpoint_order of a sorted list, given as a set of numbers.            *)
MidpointOrder(items) ==
  LET met(n) == <<Depth(Cardinality(Before(items, n)), Cardinality(items)), n>>
  IN  Sorted(items, {x \in items \X items : Precedes(met(x[1]), met(x[2]))})

(* One scope of each file in turn.                                         *)
Spread(groups) ==
  LET files   == MidpointOrder({Op[g].file : g \in groups})
      scopes  == [k \in DOMAIN files |-> MidpointOrder({g \in groups : Op[g].file = files[k]})]
      turns   == UNION {{<<i, k>> : i \in DOMAIN scopes[k]} : k \in DOMAIN files}
      rounds  == Sorted(turns, {x \in turns \X turns : Precedes(x[1], x[2])})
  IN  [r \in DOMAIN rounds |-> scopes[rounds[r][2]][rounds[r][1]]]

GroupOrder ==
  LET clean == {g \in Groups : HasCleanup(g)} IN Spread(clean) \o Spread(Groups \ clean)

(* The size of facts: each is one, and each type in it too.  The code      *)
(* measures the whole text once, then estimates it group by group: an      *)
(* estimate is never below, as references that scopes share are counted    *)
(* again and a separator is reserved, so it may take fewer groups than fit.*)
(* Here scopes share nothing and the two agree; the last groups it drops   *)
(* if the estimate were too low are left out for that reason.              *)
Size(facts) == Cardinality(facts) + Cardinality({t \in project.types : t.op \in facts})

(* Groups as they fit: one that does not is left out, not the ones after   *)
(* it.  The second limit is only looked at when the counted facts exceed   *)
(* it.                                                                     *)
Fits(facts, bySize) == Cardinality(facts) <= MaxFacts /\ (bySize => Size(facts) <= MaxChars)

Taken(bySize) ==
  LET order == GroupOrder
      taken[i \in 0 .. Len(order)] ==
        IF i = 0 THEN {}
        ELSE LET before == taken[i - 1] IN
             IF Fits(before \cup Siblings(order[i]), bySize) THEN before \cup Siblings(order[i]) ELSE before
  IN  taken[Len(order)]

Inventory == IF Size(Taken(FALSE)) <= MaxChars THEN Taken(FALSE) ELSE Taken(TRUE)

Shown(a) == a \in inventory

-----------------------------------------------------------------------------
(* _parse_project_model: a candidate that is malformed, or whose id was    *)
(* taken, is dropped and becomes an uncertainty.                           *)
WellFormed(c) ==
  /\ c.methods # {} /\ c.index >= 1
  /\ c.mode # "exact" => c.path # ""
  /\ c.mode = "typed_method" => c.type # "" /\ c.canonical # {}
  /\ c.mode # "typed_method" => c.type = "" /\ c.canonical = {}

Kept(answer) ==
  {i \in DOMAIN answer : /\ WellFormed(answer[i])
                         /\ \A k \in 1 .. i - 1 : WellFormed(answer[k]) => answer[k].id # answer[i].id}

ParsedCandidates(answer) == AtPositions(answer, Kept(answer))

(* DeterministicEvidenceResolver: the registrations of each method that    *)
(* the inventory shows; the symbol becomes that of the operation.          *)
Matches(c, method) ==
  {d \in inventory :
     /\ d \in Registrations(c.op, Op[c.op].results[c.index], c.path)
     /\ Method(Op[d].symbol) = method}

Bindable(c) ==
  /\ c.op \in Ops /\ Op[c.op].kind = "call" /\ IsPrimary(c.op)
  /\ c.index \in DOMAIN Op[c.op].results /\ Usable(Op[c.op].results[c.index])
  /\ Shown(c.op)

Resolution(c) ==
  IF ~Bindable(c) \/ \E m \in c.methods : Matches(c, m) = {} THEN "unresolved"
  ELSE IF \E m \in c.methods : Cardinality(Matches(c, m)) > 1 THEN "ambiguous"
  ELSE IF c.mode = "typed_method" /\ ~IsTyped(c.op) THEN "unresolved" ELSE "resolved"

BoundTo(c, symbol) ==
  [op |-> c.op, symbol |-> symbol, index |-> c.index, methods |-> c.methods, mode |-> c.mode,
   path |-> c.path, type |-> c.type, canonical |-> c.canonical,
   facts |-> {c.op} \cup UNION {Matches(c, m) : m \in c.methods},
   evidence |-> IF c.mode = "typed_method" THEN EvidenceIds(c.op) ELSE {}]

(* Mutant: the symbol the model wrote is kept.                             *)
ResolvedAsWritten(c) == BoundTo(c, c.symbol)

Resolved(c) == BoundTo(c, Op[c.op].symbol)

(* ProjectModelValidator, of what the resolver bound.                      *)
Grounded(c) ==
  {Method(Op[d].symbol) : d \in
     {e \in c.facts : e \in Registrations(c.op, Op[c.op].results[c.index], c.path)}}
  \cap c.methods

Validates(c) ==
  /\ c.facts # {} /\ c.facts \subseteq inventory
  /\ c.op \in Ops /\ Op[c.op].kind = "call" /\ Op[c.op].symbol = c.symbol
  /\ IsPrimary(c.op) /\ c.op \in c.facts
  /\ c.index \in DOMAIN Op[c.op].results /\ Usable(Op[c.op].results[c.index])
  /\ c.methods \subseteq Grounded(c)
  /\ CASE c.mode = "exact" -> TRUE
       [] c.mode = "method_shape" -> ~IsTyped(c.op)
       [] c.mode = "typed_method" ->
            /\ c.evidence # {} /\ c.evidence \subseteq EvidenceIds(c.op)
            /\ c.type = UniqueType(c.op)
            /\ Cardinality(Canonical(c.op)) = 1 /\ c.canonical = Canonical(c.op)

Decision(c) ==
  IF Resolution(c) # "resolved" THEN Resolution(c)
  ELSE IF Validates(Resolved(c)) THEN "supported" ELSE "rejected"

ProtocolFrom(c) ==
  [acquire |-> Op[c.op].symbol, index |-> c.index, methods |-> c.methods, mode |-> c.mode,
   path |-> c.path, type |-> c.type, canonical |-> c.canonical,
   evidence |-> IF c.mode = "typed_method" THEN EvidenceIds(c.op) ELSE {}]

Supported ==
  {ProtocolFrom(candidates[i]) : i \in {k \in DOMAIN decisions : decisions[k] = "supported"}}

-----------------------------------------------------------------------------
(* The session opens a project; one without operations is not read.        *)
Opened(given) ==
  /\ readerPhase = "start"
  /\ project' = given.project /\ answers' = given.answers
  /\ readerPhase' = IF given.project.ops = <<>> THEN "end" ELSE "survey"
  /\ stage' = IF given.project.ops = <<>> THEN "unsupported" ELSE stage
  /\ UNCHANGED <<inventory, candidates, decisions, repairs, repairError, calls, supportedOnce>>

Surveyed ==
  /\ readerPhase = "survey" /\ readerPhase' = "ask" /\ inventory' = Inventory
  /\ UNCHANGED <<project, answers, candidates, decisions, repairs, repairError, calls, stage,
                 supportedOnce>>

(* A request that raises TypeError is made again, without the role.        *)
Attempts(again) == calls' = calls + (IF again THEN 2 ELSE 1)

Answered(answer, again) ==
  /\ readerPhase = "ask" /\ answer \in answers /\ Attempts(again)
  /\ UNCHANGED <<project, answers, inventory, repairs, repairError, stage>>
  /\ candidates' = ParsedCandidates(answer)
  /\ decisions' = [i \in DOMAIN ParsedCandidates(answer) |-> Decision(ParsedCandidates(answer)[i])]
  /\ supportedOnce' = supportedOnce \cup Supported'
  /\ readerPhase' = "judge"

(* No text, no object, or an error of the client.                          *)
Unanswered(again) ==
  /\ readerPhase = "ask" /\ Attempts(again)
  /\ IF repairs = 0
     THEN /\ stage' = "unavailable" /\ readerPhase' = "end" /\ UNCHANGED repairError
     ELSE /\ repairError' = TRUE /\ readerPhase' = "judge" /\ UNCHANGED stage
  /\ UNCHANGED <<project, answers, inventory, candidates, decisions, repairs, supportedOnce>>

(* An error the reader does not expect leaves the stage as it was.         *)
Breaks ==
  /\ readerPhase = "ask" /\ Attempts(FALSE) /\ readerPhase' = "end"
  /\ UNCHANGED <<project, answers, inventory, candidates, decisions, repairs, repairError,
                 stage, supportedOnce>>

Rejections == {i \in DOMAIN decisions : decisions[i] # "supported"}

MayRepair == Supported = {} /\ Rejections # {} /\ repairs < MaxRepairs /\ ~repairError

Repair ==
  /\ readerPhase = "judge" /\ MayRepair
  /\ repairs' = repairs + 1 /\ readerPhase' = "ask"
  /\ UNCHANGED <<project, answers, inventory, candidates, decisions, repairError, calls, stage,
                 supportedOnce>>

Concluded ==
  /\ readerPhase = "judge" /\ ~MayRepair /\ readerPhase' = "end"
  /\ stage' = IF repairError THEN "abstained"
              ELSE IF LifecycleFindings(Supported) # {} THEN "findings"
              ELSE IF Supported # {} THEN "supported_no_finding" ELSE "abstained"
  /\ UNCHANGED <<project, answers, inventory, candidates, decisions, repairs, repairError, calls,
                 supportedOnce>>

ReaderNext ==
  \/ \E given \in Projects : Opened(given)
  \/ Surveyed
  \/ \E answer \in answers, again \in BOOLEAN : Answered(answer, again)
  \/ \E again \in BOOLEAN : Unanswered(again)
  \/ Breaks \/ Repair \/ Concluded

ReaderSpec == ReaderInit /\ [][ReaderNext]_readerVars

-----------------------------------------------------------------------------
(* The proposal that would say what was learnt from a call.                *)
Proposal(learnt) ==
  [id |-> 0, op |-> learnt.from, symbol |-> learnt.protocol.acquire, index |-> learnt.protocol.index,
   methods |-> learnt.protocol.methods, mode |-> learnt.protocol.mode, path |-> learnt.protocol.path,
   type |-> learnt.protocol.type, canonical |-> learnt.protocol.canonical]

(* Three judges of one contract agree.  What the resolver binds the        *)
(* validator rejects for nothing but its types; and what the deterministic *)
(* miner learns from a project, proposed with the call it was learnt from, *)
(* is supported, unless a method is registered twice or the inventory does *)
(* not show it.                                                            *)
JudgesAgree ==
  /\ \A i \in DOMAIN candidates :
       decisions[i] = "rejected" =>
         \/ candidates[i].mode = "typed_method"
         \/ candidates[i].mode = "method_shape" /\ IsTyped(candidates[i].op)
  /\ readerPhase = "ask" =>
       \A generalize \in BOOLEAN : \A learnt \in Learnt(generalize) :
         Decision(Proposal(learnt)) # "supported" =>
           \/ Resolution(Proposal(learnt)) = "ambiguous"
           \/ ~Shown(learnt.from)

(* Asking again never costs what was already supported: once the model got *)
(* a protocol supported the stage ends with it, and the model is asked at  *)
(* most once more than it was repaired (twice as often when the client     *)
(* cannot take a role).                                                    *)
SupportIsKept ==
  /\ supportedOnce # {} /\ readerPhase = "end" =>
       Supported = supportedOnce /\ stage \in {"findings", "supported_no_finding"}
  /\ supportedOnce = {} => stage \notin {"findings", "supported_no_finding"}
  /\ calls <= 2 * (MaxRepairs + 1)

(* The model is shown whole functions, within both limits, and no function *)
(* without a cleanup while one with a cleanup that would fit is left out.  *)
InventoryIsWhole ==
  LET clean == {a \in inventory : HasCleanup(a)} IN
  readerPhase \notin {"start", "survey"} =>
    /\ inventory = UNION {Siblings(a) : a \in inventory}
    /\ Fits(inventory, TRUE)
    /\ \A g \in Groups \ inventory :
         HasCleanup(g) /\ clean # inventory => ~Fits(clean \cup Siblings(g), TRUE)

(* The inventory shown to the model is whole within its bounds, resolver   *)
(* and validator agree on what the evidence supports, and a repair keeps   *)
(* what was supported before (project_reader.py, run_project_reader).      *)
ReaderIsGrounded == JudgesAgree /\ SupportIsKept /\ InventoryIsWhole
=============================================================================
