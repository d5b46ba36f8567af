--------------------------- MODULE MCUserCommands ---------------------------
(* The commands over the user's files: those that append to the stores,    *)
(* those that write the intent memory, or those of the consent queue, which*)
(* run alone and may be killed.  They share no file, so a behaviour is one *)
(* of one of these kinds; where commands over the memory overlap, none is  *)
(* killed.                                                                 *)
EXTENDS UserStores, Preflight, ConsentQueue, TLC

VARIABLE kind

PathOf(name, dots) == [dots |-> dots, name |-> name]
Finding(rule, name, line, queries) ==
  [rule |-> rule, path |-> PathOf(name, FALSE), line |-> line, language |-> "go", queries |-> queries]

Leak      == Finding("leak", "a", 1, 2)
LeakToo   == Finding("leak", "b", 1, 1)
Dotted    == [Finding("retry", "a", 1, 1) EXCEPT !.path.dots = TRUE]
Unplaced  == [Finding(NoRule, "a", 0, 0) EXCEPT !.path = NoPlace]
Termless  == Finding("leak", "a", 0, 0)
Bracketed == Finding("leak", "[b]", 1, 1)
Beside    == Finding("retry", "[b]", 1, 0)
Unlined(finding) == [finding EXCEPT !.line = 0]

MCWildcards == "[b]" :> {"b"}
MCReports == {<<Unlined(LeakToo), Unlined(Leak)>>, <<Unplaced, Dotted>>,
              <<Termless, LeakToo, Leak>>, <<Bracketed, Beside, LeakToo>>}
MCUserEntries ==
  {[label |-> "intentional", path |-> PathOf("a", FALSE), rule |-> NoRule, source |-> 0]}
Event(rule, actionable) == [rule |-> rule, language |-> "go", actionable |-> actionable]
MCEventLogs == {<<>>, <<Event("leak", FALSE), Event("retry", TRUE)>>}

allVars == <<kind, storeVars, preflightVars, queueVars>>

Init == /\ kind \in {"stores", "memory", "consent"} /\ StoreInit /\ PreflightInit
        /\ QueueInit /\ (kind # "consent" => ~overlap)

Next ==
  /\ UNCHANGED kind
  /\ \/ kind = "stores" /\ StoreNext /\ UNCHANGED <<preflightVars, queueVars>>
     \/ kind = "memory" /\ PreflightNext /\ UNCHANGED <<storeVars, queueVars>>
        /\ (overlapping => kills' = 0)
     \/ kind = "consent" /\ QueueNext /\ UNCHANGED <<storeVars, preflightVars>>

Spec == Init /\ [][Next]_allVars

CONSTANTS r1, t1
MCOverlapStages == {<<r1, t1>>}

Interchangeable == Permutations(Commands) \cup Permutations(Records)
=============================================================================
