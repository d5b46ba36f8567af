----------------------------- MODULE RetryLoops -----------------------------
(***************************************************************************)
(* Retries without a pause (analysis/retry_loops.py): in an endless loop,  *)
(* does the failure of a call lead straight back to the loop head?  A      *)
(* depth-first search over the function's control flow, one step for each  *)
(* state it takes from its stack.                                          *)
(*                                                                         *)
(* An operation has what the analysis reads of it: whether its call may    *)
(* fail for good, the error it sets, the error its condition tests, and    *)
(* whether it pauses, bounds the retries, or does work.                    *)
(***************************************************************************)
EXTENDS Lists, SequencesExt

CONSTANT Retriers   \* functions: [ops, arcs, loop]

VARIABLES
  retrier,
  loopBody,    \* body_ids, {} until known
  tries, trial, trialStack, trialSeen, spins, retrying

retryVars == <<retrier, loopBody, tries, trial, trialStack, trialSeen, spins, retrying>>

NoRetrier == [ops |-> <<>>, arcs |-> {}, loop |-> [at |-> 0, endless |-> FALSE]]
NoTrial   == [call |-> 0, branch |-> 0]

RetryInit ==
  /\ retrier = NoRetrier /\ loopBody = {} /\ tries = <<>> /\ trial = NoTrial /\ trialStack = <<>>
  /\ trialSeen = {} /\ spins = {} /\ retrying = "start"

(* A function has finitely many arcs, among its operations, and its loop   *)
(* is one of them.                                                         *)
ASSUME RetryAssumption ==
  \A r \in Retriers :
    /\ r.ops \in Seq([kind : STRING, risky : BOOLEAN, error : STRING, tests : STRING, failsOn : STRING,
                      sets : SUBSET STRING, reads : SUBSET STRING, limits : BOOLEAN, pauses : BOOLEAN,
                      records : BOOLEAN])
    /\ r.arcs \subseteq [from : DOMAIN r.ops, to : DOMAIN r.ops, kind : STRING] /\ IsFiniteSet(r.arcs)
    /\ r.loop \in [at : DOMAIN r.ops, endless : BOOLEAN]

LoopOp(o) == retrier.ops[o]
ArcsFrom(o) == {a \in retrier.arcs : a.from = o}

(* _loop_body: what the loop head reaches without leaving a loop, and what *)
(* leads directly to that.                                                 *)
Owned ==
  LET within == {<<a.from, a.to>> : a \in {b \in retrier.arcs : b.kind # "loop_exit"}}
      reach[n \in 0 .. Len(retrier.ops)] ==
        IF n = 0 THEN {retrier.loop.at}
        ELSE LET before == reach[n - 1] IN before \cup {p[2] : p \in {q \in within : q[1] \in before}}
      all   == reach[Len(retrier.ops)]
      inner == {p[2] : p \in {q \in within : q[1] \in all}}
  IN  inner \cup {a.from : a \in {b \in retrier.arcs : b.to \in inner}}

(* _assigned_names.                                                        *)
AssignedNames == UNION {LoopOp(o).sets : o \in loopBody}

(* _error_outcome: the arcs taken when the error is set.                   *)
ErrorArcs(branch) == {a \in ArcsFrom(branch) : a.kind = LoopOp(branch).failsOn}

(* analyze(): the calls and branches looked at, in order.                  *)
TrialsOf ==
  LET calls    == {o \in loopBody : LoopOp(o).kind = "call" /\ LoopOp(o).risky /\ LoopOp(o).error # ""}
      branches == {o \in loopBody : LoopOp(o).kind = "branch"} IN
  {t \in [call : calls, branch : branches] : LoopOp(t.branch).tests = LoopOp(t.call).error}

Earlier(s, t) == s.call < t.call \/ (s.call = t.call /\ s.branch < t.branch)

Searching(o, mitigated, blocked) == [at |-> o, mitigated |-> mitigated, blocked |-> blocked]

(* _is_mitigation: a pause, a limit, or a test of a variable of the loop.  *)
Mitigates(o, error) ==
  CASE LoopOp(o).kind = "branch" -> LoopOp(o).limits \/ (LoopOp(o).reads \cap AssignedNames) \ {error} # {}
    [] LoopOp(o).kind = "call"   -> LoopOp(o).pauses
    [] OTHER -> FALSE

(* _blocks_immediate_retry: a call that is no record of the failure.       *)
Works(o) == LoopOp(o).kind = "call" /\ ~LoopOp(o).records

BeginRetry ==
  /\ retrying = "start" /\ retrier' \in Retriers /\ retrying' = "loop"
  /\ UNCHANGED <<loopBody, tries, trial, trialStack, trialSeen, spins>>

OwnLoop ==
  /\ retrying = "loop" /\ loopBody = {} /\ retrier.loop.endless
  /\ loopBody' = Owned
  /\ UNCHANGED <<retrier, tries, trial, trialStack, trialSeen, spins, retrying>>

ListTrials ==
  /\ retrying = "loop" /\ (loopBody # {} \/ ~retrier.loop.endless)
  /\ retrying' = "search"
  /\ tries' = Sorted(TrialsOf, {x \in TrialsOf \X TrialsOf : Earlier(x[1], x[2])})
  /\ UNCHANGED <<retrier, loopBody, trial, trialStack, trialSeen, spins>>

BeginTrial ==
  /\ retrying = "search" /\ trial = NoTrial /\ tries # <<>>
  /\ trial' = Head(tries) /\ tries' = Tail(tries)
  /\ trialStack' = SetToSeq({Searching(a.to, FALSE, FALSE) : a \in ErrorArcs(Head(tries).branch)})
  /\ trialSeen' = {}
  /\ UNCHANGED <<retrier, loopBody, spins, retrying>>

(* Mutant: work on the way is no reason to stop.                           *)
ComesBackWorking(state, arc) == arc.kind = "loop_back" /\ arc.to = retrier.loop.at /\ ~state.mitigated

ComesBack(state, arc) ==
  arc.kind = "loop_back" /\ arc.to = retrier.loop.at /\ ~state.mitigated /\ ~state.blocked

(* _unmitigated_loopback: one state of its stack.                          *)
SearchRetry ==
  LET state == Last(trialStack)
      arcs  == ArcsFrom(state.at)
      error == LoopOp(trial.call).error
      next  == {Searching(a.to, state.mitigated \/ Mitigates(a.to, error), state.blocked \/ Works(a.to)) :
                  a \in {b \in arcs : b.kind # "loop_back"}}
      back  == \E a \in arcs : ComesBack(state, a)
      skip  == state \in trialSeen \/ state.at \notin loopBody IN
  /\ trial # NoTrial /\ trialStack # <<>>
  /\ trialSeen' = trialSeen \cup {state}
  /\ IF ~skip /\ back
     THEN trialStack' = <<>> /\ spins' = spins \cup {trial}
     ELSE trialStack' = Front(trialStack) \o (IF skip THEN <<>> ELSE SetToSeq(next)) /\ UNCHANGED spins
  /\ UNCHANGED <<retrier, loopBody, tries, trial, retrying>>

EndTrial ==
  /\ trial # NoTrial /\ trialStack = <<>> /\ trial' = NoTrial
  /\ UNCHANGED <<retrier, loopBody, tries, trialStack, trialSeen, spins, retrying>>

RetryEnd == retrying = "search" /\ tries = <<>> /\ trial = NoTrial

RetryNext == BeginRetry \/ OwnLoop \/ ListTrials \/ BeginTrial \/ SearchRetry \/ EndTrial

RetrySpec == RetryInit /\ [][RetryNext]_retryVars

-----------------------------------------------------------------------------
(* The runs from a failure to the loop head, operation by operation and    *)
(* none twice.                                                             *)
Inside == {a \in retrier.arcs : a.kind # "loop_back" /\ a.from \in loopBody}

Lengthened(roads) ==
  {Append(x[1], x[2].to) : x \in {y \in roads \X Inside : y[2].from = Last(y[1]) /\ y[2].to \notin ToSet(y[1])}}

RoadsFrom(branch) ==
  LET grow[n \in 0 .. Len(retrier.ops)] ==
        IF n = 0 THEN {<<a.to>> : a \in ErrorArcs(branch)}
        ELSE LET before == grow[n - 1] IN before \cup Lengthened(before)
  IN  grow[Len(retrier.ops)]

LeadsBack(o) == o \in loopBody /\ \E a \in ArcsFrom(o) : a.kind = "loop_back" /\ a.to = retrier.loop.at

Roads(branch) == {r \in RoadsFrom(branch) : LeadsBack(Last(r))}

Hurried(road, call) ==
  \A i \in DOMAIN road : ~Mitigates(road[i], LoopOp(call).error) /\ ~Works(road[i])

(* When the search ends, a failure is reported exactly when it can go back *)
(* to the loop head on some path where nothing after the first operation   *)
(* pauses, bounds the retries or works.  That operation itself is not      *)
(* looked at: an error path that begins with a sleep is reported too,      *)
(* though "without passing a mitigation" (retry_loops.py:12) excludes it.  *)
RetriesAreFound ==
  RetryEnd /\ retrier.loop.endless =>
    \A t \in TrialsOf : t \in spins <=> \E road \in Roads(t.branch) : Hurried(Tail(road), t.call)

=============================================================================
