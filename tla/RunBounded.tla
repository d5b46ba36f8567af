----------------------------- MODULE RunBounded -----------------------------
(***************************************************************************)
(* run_bounded (subprocess_utils.py): the caller waits for a child with a  *)
(* timeout while two reader threads drain its output pipes, each keeping a *)
(* bounded head and tail.  The child may leave descendants behind that     *)
(* still hold the pipes: some in its process group, which a timeout kills, *)
(* and some that made a session of their own.                              *)
(*                                                                         *)
(* The bytes of a stream are numbered from 1 in the order they are written,*)
(* so counters stand for the content of a pipe and of a reader's block.    *)
(***************************************************************************)
EXTENDS Naturals, Sequences, FiniteSets

CONSTANTS Limit,        \* max_stdout_bytes, max_stderr_bytes
          Block,        \* _READ_CHUNK_BYTES
          PipeSize,     \* what a pipe holds before a writer blocks
          MaxBytes      \* bound, of each stream: bytes written to it

Streams     == {"stdout", "stderr"}

ASSUME RunAssumption ==
  /\ Limit \in Nat \ {0} /\ Block \in Nat \ {0} /\ PipeSize \in Nat \ {0}
  /\ MaxBytes \in [Streams -> Nat]

Descendants == {"group", "escaped"}
Processes   == {"child"} \cup Descendants

VARIABLES
  timeout, hangs, denied, \* is a timeout set, does the child never exit,
                          \* does killpg raise PermissionError?
  quota,                  \* of each stream: what the child writes before it exits
  process,                \* of each process: "none", "running" or "gone"
  written,                \* of each stream: bytes written to its pipe
  taken,                  \* of each stream: bytes its reader has read
  total, head, tail,      \* _BoundedOutput
  reader,                 \* of each reader: in read(), "between" two, or "ended"
  closed,                 \* streams closed on this side
  pc, timedOut            \* the caller

choices == <<timeout, hangs, denied, quota>>
output  == <<total, head, tail>>
vars == <<choices, process, written, taken, output, reader, closed, pc, timedOut>>

HeadLimit == IF (Limit * 3) \div 4 > 1 THEN (Limit * 3) \div 4 ELSE 1
TailLimit == IF Limit > HeadLimit THEN Limit - HeadLimit ELSE 0

Init ==
  /\ timeout \in BOOLEAN /\ hangs \in BOOLEAN /\ denied \in BOOLEAN
  /\ quota \in {q \in [Streams -> 0 .. MaxBytes["stdout"] + MaxBytes["stderr"]] :
                 \A s \in Streams : q[s] <= MaxBytes[s]}
  /\ process = [p \in Processes |-> IF p = "child" THEN "running" ELSE "none"]
  /\ written = [s \in Streams |-> 0] /\ taken = [s \in Streams |-> 0]
  /\ total = [s \in Streams |-> 0]
  /\ head = [s \in Streams |-> <<>>] /\ tail = [s \in Streams |-> <<>>]
  /\ reader = [s \in Streams |-> "between"]
  /\ closed = {}
  /\ pc = "wait" /\ timedOut = FALSE

-----------------------------------------------------------------------------
(* The child's side: whoever holds the pipes writes to them, blocking when *)
(* one is full; what is written to a stream already closed is lost.        *)
Writes(p, s) ==
  /\ process[p] = "running"
  /\ written[s] < IF p = "child" THEN quota[s] ELSE MaxBytes[s]
  /\ s \in closed \/ written[s] - taken[s] < PipeSize
  /\ written' = [written EXCEPT ![s] = @ + 1]
  /\ UNCHANGED <<choices, process, taken, output, reader, closed, pc, timedOut>>

Forks(d) ==
  /\ process["child"] = "running" /\ process[d] = "none"
  /\ process' = [process EXCEPT ![d] = "running"]
  /\ UNCHANGED <<choices, written, taken, output, reader, closed, pc, timedOut>>

Exits(p) ==
  /\ process[p] = "running"
  /\ p = "child" => ~hangs /\ \A s \in Streams : written[s] >= quota[s]
  /\ process' = [process EXCEPT ![p] = "gone"]
  /\ UNCHANGED <<choices, written, taken, output, reader, closed, pc, timedOut>>

-----------------------------------------------------------------------------
(* Mutant: one thread drains stdout to its end, then stderr.               *)
ReadsInTurn(s) ==
  /\ reader[s] = "between" /\ s \notin closed
  /\ s = "stderr" => reader["stdout"] = "ended"
  /\ reader' = [reader EXCEPT ![s] = "reading"]
  /\ UNCHANGED <<choices, process, written, taken, output, closed, pc, timedOut>>

(* The readers: read(n) holds the lock of the stream until it has n bytes  *)
(* or every writer is gone.                                                *)
Reads(s) ==
  /\ reader[s] = "between" /\ s \notin closed
  /\ reader' = [reader EXCEPT ![s] = "reading"]
  /\ UNCHANGED <<choices, process, written, taken, output, closed, pc, timedOut>>

Drains(s) ==
  /\ reader[s] = "reading"
  /\ taken[s] < written[s] /\ taken[s] - total[s] < Block
  /\ taken' = [taken EXCEPT ![s] = @ + 1]
  /\ UNCHANGED <<choices, process, written, total, head, tail, reader, closed, pc, timedOut>>

(* Mutant: the output ends with the child.                                 *)
EofOfChild(s) == taken[s] = written[s] /\ process["child"] # "running"

Eof(s) == taken[s] = written[s] /\ \A p \in Processes : process[p] # "running"

Last(seq, n) == IF Len(seq) > n THEN SubSeq(seq, Len(seq) - n + 1, Len(seq)) ELSE seq
Least(a, b)  == IF a < b THEN a ELSE b

(* The block goes to the head as far as there is room, the rest to the     *)
(* tail, whose oldest bytes give way.                                      *)
Keep(s) ==
  LET block   == [i \in 1 .. taken[s] - total[s] |-> total[s] + i]
      toHead  == Least(HeadLimit - Len(head[s]), Len(block))
      rest    == SubSeq(block, toHead + 1, Len(block))
  IN  /\ total' = [total EXCEPT ![s] = taken[s]]
      /\ head' = [head EXCEPT ![s] = @ \o SubSeq(block, 1, toHead)]
      /\ tail' = [tail EXCEPT ![s] = Last(@ \o rest, TailLimit)]

Consumes(s) ==
  /\ reader[s] = "reading"
  /\ taken[s] > total[s]
  /\ taken[s] - total[s] = Block \/ Eof(s)
  /\ Keep(s)
  /\ reader' = [reader EXCEPT ![s] = "between"]
  /\ UNCHANGED <<choices, process, written, taken, closed, pc, timedOut>>

(* An empty read, or a stream closed under the reader, ends it.            *)
ReaderEnds(s) ==
  /\ \/ reader[s] = "reading" /\ taken[s] = total[s] /\ Eof(s)
     \/ reader[s] = "between" /\ s \in closed
  /\ reader' = [reader EXCEPT ![s] = "ended"]
  /\ closed' = closed \cup {s}
  /\ UNCHANGED <<choices, process, written, taken, output, pc, timedOut>>

-----------------------------------------------------------------------------
(* The caller.  wait() returns, or its time is up, perhaps just as the     *)
(* child exits.                                                            *)
ChildIsReaped ==
  /\ pc \in {"wait", "reap"} /\ process["child"] = "gone"
  /\ pc' = "join"
  /\ UNCHANGED <<choices, process, written, taken, output, reader, closed, timedOut>>

TimesOut ==
  /\ pc = "wait" /\ timeout
  /\ timedOut' = TRUE /\ pc' = "kill"
  /\ UNCHANGED <<choices, process, written, taken, output, reader, closed>>

(* killpg reaches the child's group; where it is not permitted only the    *)
(* child is killed.                                                        *)
Kills ==
  /\ pc = "kill"
  /\ process' = [p \in Processes |->
       IF (p = "child" \/ (p = "group" /\ ~denied)) /\ process[p] = "running"
       THEN "gone" ELSE process[p]]
  /\ pc' = "reap"
  /\ UNCHANGED <<choices, written, taken, output, reader, closed, timedOut>>

(* The readers are joined for two seconds each, ended or not.              *)
Joins ==
  /\ pc \in {"join", "joinAgain"}
  /\ pc' = IF pc = "join" THEN "close" ELSE "done"
  /\ UNCHANGED <<choices, process, written, taken, output, reader, closed, timedOut>>

(* Closing a stream waits for the lock a reader in read() holds.           *)
Closes ==
  /\ pc = "close"
  /\ \E s \in Streams \ closed :
       /\ s = "stderr" => "stdout" \in closed
       /\ reader[s] # "reading"
       /\ closed' = closed \cup {s}
  /\ UNCHANGED <<choices, process, written, taken, output, reader, pc, timedOut>>

StreamsAreClosed ==
  /\ pc = "close" /\ closed = Streams
  /\ pc' = "joinAgain"
  /\ UNCHANGED <<choices, process, written, taken, output, reader, closed, timedOut>>

Caller == ChildIsReaped \/ TimesOut \/ Kills \/ Joins \/ Closes \/ StreamsAreClosed
Reader(s) == Reads(s) \/ Drains(s) \/ Consumes(s) \/ ReaderEnds(s)

Next ==
  \/ Caller
  \/ \E s \in Streams : Reader(s) \/ \E p \in Processes : Writes(p, s)
  \/ \E d \in Descendants : Forks(d)
  \/ \E p \in Processes : Exits(p)

Spec == Init /\ [][Next]_vars

(* The threads of this process run, and so does the child; nobody answers  *)
(* for the child's descendants.                                            *)
FairSpec ==
  /\ Spec /\ WF_vars(Caller) /\ \A s \in Streams : WF_vars(Reader(s))
  /\ \A s \in Streams : WF_vars(Writes("child", s))
  /\ WF_vars(Exits("child"))

-----------------------------------------------------------------------------
(* No pipe is overfilled, nothing is read that was not written.            *)
CountsOK ==
  /\ \A f \in {quota, written, taken, total} : f \in [Streams -> Nat]
  /\ \A s \in Streams :
       /\ quota[s] <= MaxBytes[s] /\ written[s] <= MaxBytes[s]
       /\ total[s] <= taken[s] /\ taken[s] <= written[s]
       /\ (s \in closed \/ written[s] - taken[s] <= PipeSize) /\ taken[s] - total[s] <= Block

(* Head and tail respect their limits.                                     *)
OutputOK ==
  /\ head \in [Streams -> Seq(Nat)] /\ tail \in [Streams -> Seq(Nat)]
  /\ \A s \in Streams :
       /\ head[s] \in Seq(1 .. MaxBytes[s]) /\ Len(head[s]) <= HeadLimit
       /\ tail[s] \in Seq(1 .. MaxBytes[s]) /\ Len(tail[s]) <= TailLimit

(* The variables of run_bounded have their shapes.                         *)
TypeOK ==
  /\ timeout \in BOOLEAN /\ hangs \in BOOLEAN /\ denied \in BOOLEAN
  /\ process \in [Processes -> {"none", "running", "gone"}]
  /\ CountsOK /\ OutputOK
  /\ reader \in [Streams -> {"between", "reading", "ended"}]
  /\ closed \subseteq Streams
  /\ pc \in {"wait", "kill", "reap", "join", "close", "joinAgain", "done"}
  /\ timedOut \in BOOLEAN

KeptIsHeadAndTail ==
  \A s \in Streams :
    LET kept == Least(total[s], HeadLimit)
        ends == Least(total[s] - kept, TailLimit)
    IN  /\ head[s] = [i \in 1 .. kept |-> i]
        /\ tail[s] = [i \in 1 .. ends |-> total[s] - ends + i]

NothingIsLost ==
  \A s \in Streams :
    reader[s] = "ended" /\ total[s] < written[s] => pc \in {"close", "joinAgain", "done"}

(* However the bytes fall into blocks, what is kept is the beginning and   *)
(* the end of what was read, and all of it when it fits the limit          *)
(* (subprocess_utils.py:24-55); and a reader that has ended had read all   *)
(* that was ever written, unless the caller closed the stream under it.    *)
OutputIsKept == KeptIsHeadAndTail /\ NothingIsLost

(* After a timeout, nothing of the child's process group is left running,  *)
(* unless the system refuses to kill it.                                   *)
GroupIsKilled ==
  timedOut /\ pc \notin {"kill"} /\ ~denied =>
    process["child"] = "gone" /\ process["group"] # "running"

(* run_bounded keeps the first and the last bytes of each stream, in       *)
(* whatever blocks its readers got them, and leaves nothing of a group it  *)
(* had to kill.                                                            *)
RunIsClean == TypeOK /\ OutputIsKept /\ GroupIsKilled

(* subprocess_utils.py:68: "Pipes are drained concurrently so noisy child  *)
(* processes cannot deadlock".  A run whose child exits, or may be timed   *)
(* out, ends once no descendant of the child is left.                      *)
RunReturns ==
  (timeout \/ ~hangs) /\ <>[](\A d \in Descendants : process[d] # "running")
    => <>(pc = "done")

(* subprocess_utils.py:69: "On timeout, the child is killed and            *)
(* TimeoutExpired carries the bounded output".                             *)
TimeoutIsRaised == timedOut ~> pc = "done"

=============================================================================
