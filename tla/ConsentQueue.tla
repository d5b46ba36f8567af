---------------------------- MODULE ConsentQueue ----------------------------
(***************************************************************************)
(* The consent queue (consent/queue.py, consent/email.py): audits stage    *)
(* repositories in one JSON file, and "consent send --send", or an audit   *)
(* with SMARTBENCH_CONSENT_AUTOSEND, mails their maintainers and records   *)
(* the outcome.  Every command is a process of its own; nothing locks the  *)
(* file, and every writer goes through the same temporary file.  A process *)
(* may be killed, or fail to write, between any two steps.                 *)
(*                                                                         *)
(* requested_at is set together with the status "requested" and by nothing *)
(* else, so it is not kept apart from it.  A dry run changes nothing and   *)
(* is left out; SMTP is taken as configured.                               *)
(***************************************************************************)
EXTENDS Naturals, Sequences, FiniteSets, Lists

CONSTANTS Procs,            \* commands running at one time
          Repos, Trajectories,
          Limits,           \* values of --limit (MAX_PER_RUN is 10)
          OverlapStages,    \* bound: what overlapping commands may stage
          MaxStops,         \* bound: kills and failed writes, of commands run alone
          MaxMails          \* bound: mails to one repository

ASSUME ConsentAssumption ==
  /\ OverlapStages \subseteq Repos \X Trajectories
  /\ Limits \subseteq 1 .. 10 /\ MaxStops \in Nat /\ MaxMails \in Nat

Statuses == {"staged", "requested", "contact_missing", "error"}
Entry    == [repository : Repos, trajectories : SUBSET Trajectories, status : Statuses]

(* What an inode holds: nothing that parses, or a list of requests.        *)
Absent     == [state |-> "absent", requests |-> <<>>]
Torn       == [state |-> "torn", requests |-> <<>>]
Whole(doc) == [state |-> "whole", requests |-> doc]

VARIABLES
  overlap,        \* may one command start while another runs?
  queue, tmp,     \* the files outreach.json and outreach.json.tmp
  writes,         \* of each process: the file its open handle writes to
  op, pc,         \* the command it runs, and the step it is at
  doc,            \* the document it has in memory
  todo,           \* repositories its command has still to handle
  verdict,        \* the status it is about to record
  delivered,      \* has the mail to Head(todo) been delivered?
  stops,
  returned,       \* history: repositories some stage() call returned for
  mails,          \* history: mails delivered to each repository
  unrecorded      \* history: of those, ones whose command died before recording

procVars == <<writes, op, pc, doc, todo, verdict, delivered>>
history  == <<returned, mails, unrecorded>>
queueVars     == <<overlap, queue, tmp, procVars, stops, history>>

QueueInit ==
  /\ overlap \in BOOLEAN
  /\ queue = Absent /\ tmp = Absent
  /\ writes = [p \in Procs |-> "none"]
  /\ op = [p \in Procs |-> "none"] /\ pc = [p \in Procs |-> "idle"]
  /\ doc = [p \in Procs |-> <<>>] /\ todo = [p \in Procs |-> <<>>]
  /\ verdict = [p \in Procs |-> "staged"] /\ delivered = [p \in Procs |-> FALSE]
  /\ stops = 0
  /\ returned = {} /\ mails = [r \in Repos |-> 0] /\ unrecorded = [r \in Repos |-> 0]

-----------------------------------------------------------------------------
(* load_queue: what cannot be read is an empty queue.                      *)
Load == queue.requests

QueuedRepos(requests) == {requests[i].repository : i \in DOMAIN requests}

(* Mutant: a repository staged again is asked again.                       *)
WithStagedAgain(requests, r, ts) ==
  SelectSeq(requests, LAMBDA e : e.repository # r)
    \o <<[repository |-> r, trajectories |-> ts, status |-> "staged"]>>

(* The document with r staged for the trajectories ts: an entry is made    *)
(* the first time, and only gains trajectories afterwards.                 *)
WithStaged(requests, r, ts) ==
  IF r \in QueuedRepos(requests)
  THEN [i \in DOMAIN requests |->
          IF requests[i].repository = r
          THEN [requests[i] EXCEPT !.trajectories = @ \cup ts] ELSE requests[i]]
  ELSE Append(requests, [repository |-> r, trajectories |-> ts, status |-> "staged"])

WithStatus(requests, r, status) ==
  [i \in DOMAIN requests |->
     IF requests[i].repository = r
     THEN [requests[i] EXCEPT !.status = status] ELSE requests[i]]

(* The entries a send run takes: the first ones still staged, at most      *)
(* limit, of the repositories asked for.                                   *)
Selected(requests, among, limit) ==
  LET pending == {i \in DOMAIN requests :
                    requests[i].status = "staged" /\ requests[i].repository \in among}
      first   == {i \in pending : Cardinality(Before(pending, i)) < limit}
  IN  AtPositions([i \in DOMAIN requests |-> requests[i].repository], first)

-----------------------------------------------------------------------------
(* stage() reads the queue and adds the repository in memory.              *)
StageLoads(p, r, ts, kind) ==
  /\ pc[p] = "idle"
  /\ op' = [op EXCEPT ![p] = kind]
  /\ pc' = [pc EXCEPT ![p] = "open"]
  /\ todo' = [todo EXCEPT ![p] = <<r>>]
  /\ doc' = [doc EXCEPT ![p] = WithStaged(Load, r, ts)]
  /\ UNCHANGED <<queue, tmp, writes, verdict, delivered, stops, history>>

(* send_pending reads the queue once and selects what it will mail.        *)
SendSelects(p, among, limit) ==
  /\ \/ pc[p] = "idle"
     \/ pc[p] = "autosend" /\ limit = 1 /\ among = Repos
  /\ LET selected == Selected(Load, among, limit) IN
     /\ todo' = [todo EXCEPT ![p] = selected]
     /\ op' = [op EXCEPT ![p] = IF selected = <<>> THEN "none" ELSE "send"]
     /\ pc' = [pc EXCEPT ![p] = IF selected = <<>> THEN "idle" ELSE "resolve"]
  /\ UNCHANGED <<queue, tmp, writes, doc, verdict, delivered, stops, history>>

(* resolve_contact finds no address: nothing is sent.                      *)
ContactIsMissing(p) ==
  /\ pc[p] = "resolve"
  /\ verdict' = [verdict EXCEPT ![p] = "contact_missing"]
  /\ pc' = [pc EXCEPT ![p] = "record"]
  /\ UNCHANGED <<queue, tmp, writes, op, doc, todo, delivered, stops, history>>

(* resolve_contact finds one and send_message returns, or raises, which it *)
(* may do after the server has taken the message (a timeout, a refused     *)
(* QUIT).                                                                  *)
Mail(p, accepted, outcome) ==
  /\ pc[p] = "resolve"
  /\ accepted => mails[Head(todo[p])] < MaxMails
  /\ outcome = "requested" => accepted
  /\ verdict' = [verdict EXCEPT ![p] = outcome]
  /\ delivered' = [delivered EXCEPT ![p] = accepted]
  /\ mails' = IF accepted THEN [mails EXCEPT ![Head(todo[p])] = @ + 1] ELSE mails
  /\ pc' = [pc EXCEPT ![p] = "record"]
  /\ UNCHANGED <<queue, tmp, writes, op, doc, todo, stops, returned, unrecorded>>

(* The local variables of the functions it leaves.                         *)
Forgets(p) ==
  /\ doc' = [doc EXCEPT ![p] = <<>>]
  /\ verdict' = [verdict EXCEPT ![p] = "staged"]

(* The command goes on to its next repository, or ends.                    *)
GoesOn(p) ==
  /\ Forgets(p)
  /\ todo' = [todo EXCEPT ![p] = Tail(@)]
  /\ delivered' = [delivered EXCEPT ![p] = FALSE]
  /\ pc' = [pc EXCEPT ![p] = IF op[p] = "autostage" THEN "autosend"
                             ELSE IF Len(todo[p]) = 1 THEN "idle" ELSE "resolve"]
  /\ op' = [op EXCEPT ![p] = IF op[p] # "autostage" /\ Len(todo[p]) = 1 THEN "none" ELSE @]

(* update_request reads the queue again; an entry that is no longer there  *)
(* is not recorded.                                                        *)
RecordLoads(p) ==
  /\ pc[p] = "record"
  /\ IF Head(todo[p]) \in QueuedRepos(Load)
     THEN /\ doc' = [doc EXCEPT ![p] = WithStatus(Load, Head(todo[p]), verdict[p])]
          /\ pc' = [pc EXCEPT ![p] = "open"]
          /\ UNCHANGED <<op, todo, delivered, verdict>>
     ELSE GoesOn(p)
  /\ UNCHANGED <<queue, tmp, writes, stops, history>>

-----------------------------------------------------------------------------
(* Mutant: the queue is removed before it is written again.                *)
OpenUnlinking(p) ==
  /\ pc[p] = "open"
  /\ tmp' = Torn
  /\ queue' = Absent
  /\ writes' = [writes EXCEPT ![p] = "tmp"]
  /\ pc' = [pc EXCEPT ![p] = "write"]
  /\ UNCHANGED <<op, doc, todo, verdict, delivered, stops, history>>

(* _write_queue: write_text creates or truncates the temporary file, then  *)
(* writes it, and os.replace moves it over the queue.                      *)
Open(p) ==
  /\ pc[p] = "open"
  /\ tmp' = Torn
  /\ writes' = [writes EXCEPT ![p] = "tmp"]
  /\ pc' = [pc EXCEPT ![p] = "write"]
  /\ UNCHANGED <<queue, op, doc, todo, verdict, delivered, stops, history>>

(* What a file holds once p has written over it from the start: its own    *)
(* document, unless a longer one of another process was there.             *)
WrittenOverBy(file, p) ==
  {Whole(doc[p])} \cup (IF file.state = "whole" THEN {Torn} ELSE {})

(* The handle writes to the file it opened, wherever that file is by now.  *)
Write(p) ==
  /\ pc[p] = "write"
  /\ tmp' \in IF writes[p] = "tmp" THEN WrittenOverBy(tmp, p) ELSE {tmp}
  /\ queue' \in IF writes[p] = "queue" THEN WrittenOverBy(queue, p) ELSE {queue}
  /\ writes' = [writes EXCEPT ![p] = "none"]
  /\ pc' = [pc EXCEPT ![p] = "replace"]
  /\ UNCHANGED <<op, doc, todo, verdict, delivered, stops, history>>

(* Other processes that had the temporary file open now hold the queue,    *)
(* and those that held the queue hold a file without a name.               *)
MoveOver(p) ==
  /\ pc[p] = "replace"
  /\ tmp.state # "absent"
  /\ queue' = tmp /\ tmp' = Absent
  /\ writes' = [q \in Procs |-> CASE writes[q] = "tmp" -> "queue"
                                  [] writes[q] = "queue" -> "orphan"
                                  [] OTHER -> writes[q]]
  /\ GoesOn(p)
  /\ returned' = IF op[p] = "send" THEN returned ELSE returned \cup {Head(todo[p])}
  /\ UNCHANGED <<stops, mails, unrecorded>>

(* The command ends early: what it has mailed and not recorded, nobody     *)
(* will know of.                                                           *)
Dies(p) ==
  /\ writes' = [writes EXCEPT ![p] = "none"]
  /\ op' = [op EXCEPT ![p] = "none"] /\ pc' = [pc EXCEPT ![p] = "idle"]
  /\ todo' = [todo EXCEPT ![p] = <<>>]
  /\ delivered' = [delivered EXCEPT ![p] = FALSE]
  /\ unrecorded' = IF delivered[p] THEN [unrecorded EXCEPT ![Head(todo[p])] = @ + 1]
                   ELSE unrecorded
  /\ Forgets(p)
  /\ UNCHANGED <<queue, tmp, returned, mails>>

(* os.replace raises: another process has moved the temporary file.        *)
MoveFails(p) ==
  /\ pc[p] = "replace" /\ tmp.state = "absent"
  /\ Dies(p) /\ UNCHANGED stops

(* The process is killed, or one of its writes raises.                     *)
Stop(p) ==
  /\ pc[p] # "idle" /\ stops < MaxStops /\ ~overlap
  /\ stops' = stops + 1
  /\ Dies(p)

(* Commands that do not overlap: one starts when the others have ended.    *)
MayStep(p) == overlap \/ \A q \in Procs \ {p} : pc[q] = "idle"

Stages == IF overlap THEN OverlapStages ELSE Repos \X Trajectories

Steps(p) ==
  \/ \E s \in Stages, kind \in {"stage", "autostage"} : StageLoads(p, s[1], {s[2]}, kind)
  \/ \E among \in {Repos} \cup {{r} : r \in Repos}, limit \in Limits \cup {1} :
       SendSelects(p, among, limit)
  \/ ContactIsMissing(p)
  \/ \E accepted \in BOOLEAN, outcome \in {"requested", "error"} : Mail(p, accepted, outcome)
  \/ RecordLoads(p) \/ Open(p) \/ Write(p) \/ MoveOver(p) \/ MoveFails(p)
  \/ Stop(p)

QueueNext == \E p \in Procs : Steps(p) /\ MayStep(p) /\ UNCHANGED overlap

QueueSpec == QueueInit /\ [][QueueNext]_queueVars

-----------------------------------------------------------------------------
Documents == {queue.requests, tmp.requests} \cup {doc[p] : p \in Procs}

(* A document lists each repository at most once.                          *)
IsDocument(d) ==
  /\ d \in Seq(Entry)
  /\ \A i, j \in DOMAIN d : d[i].repository = d[j].repository => i = j

(* What is on disk and in the memory of the commands.                      *)
ProcTypeOK ==
  /\ doc \in [Procs -> Seq(Entry)] /\ todo \in [Procs -> Seq(Repos)]
  /\ writes \in [Procs -> {"none", "tmp", "queue", "orphan"}]
  /\ op \in [Procs -> {"none", "stage", "autostage", "send"}]
  /\ pc \in [Procs -> {"idle", "open", "write", "replace", "resolve", "record", "autosend"}]
  /\ verdict \in [Procs -> Statuses] /\ delivered \in [Procs -> BOOLEAN]
  /\ \A p \in Procs : pc[p] \in {"resolve", "record", "open", "write", "replace"} => todo[p] # <<>>

(* Every file and every command of the queue has its shape.                *)
QueueTypeOK ==
  /\ \A d \in Documents : IsDocument(d)
  /\ ProcTypeOK
  /\ stops \in 0 .. MaxStops /\ returned \subseteq Repos
  /\ mails \in [Repos -> 0 .. MaxMails] /\ unrecorded \in [Repos -> Nat]

(* queue.py:3-5: a repository stage() has returned for is in the queue.    *)
StagedIsListed == returned \subseteq QueuedRepos(queue.requests)

(* Commands that do not overlap keep the queue readable and what was       *)
(* staged in it, wherever one of them was killed: an unreadable file is    *)
(* taken for an empty queue and then overwritten (queue.py:60-91).         *)
StagedIsKept == ~overlap => StagedIsListed

HasStatus(requests, r, status) ==
  \E i \in DOMAIN requests : requests[i].repository = r /\ requests[i].status = status

(* A request recorded as sent keeps that status, whatever is staged or     *)
(* fails later: it is what keeps send_pending from mailing again.          *)
RequestedIsFinal ==
  [][~overlap => \A r \in Repos :
       HasStatus(queue.requests, r, "requested")
         => HasStatus(queue'.requests, r, "requested")]_queueVars

(* Only a command that died between the delivery and its record makes a    *)
(* second mail possible; in particular a send that raised is not repeated, *)
(* since it may have been delivered.                                       *)
DuplicatesNeedADeath == ~overlap => \A r \in Repos : mails[r] <= 1 + unrecorded[r]

(* However two commands interleave on the files, the queue never claims a  *)
(* consent request that no maintainer has been sent.                       *)
RecordedWasSent ==
  \A i \in DOMAIN queue.requests :
    queue.requests[i].status = "requested" => mails[queue.requests[i].repository] > 0

(* What the queue keeps and what it claims: the two hold together because  *)
(* a status that is lost, with the rest of an unreadable file, is a mail   *)
(* that is sent again.                                                     *)
QueueIsSound == QueueTypeOK /\ StagedIsKept /\ DuplicatesNeedADeath /\ RecordedWasSent
=============================================================================
