-------------------------- MODULE UserFilesProofs ---------------------------
(***************************************************************************)
(* Proofs about the files of the user that several commands write: the     *)
(* consent queue, for any commands, repositories and limits, and the       *)
(* stores of feedback and trajectories, for any commands and records;      *)
(* wherever commands are killed and however they overlap.  Then about the  *)
(* preflight of a report and the intent memory it shares with "intent      *)
(* add", for any reports, entries, feedback and answers of the searches.   *)
(***************************************************************************)
EXTENDS ConsentQueue, UserStores, Preflight, SequenceTheorems, FiniteSetTheorems, TLAPS

Outcomes == {"requested", "contact_missing", "error"}
Writing(p) == pc[p] \in {"open", "write", "replace"}

(* What a command has in hand at each of its steps.                        *)
InOrder(p) ==
  /\ pc[p] \in {"resolve", "record"} => op[p] = "send"
  /\ Writing(p) => op[p] # "none"
  /\ pc[p] \in {"idle", "autosend"} => op[p] # "send"
  /\ op[p] = "stage" => Len(todo[p]) = 1
  /\ delivered[p] => op[p] = "send" /\ (pc[p] = "record" \/ Writing(p))
  /\ pc[p] = "record" \/ (op[p] = "send" /\ Writing(p)) => verdict[p] \in Outcomes
  /\ pc[p] = "record" /\ verdict[p] = "requested" => mails[Head(todo[p])] > 0

(* A document claims only mails that were sent.                            *)
Honest(d) == \A r \in Repos : HasStatus(d, r, "requested") => mails[r] > 0

(* A command run alone has the temporary file for itself.                  *)
OwnsTheFiles(p) ==
  /\ writes[p] = IF pc[p] = "write" THEN "tmp" ELSE "none"
  /\ pc[p] = "write" => tmp = Torn
  /\ pc[p] = "replace" => tmp = Whole(doc[p])

(* What a command is about to write keeps every entry of the queue, but    *)
(* for the status of the repository it has just mailed.                    *)
ExtendsTheQueue(p) ==
  Writing(p) =>
    /\ \A r \in Repos, st \in Statuses :
         HasStatus(queue.requests, r, st) /\ (op[p] = "send" => r # Head(todo[p]))
           => HasStatus(doc[p], r, st)
    /\ op[p] = "send" => HasStatus(doc[p], Head(todo[p]), verdict[p])
    /\ op[p] # "send" => Head(todo[p]) \in QueuedRepos(doc[p])

(* What a send run has still to handle is staged, and listed once.         *)
IsStaged(list) ==
  /\ \A i \in DOMAIN list : HasStatus(queue.requests, list[i], "staged")
  /\ \A i, j \in DOMAIN list : list[i] = list[j] => i = j
TodoIsStaged(p) == op[p] = "send" => IsStaged(todo[p])

Alone ==
  /\ \A p, q \in Procs : pc[p] # "idle" /\ pc[q] # "idle" => p = q
  /\ \A p \in Procs : OwnsTheFiles(p) /\ ExtendsTheQueue(p) /\ TodoIsStaged(p)

Recorded(r) == \E st \in Outcomes : HasStatus(queue.requests, r, st)
InFlight(r) == \E p \in Procs : delivered[p] /\ Head(todo[p]) = r

(* A mail is recorded, or about to be, or its command has died.            *)
MailsAreCounted ==
  \A r \in Repos :
    mails[r] <= IF Recorded(r) \/ InFlight(r) THEN unrecorded[r] + 1 ELSE unrecorded[r]

CInv ==
  /\ QueueTypeOK
  /\ \A p \in Procs : InOrder(p)
  /\ \A d \in Documents : Honest(d)
  /\ ~overlap => Alone /\ MailsAreCounted /\ StagedIsListed

-----------------------------------------------------------------------------
(* The fields of an entry, and of one that was changed.                    *)
LEMMA EntryFields ==
  ASSUME NEW e \in Entry
  PROVE  /\ e.repository \in Repos /\ e.status \in Statuses /\ e.trajectories \in SUBSET Trajectories
         /\ \A ts \in SUBSET Trajectories : /\ [e EXCEPT !.trajectories = ts] \in Entry
              /\ [e EXCEPT !.trajectories = ts].repository = e.repository
              /\ [e EXCEPT !.trajectories = ts].status = e.status
         /\ \A st \in Statuses : /\ [e EXCEPT !.status = st] \in Entry
              /\ [e EXCEPT !.status = st].repository = e.repository
              /\ [e EXCEPT !.status = st].status = st
BY DEF Entry

(* Staging keeps every status of the document, and lists the repository.   *)
LEMMA StagingKeepsStatuses ==
  ASSUME NEW d, IsDocument(d), NEW r \in Repos, NEW ts \in SUBSET Trajectories,
         NEW w, w = WithStaged(d, r, ts)
  PROVE  /\ IsDocument(w) /\ r \in QueuedRepos(w)
         /\ \A x, st : HasStatus(d, x, st) => HasStatus(w, x, st)
         /\ \A x : HasStatus(w, x, "requested") => HasStatus(d, x, "requested")
<1>1. d \in Seq(Entry) /\ DOMAIN d = 1 .. Len(d) /\ Len(d) \in Nat
  BY DEF IsDocument
<1>2. CASE r \in QueuedRepos(d)
  <2> DEFINE v(i) == IF d[i].repository = r
                     THEN [d[i] EXCEPT !.trajectories = d[i].trajectories \cup ts] ELSE d[i]
  <2>1. w = [i \in 1 .. Len(d) |-> v(i)]
    BY <1>1, <1>2 DEF WithStaged
  <2>2. \A i \in 1 .. Len(d) : /\ v(i) \in Entry /\ v(i).repository = d[i].repository
                               /\ v(i).status = d[i].status
    <3> TAKE i \in 1 .. Len(d)
    <3>1. d[i] \in Entry
      BY <1>1
    <3>2. d[i].trajectories \cup ts \in SUBSET Trajectories
      BY <3>1, EntryFields
    <3> QED BY <3>1, <3>2, EntryFields
  <2> HIDE DEF v
  <2>3. w \in Seq(Entry) /\ DOMAIN w = 1 .. Len(d)
    BY <1>1, <2>1, <2>2
  <2>4. \A i \in 1 .. Len(d) : w[i].repository = d[i].repository /\ w[i].status = d[i].status
    BY <2>1, <2>2
  <2> QED BY <1>1, <1>2, <2>3, <2>4 DEF IsDocument, HasStatus, QueuedRepos
<1>3. CASE r \notin QueuedRepos(d)
  <2> DEFINE e == [repository |-> r, trajectories |-> ts, status |-> "staged"]
             n == Len(d)
  <2>1. w = Append(d, e)
    BY <1>3 DEF WithStaged
  <2>2. e \in Entry /\ e.repository = r /\ e.status = "staged"
    BY DEF Entry, Statuses
  <2> HIDE DEF e
  <2>3. /\ w \in Seq(Entry) /\ DOMAIN w = 1 .. n + 1 /\ w[n + 1] = e
        /\ \A i \in 1 .. n : w[i] = d[i]
    BY <1>1, <2>1, <2>2
  <2>4. \A i \in 1 .. n : d[i].repository # r
    BY <1>1, <1>3 DEF QueuedRepos
  <2>5. \A i \in 1 .. n + 1 : i \in 1 .. n \/ i = n + 1
    BY <1>1
  <2>6. IsDocument(w)
    BY <1>1, <2>2, <2>3, <2>4, <2>5 DEF IsDocument
  <2>7. r \in QueuedRepos(w) /\ \A i \in 1 .. n : i \in 1 .. n + 1
    BY <1>1, <2>2, <2>3 DEF QueuedRepos
  <2>8. \A x, st : HasStatus(d, x, st) => HasStatus(w, x, st)
    BY <1>1, <2>3, <2>7 DEF HasStatus
  <2>9. \A x : HasStatus(w, x, "requested") => HasStatus(d, x, "requested")
    BY <1>1, <2>2, <2>3, <2>5 DEF HasStatus
  <2> QED BY <2>6, <2>7, <2>8, <2>9
<1> QED BY <1>2, <1>3

(* Recording changes the status of one repository.                         *)
LEMMA RecordingKeepsOthers ==
  ASSUME NEW d, IsDocument(d), NEW r \in Repos, NEW st \in Statuses, NEW w, w = WithStatus(d, r, st)
  PROVE  /\ IsDocument(w)
         /\ r \in QueuedRepos(d) => HasStatus(w, r, st)
         /\ \A x, s : HasStatus(d, x, s) /\ x # r => HasStatus(w, x, s)
         /\ \A x, s : HasStatus(w, x, s) => HasStatus(d, x, s) \/ (x = r /\ s = st)
<1>1. d \in Seq(Entry) /\ DOMAIN d = 1 .. Len(d) /\ Len(d) \in Nat
  BY DEF IsDocument
<1> DEFINE v(i) == IF d[i].repository = r THEN [d[i] EXCEPT !.status = st] ELSE d[i]
<1>2. w = [i \in 1 .. Len(d) |-> v(i)]
  BY <1>1 DEF WithStatus
<1>3. \A i \in 1 .. Len(d) :
        /\ v(i) \in Entry /\ v(i).repository = d[i].repository
        /\ v(i).status = IF d[i].repository = r THEN st ELSE d[i].status
  <2> TAKE i \in 1 .. Len(d)
  <2>1. d[i] \in Entry
    BY <1>1
  <2> QED BY <2>1, EntryFields
<1> HIDE DEF v
<1>4. w \in Seq(Entry) /\ DOMAIN w = 1 .. Len(d)
  BY <1>1, <1>2, <1>3
<1>5. \A i \in 1 .. Len(d) :
        /\ w[i].repository = d[i].repository
        /\ w[i].status = IF d[i].repository = r THEN st ELSE d[i].status
  BY <1>2, <1>3
<1> QED BY <1>1, <1>4, <1>5 DEF IsDocument, HasStatus, QueuedRepos

(* A send run takes entries that are staged, each once.                    *)
LEMMA SelectionIsStaged ==
  ASSUME NEW d, IsDocument(d), NEW among, NEW limit, NEW list, list = Selected(d, among, limit)
  PROVE  /\ list \in Seq(Repos)
         /\ \A i \in DOMAIN list : HasStatus(d, list[i], "staged")
         /\ \A i, j \in DOMAIN list : list[i] = list[j] => i = j
<1> DEFINE queued == {i \in DOMAIN d : d[i].status = "staged" /\ d[i].repository \in among}
           first   == {i \in queued : Cardinality(Before(queued, i)) < limit}
           n       == Cardinality(first)
<1>1. d \in Seq(Entry) /\ DOMAIN d = 1 .. Len(d) /\ Len(d) \in Nat
  BY DEF IsDocument
<1>2. first \in SUBSET (1 .. Len(d)) /\ \A i \in first : d[i].status = "staged"
  BY <1>1
<1> HIDE DEF first
<1>3. first \in SUBSET Nat /\ IsFiniteSet(first) /\ n \in Nat
  <2>1. IsFiniteSet(1 .. Len(d))
    BY <1>1, FS_Interval
  <2>2. first \in SUBSET Nat
    BY <1>2
  <2> QED BY <1>2, <2>1, <2>2, FS_Subset, FS_CardinalityType
<1>4. list = [i \in 1 .. n |-> [k \in DOMAIN d |-> d[k].repository][Nth(first, i)]]
  BY DEF Selected, AtPositions, first
<1>5. /\ \A i \in 1 .. n : Nth(first, i) \in first
      /\ \A i, j \in 1 .. n : i < j => Nth(first, i) < Nth(first, j)
  BY <1>3, NthIsElement, NthIsIncreasing
<1> HIDE DEF n
<1>6. DOMAIN list = 1 .. n /\ \A i \in 1 .. n : list[i] = d[Nth(first, i)].repository
  BY <1>1, <1>2, <1>4, <1>5
<1>7. \A i \in 1 .. n : d[Nth(first, i)] \in Entry /\ Nth(first, i) \in 1 .. Len(d)
  <2> TAKE i \in 1 .. n
  <2>1. Nth(first, i) \in 1 .. Len(d)
    BY <1>2, <1>5
  <2> QED BY <1>1, <2>1
<1>8. \A i \in 1 .. n : list[i] \in Repos
  BY <1>6, <1>7, EntryFields
<1>9. list \in Seq(Repos)
  BY <1>3, <1>4, <1>6, <1>8
<1>10. \A i \in 1 .. n : HasStatus(d, list[i], "staged")
  BY <1>1, <1>2, <1>5, <1>6, <1>7 DEF HasStatus
<1>11. ASSUME NEW i \in 1 .. n, NEW j \in 1 .. n, list[i] = list[j]
       PROVE  i = j
  <2>1. Nth(first, i) = Nth(first, j)
    BY <1>1, <1>6, <1>7, <1>11 DEF IsDocument
  <2>2. Nth(first, i) \in Nat /\ ~ (i < j) /\ ~ (j < i)
    BY <1>5, <1>7, <2>1
  <2> QED BY <1>3, <2>2
<1> QED BY <1>6, <1>9, <1>10, <1>11

-----------------------------------------------------------------------------
(* What a step of the command p leaves alone.                              *)
Same(q) ==
  /\ op'[q] = op[q] /\ pc'[q] = pc[q] /\ doc'[q] = doc[q]
  /\ todo'[q] = todo[q] /\ verdict'[q] = verdict[q] /\ delivered'[q] = delivered[q]

OthersAreSame(p) ==
  /\ \A q \in Procs \ {p} : Same(q)
  /\ \A q \in Procs \ {p} : ~overlap => writes'[q] = writes[q]
  /\ UNCHANGED overlap /\ MayStep(p)
  /\ \A r \in Repos : mails'[r] >= mails[r]

HistoryOK ==
  /\ stops \in 0 .. MaxStops /\ returned \subseteq Repos
  /\ mails \in [Repos -> 0 .. MaxMails] /\ unrecorded \in [Repos -> Nat]

(* A recorded request stays recorded.                                      *)
RequestedStay ==
  ~overlap => \A r \in Repos : HasStatus(queue.requests, r, "requested")
                                 => HasStatus(queue'.requests, r, "requested")

(* When nobody else runs, the others keep what they are said to keep.      *)
LEMMA OthersAreIdle ==
  ASSUME CInv, ~overlap, NEW p \in Procs, OthersAreSame(p), NEW q \in Procs \ {p}
  PROVE  /\ pc[q] = "idle" /\ pc'[q] = "idle" /\ ~delivered[q] /\ ~delivered'[q]
         /\ OwnsTheFiles(q)' /\ ExtendsTheQueue(q)' /\ TodoIsStaged(q)'
<1>1. pc[q] = "idle" /\ Same(q) /\ writes'[q] = writes[q]
  BY DEF OthersAreSame, MayStep
<1>2. InOrder(q) /\ OwnsTheFiles(q)
  BY DEF CInv, Alone
<1>3. op[q] # "send" /\ delivered[q] = FALSE /\ writes[q] = "none"
  <2>1. delivered[q] \in BOOLEAN
    BY DEF CInv, QueueTypeOK, ProcTypeOK
  <2> QED BY <1>1, <1>2, <2>1 DEF InOrder, Writing, OwnsTheFiles
<1>4. pc'[q] = "idle" /\ op'[q] # "send" /\ delivered'[q] = FALSE /\ writes'[q] = "none"
  BY <1>1, <1>3 DEF Same
<1> QED BY <1>1, <1>3, <1>4 DEF OwnsTheFiles, ExtendsTheQueue, TodoIsStaged, Writing

(* What has to be shown of a step of p for CInv to hold after it.          *)
LEMMA StepOfOne ==
  ASSUME CInv, NEW p \in Procs, OthersAreSame(p),
         ProcTypeOK', HistoryOK', \A d \in Documents' : IsDocument(d) /\ Honest(d)',
         InOrder(p)',
         ~overlap => /\ OwnsTheFiles(p)' /\ ExtendsTheQueue(p)' /\ TodoIsStaged(p)'
                     /\ MailsAreCounted' /\ StagedIsListed'
  PROVE  CInv'
<1>1. QueueTypeOK'
  BY DEF QueueTypeOK, HistoryOK
<1>2. \A q \in Procs : InOrder(q)'
  <2> SUFFICES ASSUME NEW q \in Procs \ {p} PROVE InOrder(q)'
    OBVIOUS
  <2>1. InOrder(q) /\ Same(q)
    BY DEF CInv, OthersAreSame
  <2>2. pc[q] = "record" => mails'[Head(todo[q])] >= mails[Head(todo[q])]
                            /\ mails'[Head(todo[q])] \in Nat /\ mails[Head(todo[q])] \in Nat
    <3> SUFFICES ASSUME pc[q] = "record"
        PROVE  mails'[Head(todo[q])] >= mails[Head(todo[q])]
               /\ mails'[Head(todo[q])] \in Nat /\ mails[Head(todo[q])] \in Nat
      OBVIOUS
    <3>1. todo[q] \in Seq(Repos) /\ todo[q] # <<>>
      BY DEF CInv, QueueTypeOK, ProcTypeOK
    <3>2. Head(todo[q]) \in Repos
      BY <3>1
    <3>3. mails \in [Repos -> 0 .. MaxMails] /\ mails' \in [Repos -> 0 .. MaxMails]
      BY DEF CInv, QueueTypeOK, HistoryOK
    <3> QED BY <3>2, <3>3 DEF OthersAreSame
  <2> QED BY <2>1, <2>2 DEF InOrder, Same, Writing
<1>3. ~overlap' => Alone' /\ MailsAreCounted' /\ StagedIsListed'
  <2> SUFFICES ASSUME ~overlap' PROVE Alone' /\ MailsAreCounted' /\ StagedIsListed'
    OBVIOUS
  <2>1. ~overlap
    BY DEF OthersAreSame
  <2>2. \A q \in Procs : OwnsTheFiles(q)' /\ ExtendsTheQueue(q)' /\ TodoIsStaged(q)'
    BY <2>1, OthersAreIdle
  <2>3. \A q \in Procs \ {p} : pc'[q] = "idle"
    BY <2>1, OthersAreIdle
  <2> QED BY <2>1, <2>2, <2>3 DEF Alone
<1>4. \A d \in Documents' : Honest(d)'
  OBVIOUS
<1> QED BY <1>1, <1>2, <1>3, <1>4 DEF CInv

(* What CInv says of each document.                                        *)
LEMMA DocumentParts ==
  ASSUME CInv
  PROVE  /\ IsDocument(queue.requests) /\ Honest(queue.requests)
         /\ IsDocument(tmp.requests) /\ Honest(tmp.requests)
         /\ \A p \in Procs : IsDocument(doc[p]) /\ Honest(doc[p])
BY DEF CInv, QueueTypeOK, Documents

(* A document stays honest, since no mail is taken back.                   *)
LEMMA HonestyLasts ==
  ASSUME NEW d, Honest(d), \A r \in Repos : mails'[r] >= mails[r],
         mails \in [Repos -> 0 .. MaxMails], mails' \in [Repos -> 0 .. MaxMails]
  PROVE  Honest(d)'
<1>1. \A r \in Repos : mails[r] \in Nat /\ mails'[r] \in Nat
  OBVIOUS
<1> QED BY <1>1 DEF Honest, HasStatus

(* A step of p that mails nothing and, when commands do not overlap,       *)
(* leaves the queue alone.                                                 *)
LEMMA QuietStep ==
  ASSUME CInv, NEW p \in Procs, MayStep(p), UNCHANGED <<overlap, stops, history>>,
         \A q \in Procs \ {p} : Same(q) /\ writes'[q] = writes[q],
         ~overlap => queue' = queue,
         ProcTypeOK', InOrder(p)',
         \A d \in {queue'.requests, tmp'.requests, doc'[p]} : IsDocument(d) /\ Honest(d),
         ~overlap => /\ OwnsTheFiles(p)' /\ ExtendsTheQueue(p)' /\ TodoIsStaged(p)'
                     /\ delivered[p] => delivered'[p] /\ Head(todo'[p]) = Head(todo[p])
  PROVE  CInv' /\ RequestedStay
<1>1. mails \in [Repos -> 0 .. MaxMails] /\ UNCHANGED <<returned, mails, unrecorded>>
  BY DEF CInv, QueueTypeOK, history
<1>2. \A r \in Repos : mails'[r] >= mails[r]
  BY <1>1
<1>3. OthersAreSame(p) /\ HistoryOK'
  BY <1>1, <1>2 DEF OthersAreSame, HistoryOK, CInv, QueueTypeOK
<1>4. \A d \in Documents' : IsDocument(d) /\ Honest(d)'
  <2> SUFFICES ASSUME NEW d \in Documents' PROVE IsDocument(d) /\ Honest(d)
    BY <1>1 DEF Honest
  <2>1. CASE d \in {queue'.requests, tmp'.requests, doc'[p]}
    BY <2>1
  <2>2. CASE d \notin {queue'.requests, tmp'.requests, doc'[p]}
    <3>1. PICK q \in Procs \ {p} : d = doc'[q]
      BY <2>2 DEF Documents
    <3> QED BY <3>1, DocumentParts DEF Same
  <2> QED BY <2>1, <2>2
<1>5. ASSUME ~overlap
      PROVE  MailsAreCounted' /\ StagedIsListed'
  <2>1. MailsAreCounted /\ StagedIsListed /\ queue' = queue
    BY <1>5 DEF CInv
  <2>2. \A r \in Repos : InFlight(r) => InFlight(r)'
    BY <1>5 DEF InFlight, Same
  <2>3. \A r \in Repos : mails[r] \in Nat /\ unrecorded[r] \in Nat
    BY <1>1 DEF CInv, QueueTypeOK
  <2>4. \A r \in Repos : Recorded(r) => Recorded(r)'
    BY <2>1 DEF Recorded, HasStatus
  <2>5. MailsAreCounted'
    BY <1>1, <2>1, <2>2, <2>3, <2>4 DEF MailsAreCounted
  <2> QED BY <1>1, <2>1, <2>5 DEF StagedIsListed
<1>6. CInv'
  BY <1>3, <1>4, <1>5, StepOfOne
<1> QED BY <1>6 DEF RequestedStay

(* What CInv says of one command.                                          *)
LEMMA ProcTypes ==
  ASSUME CInv, NEW p \in Procs
  PROVE  /\ doc \in [Procs -> Seq(Entry)] /\ todo \in [Procs -> Seq(Repos)]
         /\ writes \in [Procs -> {"none", "tmp", "queue", "orphan"}]
         /\ op \in [Procs -> {"none", "stage", "autostage", "send"}]
         /\ pc \in [Procs -> {"idle", "open", "write", "replace", "resolve", "record", "autosend"}]
         /\ verdict \in [Procs -> Statuses] /\ delivered \in [Procs -> BOOLEAN]
         /\ pc[p] \in {"resolve", "record", "open", "write", "replace"} =>
              todo[p] # <<>> /\ Head(todo[p]) \in Repos /\ Tail(todo[p]) \in Seq(Repos)
         /\ InOrder(p)
         /\ ~overlap => OwnsTheFiles(p) /\ ExtendsTheQueue(p) /\ TodoIsStaged(p)
<1>1. ProcTypeOK /\ InOrder(p) /\ (~overlap => OwnsTheFiles(p) /\ ExtendsTheQueue(p) /\ TodoIsStaged(p))
  BY DEF CInv, QueueTypeOK, Alone
<1>2. todo[p] \in Seq(Repos)
  BY <1>1 DEF ProcTypeOK
<1>3. todo[p] # <<>> => Head(todo[p]) \in Repos /\ Tail(todo[p]) \in Seq(Repos)
  BY <1>2
<1> QED BY <1>1, <1>3 DEF ProcTypeOK

(* The temporary file is created or truncated: nobody else has it open.    *)
LEMMA OpenSteps ==
  ASSUME CInv, NEW p \in Procs, MayStep(p), UNCHANGED overlap, Open(p)
  PROVE  CInv' /\ RequestedStay
<1>1. \A q \in Procs \ {p} : Same(q) /\ writes'[q] = writes[q]
  BY ProcTypes DEF Open, Same
<1>2. ProcTypeOK'
  BY DEF CInv, QueueTypeOK, ProcTypeOK, Open
<1>3. pc'[p] = "write" /\ writes'[p] = "tmp"
  BY ProcTypes DEF Open
<1>4. InOrder(p)'
  BY <1>3, ProcTypes DEF Open, InOrder, Writing, history
<1>5. IsDocument(<<>>) /\ Honest(<<>>)
  BY DEF IsDocument, Honest, HasStatus
<1>6. \A d \in {queue'.requests, tmp'.requests, doc'[p]} : IsDocument(d) /\ Honest(d)
  BY <1>5, DocumentParts DEF Open, Torn
<1>7. ASSUME ~overlap
      PROVE  OwnsTheFiles(p)' /\ ExtendsTheQueue(p)' /\ TodoIsStaged(p)'
  BY <1>3, <1>7, ProcTypes DEF Open, OwnsTheFiles, ExtendsTheQueue, TodoIsStaged, IsStaged, Writing
<1> QED BY <1>1, <1>2, <1>4, <1>6, <1>7, QuietStep DEF Open

(* The document is written where the handle points.                        *)
LEMMA WriteSteps ==
  ASSUME CInv, NEW p \in Procs, MayStep(p), UNCHANGED overlap, Write(p)
  PROVE  CInv' /\ RequestedStay
<1>1. \A q \in Procs \ {p} : Same(q) /\ writes'[q] = writes[q]
  BY ProcTypes DEF Write, Same
<1>2. ProcTypeOK'
  BY DEF CInv, QueueTypeOK, ProcTypeOK, Write
<1>3. pc[p] = "write" /\ pc'[p] = "replace" /\ writes'[p] = "none"
  BY ProcTypes DEF Write
<1>4. InOrder(p)'
  BY <1>3, ProcTypes DEF Write, InOrder, Writing, history
<1>5. IsDocument(<<>>) /\ Honest(<<>>)
  BY DEF IsDocument, Honest, HasStatus
<1>6. \A file : \A w \in WrittenOverBy(file, p) : w.requests \in {<<>>, doc[p]}
  BY DEF WrittenOverBy, Whole, Torn
<1>7. tmp'.requests \in {<<>>, doc[p], tmp.requests} /\ queue'.requests \in {<<>>, doc[p], queue.requests}
  BY <1>6 DEF Write
<1>8. \A d \in {queue'.requests, tmp'.requests, doc'[p]} : IsDocument(d) /\ Honest(d)
  BY <1>5, <1>7, DocumentParts DEF Write
<1>9. ASSUME ~overlap
      PROVE  /\ OwnsTheFiles(p)' /\ ExtendsTheQueue(p)' /\ TodoIsStaged(p)'
             /\ queue' = queue
  <2>1. writes[p] = "tmp" /\ tmp = Torn
    BY <1>3, <1>9, ProcTypes DEF OwnsTheFiles
  <2>2. tmp' = Whole(doc[p]) /\ queue' = queue
    BY <2>1 DEF Write, WrittenOverBy, Torn
  <2> QED BY <1>3, <1>9, <2>2, ProcTypes
          DEF Write, OwnsTheFiles, ExtendsTheQueue, TodoIsStaged, IsStaged, Writing
<1> QED BY <1>1, <1>2, <1>4, <1>8, <1>9, QuietStep DEF Write

(* Nothing is sent to a repository without an address.                     *)
LEMMA ContactIsMissingSteps ==
  ASSUME CInv, NEW p \in Procs, MayStep(p), UNCHANGED overlap, ContactIsMissing(p)
  PROVE  CInv' /\ RequestedStay
<1>1. \A q \in Procs \ {p} : Same(q) /\ writes'[q] = writes[q]
  BY ProcTypes DEF ContactIsMissing, Same
<1>2. ProcTypeOK'
  BY DEF CInv, QueueTypeOK, ProcTypeOK, ContactIsMissing, Statuses
<1>3. /\ pc[p] = "resolve" /\ pc'[p] = "record" /\ op[p] = "send" /\ ~delivered[p]
      /\ verdict'[p] = "contact_missing"
  BY ProcTypes DEF ContactIsMissing, InOrder, Writing
<1>4. InOrder(p)'
  BY <1>3, ProcTypes DEF ContactIsMissing, InOrder, Writing, Outcomes, history
<1>5. \A d \in {queue'.requests, tmp'.requests, doc'[p]} : IsDocument(d) /\ Honest(d)
  BY DocumentParts DEF ContactIsMissing
<1>6. ASSUME ~overlap
      PROVE  OwnsTheFiles(p)' /\ ExtendsTheQueue(p)' /\ TodoIsStaged(p)'
  BY <1>3, <1>6, ProcTypes
     DEF ContactIsMissing, OwnsTheFiles, ExtendsTheQueue, TodoIsStaged, IsStaged, Writing
<1> QED BY <1>1, <1>2, <1>3, <1>4, <1>5, <1>6, QuietStep DEF ContactIsMissing

(* The queue is read and a repository staged in memory.                    *)
LEMMA StageLoadsSteps ==
  ASSUME CInv, NEW p \in Procs, MayStep(p), UNCHANGED overlap,
         NEW r \in Repos, NEW ts \in SUBSET Trajectories, NEW kind \in {"stage", "autostage"},
         StageLoads(p, r, ts, kind)
  PROVE  CInv' /\ RequestedStay
<1>1. \A q \in Procs \ {p} : Same(q) /\ writes'[q] = writes[q]
  BY ProcTypes DEF StageLoads, Same
<1> DEFINE w == WithStaged(Load, r, ts)
<1>2. IsDocument(queue.requests) /\ Load = queue.requests
  BY DocumentParts DEF Load
<1>3. /\ IsDocument(w) /\ r \in QueuedRepos(w)
      /\ \A x, st : HasStatus(queue.requests, x, st) => HasStatus(w, x, st)
      /\ \A x : HasStatus(w, x, "requested") => HasStatus(queue.requests, x, "requested")
  BY <1>2, StagingKeepsStatuses
<1>4. Honest(w)
  BY <1>3, DocumentParts DEF Honest
<1>5. /\ pc[p] = "idle" /\ pc'[p] = "open" /\ op'[p] = kind /\ todo'[p] = <<r>> /\ doc'[p] = w
      /\ op' = [op EXCEPT ![p] = kind] /\ pc' = [pc EXCEPT ![p] = "open"]
      /\ todo' = [todo EXCEPT ![p] = <<r>>] /\ doc' = [doc EXCEPT ![p] = w]
  BY ProcTypes DEF StageLoads
<1> HIDE DEF w
<1>6. <<r>> \in Seq(Repos) /\ <<r>> # <<>> /\ Head(<<r>>) = r /\ w \in Seq(Entry)
  BY <1>3 DEF IsDocument
<1>7. ProcTypeOK'
  BY <1>5, <1>6 DEF CInv, QueueTypeOK, ProcTypeOK, StageLoads
<1>8. InOrder(p)'
  BY <1>5, ProcTypes DEF StageLoads, InOrder, Writing, history
<1>9. \A d \in {queue'.requests, tmp'.requests, doc'[p]} : IsDocument(d) /\ Honest(d)
  BY <1>3, <1>4, <1>5, DocumentParts DEF StageLoads
<1>10. ASSUME ~overlap
       PROVE  OwnsTheFiles(p)' /\ ExtendsTheQueue(p)' /\ TodoIsStaged(p)'
  BY <1>3, <1>5, <1>6, <1>10, ProcTypes
     DEF StageLoads, OwnsTheFiles, ExtendsTheQueue, TodoIsStaged, Writing
<1>11. ~delivered[p]
  BY <1>5, ProcTypes DEF InOrder, Writing
<1> QED BY <1>1, <1>7, <1>8, <1>9, <1>10, <1>11, QuietStep DEF StageLoads

(* A send run selects what is staged in the queue it read.                 *)
LEMMA SendSelectsSteps ==
  ASSUME CInv, NEW p \in Procs, MayStep(p), UNCHANGED overlap,
         NEW among, NEW limit, SendSelects(p, among, limit)
  PROVE  CInv' /\ RequestedStay
<1>1. \A q \in Procs \ {p} : Same(q) /\ writes'[q] = writes[q]
  BY ProcTypes DEF SendSelects, Same
<1> DEFINE list == Selected(Load, among, limit)
<1>2. IsDocument(queue.requests) /\ Load = queue.requests
  BY DocumentParts DEF Load
<1>3. /\ list \in Seq(Repos)
      /\ \A i \in DOMAIN list : HasStatus(queue.requests, list[i], "staged")
      /\ \A i, j \in DOMAIN list : list[i] = list[j] => i = j
  BY <1>2, SelectionIsStaged
<1>4. /\ pc[p] \in {"idle", "autosend"} /\ todo' = [todo EXCEPT ![p] = list]
      /\ op' = [op EXCEPT ![p] = IF list = <<>> THEN "none" ELSE "send"]
      /\ pc' = [pc EXCEPT ![p] = IF list = <<>> THEN "idle" ELSE "resolve"]
  BY DEF SendSelects
<1> HIDE DEF list
<1>5. /\ todo'[p] = list /\ op'[p] = (IF list = <<>> THEN "none" ELSE "send")
      /\ pc'[p] = (IF list = <<>> THEN "idle" ELSE "resolve")
  BY <1>4, ProcTypes
<1>6. ProcTypeOK'
  BY <1>3, <1>4 DEF CInv, QueueTypeOK, ProcTypeOK, SendSelects
<1>7. ~delivered[p]
  BY <1>4, ProcTypes DEF InOrder, Writing
<1>8. InOrder(p)'
  BY <1>5, <1>7 DEF SendSelects, InOrder, Writing
<1>9. \A d \in {queue'.requests, tmp'.requests, doc'[p]} : IsDocument(d) /\ Honest(d)
  BY DocumentParts DEF SendSelects
<1>10. ASSUME ~overlap
       PROVE  OwnsTheFiles(p)' /\ ExtendsTheQueue(p)' /\ TodoIsStaged(p)'
  <2>1. writes'[p] = "none" /\ pc'[p] \notin {"open", "write", "replace"} /\ queue' = queue
    BY <1>4, <1>5, <1>10, ProcTypes DEF OwnsTheFiles, SendSelects
  <2> QED BY <1>3, <1>5, <2>1 DEF OwnsTheFiles, ExtendsTheQueue, TodoIsStaged, IsStaged, Writing
<1> QED BY <1>1, <1>6, <1>7, <1>8, <1>9, <1>10, QuietStep DEF SendSelects

(* A repository has one entry, so one status.                              *)
LEMMA OneStatus ==
  ASSUME NEW d, IsDocument(d), NEW r, NEW s1, NEW s2, HasStatus(d, r, s1), HasStatus(d, r, s2)
  PROVE  s1 = s2
BY DEF IsDocument, HasStatus

(* What a send run is about to handle has no outcome yet.                  *)
LEMMA HeadIsStaged ==
  ASSUME CInv, NEW p \in Procs, ~overlap, op[p] = "send", todo[p] # <<>>
  PROVE  /\ HasStatus(queue.requests, Head(todo[p]), "staged")
         /\ \A st : HasStatus(queue.requests, Head(todo[p]), st) => st = "staged"
         /\ Head(todo[p]) \in QueuedRepos(queue.requests)
         /\ \A i \in DOMAIN Tail(todo[p]) :
              /\ HasStatus(queue.requests, Tail(todo[p])[i], "staged")
              /\ Tail(todo[p])[i] # Head(todo[p])
         /\ \A i, j \in DOMAIN Tail(todo[p]) : Tail(todo[p])[i] = Tail(todo[p])[j] => i = j
<1> DEFINE list == todo[p]
<1>1. list \in Seq(Repos) /\ list # <<>> /\ IsStaged(list)
  BY ProcTypes DEF TodoIsStaged
<1> HIDE DEF list
<1>2. /\ Len(list) \in Nat /\ DOMAIN list = 1 .. Len(list) /\ 1 \in 1 .. Len(list)
      /\ Head(list) = list[1]
  BY <1>1
<1>3. HasStatus(queue.requests, Head(list), "staged")
  BY <1>1, <1>2 DEF IsStaged
<1>4. /\ DOMAIN Tail(list) = 1 .. Len(list) - 1
      /\ \A i \in 1 .. Len(list) - 1 : Tail(list)[i] = list[i + 1]
  BY <1>1, <1>2
<1>5. \A i \in 1 .. Len(list) - 1 : i + 1 \in 1 .. Len(list) /\ i + 1 # 1
  BY <1>2
<1>6. \A i \in DOMAIN Tail(list) : /\ HasStatus(queue.requests, Tail(list)[i], "staged")
                                   /\ Tail(list)[i] # Head(list)
  BY <1>1, <1>2, <1>4, <1>5 DEF IsStaged
<1>7. \A i, j \in DOMAIN Tail(list) : Tail(list)[i] = Tail(list)[j] => i = j
  <2> SUFFICES ASSUME NEW i \in 1 .. Len(list) - 1, NEW j \in 1 .. Len(list) - 1,
                      list[i + 1] = list[j + 1]
               PROVE  i = j
    BY <1>4
  <2>1. i + 1 = j + 1
    BY <1>1, <1>2, <1>5 DEF IsStaged
  <2> QED BY <1>2, <2>1
<1>8. Head(list) \in QueuedRepos(queue.requests)
  BY <1>3 DEF HasStatus, QueuedRepos
<1>9. \A st : HasStatus(queue.requests, Head(list), st) => st = "staged"
  BY <1>3, DocumentParts, OneStatus
<1> QED BY <1>3, <1>6, <1>7, <1>8, <1>9 DEF list

(* Where a command is after it is done with a repository.                  *)
LEMMA AfterGoingOn ==
  ASSUME CInv, NEW p \in Procs, pc[p] \in {"record", "replace"}, GoesOn(p)
  PROVE  /\ \A q \in Procs \ {p} : Same(q)
         /\ doc'[p] = <<>> /\ todo'[p] = Tail(todo[p]) /\ ~delivered'[p]
         /\ pc'[p] \in {"idle", "resolve", "autosend"}
         /\ pc'[p] = "resolve" => op'[p] = "send" /\ todo'[p] # <<>>
         /\ pc'[p] # "resolve" => op'[p] # "send"
         /\ op'[p] = "send" => op[p] = "send"
         /\ op'[p] # "stage"
         /\ doc' \in [Procs -> Seq(Entry)] /\ todo' \in [Procs -> Seq(Repos)]
         /\ op' \in [Procs -> {"none", "stage", "autostage", "send"}]
         /\ pc' \in [Procs -> {"idle", "open", "write", "replace", "resolve", "record", "autosend"}]
         /\ verdict' \in [Procs -> Statuses] /\ delivered' \in [Procs -> BOOLEAN]
         /\ \A q \in Procs : pc'[q] \in {"resolve", "record", "open", "write", "replace"}
                               => todo'[q] # <<>>
<1>1. \A q \in Procs \ {p} : Same(q)
  BY ProcTypes DEF GoesOn, Forgets, Same
<1>2. /\ doc'[p] = <<>> /\ todo'[p] = Tail(todo[p]) /\ ~delivered'[p]
      /\ pc'[p] = (IF op[p] = "autostage" THEN "autosend"
                   ELSE IF Len(todo[p]) = 1 THEN "idle" ELSE "resolve")
      /\ op'[p] = (IF op[p] # "autostage" /\ Len(todo[p]) = 1 THEN "none" ELSE op[p])
  BY ProcTypes DEF GoesOn, Forgets
<1>3. Len(todo[p]) # 1 => Tail(todo[p]) # <<>>
  <2>1. todo[p] \in Seq(Repos) /\ todo[p] # <<>>
    BY ProcTypes
  <2>2. Len(todo[p]) \in Nat /\ Len(todo[p]) # 0 /\ Len(Tail(todo[p])) = Len(todo[p]) - 1
    BY <2>1
  <2>3. Len(todo[p]) # 1 => Len(Tail(todo[p])) # 0
    BY <2>2
  <2>4. Len(<<>>) = 0
    OBVIOUS
  <2> QED BY <2>3, <2>4
<1>4. op[p] \in {"stage", "autostage", "send"} /\ (op[p] = "stage" => Len(todo[p]) = 1)
  BY ProcTypes DEF InOrder, Writing
<1>5. /\ pc'[p] \in {"idle", "resolve", "autosend"}
      /\ pc'[p] = "resolve" => op'[p] = "send" /\ todo'[p] # <<>>
      /\ pc'[p] # "resolve" => op'[p] # "send"
      /\ op'[p] = "send" => op[p] = "send"
      /\ op'[p] # "stage"
  BY <1>2, <1>3, <1>4
<1>6. /\ doc' \in [Procs -> Seq(Entry)] /\ todo' \in [Procs -> Seq(Repos)]
      /\ op' \in [Procs -> {"none", "stage", "autostage", "send"}]
      /\ pc' \in [Procs -> {"idle", "open", "write", "replace", "resolve", "record", "autosend"}]
      /\ verdict' \in [Procs -> Statuses] /\ delivered' \in [Procs -> BOOLEAN]
  BY ProcTypes DEF GoesOn, Forgets, Statuses
<1>7. \A q \in Procs : pc'[q] \in {"resolve", "record", "open", "write", "replace"}
                         => todo'[q] # <<>>
  BY <1>1, <1>5, ProcTypes DEF Same
<1> QED BY <1>1, <1>2, <1>5, <1>6, <1>7

(* The outcome is put in a document that was read again.                   *)
LEMMA RecordLoadsSteps ==
  ASSUME CInv, NEW p \in Procs, MayStep(p), UNCHANGED overlap, RecordLoads(p)
  PROVE  CInv' /\ RequestedStay
<1> DEFINE r == Head(todo[p])
           w == WithStatus(Load, r, verdict[p])
<1>1. /\ pc[p] = "record" /\ op[p] = "send" /\ todo[p] # <<>> /\ r \in Repos
      /\ verdict[p] \in Statuses /\ verdict[p] \in Outcomes
      /\ verdict[p] = "requested" => mails[r] > 0
      /\ UNCHANGED <<overlap, queue, tmp, writes, stops, history>>
  BY ProcTypes DEF RecordLoads, InOrder
<1>2. IsDocument(queue.requests) /\ Load = queue.requests
  BY DocumentParts DEF Load
<1>3. CASE r \in QueuedRepos(Load)
  <2>1. /\ IsDocument(w) /\ HasStatus(w, r, verdict[p])
        /\ \A x, s : HasStatus(queue.requests, x, s) /\ x # r => HasStatus(w, x, s)
        /\ \A x, s : HasStatus(w, x, s) => HasStatus(queue.requests, x, s) \/ (x = r /\ s = verdict[p])
    BY <1>1, <1>2, <1>3, RecordingKeepsOthers
  <2>2. Honest(w)
    BY <1>1, <2>1, DocumentParts DEF Honest
  <2>3. doc' = [doc EXCEPT ![p] = w] /\ pc' = [pc EXCEPT ![p] = "open"]
        /\ UNCHANGED <<op, todo, delivered, verdict>>
    BY <1>3 DEF RecordLoads
  <2> HIDE DEF w, r
  <2>4. w \in Seq(Entry) /\ doc'[p] = w /\ pc'[p] = "open"
    BY <2>1, <2>3, ProcTypes DEF IsDocument
  <2>5. \A q \in Procs \ {p} : Same(q) /\ writes'[q] = writes[q]
    BY <1>1, <2>3, ProcTypes DEF Same
  <2>6. ProcTypeOK'
    BY <1>1, <2>3, <2>4 DEF CInv, QueueTypeOK, ProcTypeOK
  <2>7. InOrder(p)'
    BY <1>1, <2>3, <2>4, ProcTypes DEF InOrder, Writing
  <2>8. \A d \in {queue'.requests, tmp'.requests, doc'[p]} : IsDocument(d) /\ Honest(d)
    BY <1>1, <2>1, <2>2, <2>4, DocumentParts
  <2>9. ASSUME ~overlap
        PROVE  OwnsTheFiles(p)' /\ ExtendsTheQueue(p)' /\ TodoIsStaged(p)'
    <3>1. OwnsTheFiles(p)'
      BY <1>1, <2>4, <2>9, ProcTypes DEF OwnsTheFiles
    <3>2. ExtendsTheQueue(p)'
      BY <1>1, <2>1, <2>3, <2>4 DEF ExtendsTheQueue, r
    <3>3. TodoIsStaged(p)'
      BY <1>1, <2>3, <2>9, ProcTypes DEF TodoIsStaged, IsStaged
    <3> QED BY <3>1, <3>2, <3>3
  <2> QED BY <1>1, <2>3, <2>5, <2>6, <2>7, <2>8, <2>9, QuietStep
<1>4. CASE r \notin QueuedRepos(Load)
  <2>1. GoesOn(p)
    BY <1>4 DEF RecordLoads
  <2>2. overlap
    BY <1>1, <1>2, <1>4, HeadIsStaged
  <2>3. \A q \in Procs \ {p} : Same(q) /\ writes'[q] = writes[q]
    BY <1>1, <2>1, AfterGoingOn
  <2>4. ProcTypeOK'
    <3>1. writes' \in [Procs -> {"none", "tmp", "queue", "orphan"}]
      BY <1>1, ProcTypes
    <3> QED BY <1>1, <2>1, <3>1, AfterGoingOn DEF ProcTypeOK
  <2>5. InOrder(p)'
    BY <1>1, <2>1, AfterGoingOn DEF InOrder, Writing
  <2>6. IsDocument(<<>>) /\ Honest(<<>>)
    BY DEF IsDocument, Honest, HasStatus
  <2>7. \A d \in {queue'.requests, tmp'.requests, doc'[p]} : IsDocument(d) /\ Honest(d)
    BY <1>1, <2>1, <2>6, AfterGoingOn, DocumentParts
  <2> QED BY <1>1, <2>2, <2>3, <2>4, <2>5, <2>7, QuietStep
<1> QED BY <1>3, <1>4

(* No mail is in flight but that of the command that runs alone.           *)
LEMMA OnlyItsMail ==
  ASSUME CInv, NEW p \in Procs, ~overlap, MayStep(p), NEW r, InFlight(r)
  PROVE  delivered[p] /\ Head(todo[p]) = r
<1>1. PICK q \in Procs : delivered[q] /\ Head(todo[q]) = r
  BY DEF InFlight
<1>2. InOrder(q)
  BY DEF CInv
<1>3. q = p
  BY <1>1, <1>2 DEF MayStep, InOrder, Writing
<1> QED BY <1>1, <1>3

(* A mail goes out for a repository that has no outcome yet.               *)
LEMMA MailSteps ==
  ASSUME CInv, NEW p \in Procs, MayStep(p), UNCHANGED overlap,
         NEW accepted \in BOOLEAN, NEW outcome \in {"requested", "error"},
         Mail(p, accepted, outcome)
  PROVE  CInv' /\ RequestedStay
<1> DEFINE r == Head(todo[p])
<1>1. /\ pc[p] = "resolve" /\ op[p] = "send" /\ ~delivered[p] /\ todo[p] # <<>> /\ r \in Repos
      /\ outcome = "requested" => accepted
      /\ UNCHANGED <<overlap, queue, tmp, writes, op, doc, todo, stops, returned, unrecorded>>
  BY ProcTypes DEF Mail, InOrder, Writing
<1>2. /\ verdict' = [verdict EXCEPT ![p] = outcome] /\ delivered' = [delivered EXCEPT ![p] = accepted]
      /\ pc' = [pc EXCEPT ![p] = "record"]
      /\ verdict'[p] = outcome /\ delivered'[p] = accepted /\ pc'[p] = "record"
  BY ProcTypes DEF Mail
<1>3. /\ mails \in [Repos -> 0 .. MaxMails] /\ unrecorded \in [Repos -> Nat]
      /\ \A x \in Repos : mails[x] \in Nat /\ unrecorded[x] \in Nat
  BY DEF CInv, QueueTypeOK
<1>4. /\ mails' \in [Repos -> 0 .. MaxMails]
      /\ \A x \in Repos : mails'[x] = IF accepted /\ x = r THEN mails[x] + 1 ELSE mails[x]
  <2>1. CASE accepted
    <3>1. mails[r] < MaxMails /\ mails' = [mails EXCEPT ![r] = mails[r] + 1]
      BY <2>1 DEF Mail
    <3>2. mails[r] + 1 \in 0 .. MaxMails
      BY <1>1, <1>3, <3>1, ConsentAssumption
    <3> QED BY <1>1, <1>3, <2>1, <3>1, <3>2
  <2>2. CASE ~accepted
    BY <1>3, <2>2 DEF Mail
  <2> QED BY <2>1, <2>2
<1> HIDE DEF r
<1>5. \A x \in Repos : mails'[x] >= mails[x] /\ mails'[x] \in Nat
  BY <1>3, <1>4
<1>6. OthersAreSame(p) /\ HistoryOK'
  <2>1. \A q \in Procs \ {p} : Same(q) /\ writes'[q] = writes[q]
    BY <1>1, <1>2, ProcTypes DEF Same
  <2>2. stops \in 0 .. MaxStops /\ returned \subseteq Repos
    BY DEF CInv, QueueTypeOK
  <2> QED BY <1>1, <1>3, <1>4, <1>5, <2>1, <2>2 DEF OthersAreSame, HistoryOK
<1>7. ProcTypeOK'
  BY <1>1, <1>2 DEF CInv, QueueTypeOK, ProcTypeOK, Statuses
<1>8. InOrder(p)'
  <2>1. outcome = "requested" => mails'[r] > 0
    BY <1>1, <1>3, <1>4
  <2>2. outcome \in Outcomes
    BY DEF Outcomes
  <2> QED BY <1>1, <1>2, <2>1, <2>2 DEF InOrder, Writing, r
<1>9. \A d \in Documents' : IsDocument(d) /\ Honest(d)'
  <2> SUFFICES ASSUME NEW d \in Documents' PROVE IsDocument(d) /\ Honest(d)'
    OBVIOUS
  <2>1. Documents' = Documents
    BY <1>1 DEF Documents
  <2>2. IsDocument(d) /\ Honest(d)
    BY <2>1 DEF CInv, QueueTypeOK
  <2> QED BY <1>3, <1>4, <1>5, <2>2, HonestyLasts
<1>10. ASSUME ~overlap
       PROVE  /\ OwnsTheFiles(p)' /\ ExtendsTheQueue(p)' /\ TodoIsStaged(p)'
              /\ MailsAreCounted' /\ StagedIsListed'
  <2>1. OwnsTheFiles(p)'
    BY <1>1, <1>2, <1>10, ProcTypes DEF OwnsTheFiles
  <2>2. ExtendsTheQueue(p)'
    BY <1>2 DEF ExtendsTheQueue, Writing
  <2>3. TodoIsStaged(p)'
    BY <1>1, <1>10, ProcTypes DEF TodoIsStaged, IsStaged
  <2>4. StagedIsListed'
    BY <1>1, <1>10 DEF CInv, StagedIsListed
  <2>5. MailsAreCounted /\ (\A x \in Repos : ~ InFlight(x)) /\ ~ Recorded(r)
    <3>1. \A x : ~ InFlight(x)
      BY <1>1, <1>10, OnlyItsMail
    <3>2. ~ Recorded(r)
      BY <1>1, <1>10, HeadIsStaged DEF Recorded, Outcomes, r
    <3> QED BY <1>10, <3>1, <3>2 DEF CInv
  <2>6. ASSUME NEW x \in Repos
        PROVE  mails'[x] <= IF Recorded(x)' \/ InFlight(x)' THEN unrecorded'[x] + 1 ELSE unrecorded'[x]
    <3>1. mails[x] <= IF Recorded(x) THEN unrecorded[x] + 1 ELSE unrecorded[x]
      BY <2>5 DEF MailsAreCounted
    <3>2. (Recorded(x)' <=> Recorded(x)) /\ unrecorded'[x] = unrecorded[x]
      BY <1>1 DEF Recorded
    <3>3. accepted /\ x = r => InFlight(x)' /\ ~ Recorded(x)
      BY <1>1, <1>2, <2>5 DEF InFlight, r
    <3> QED BY <1>3, <1>4, <3>1, <3>2, <3>3
  <2>7. MailsAreCounted'
    BY <2>6 DEF MailsAreCounted
  <2> QED BY <2>1, <2>2, <2>3, <2>4, <2>7
<1>11. CInv'
  BY <1>6, <1>7, <1>8, <1>9, <1>10, StepOfOne
<1> QED BY <1>1, <1>11 DEF RequestedStay

(* The new document becomes the queue.                                     *)
LEMMA MoveOverSteps ==
  ASSUME CInv, NEW p \in Procs, MayStep(p), UNCHANGED overlap, MoveOver(p)
  PROVE  CInv' /\ RequestedStay
<1> DEFINE r == Head(todo[p])
<1>1. /\ pc[p] = "replace" /\ todo[p] # <<>> /\ r \in Repos /\ op[p] # "none"
      /\ GoesOn(p) /\ queue' = tmp /\ tmp' = Absent
      /\ UNCHANGED <<overlap, stops, mails, unrecorded>>
      /\ returned' = IF op[p] = "send" THEN returned ELSE returned \cup {r}
  BY ProcTypes DEF MoveOver, InOrder, Writing
<1>2. /\ mails \in [Repos -> 0 .. MaxMails] /\ unrecorded \in [Repos -> Nat]
      /\ stops \in 0 .. MaxStops /\ returned \subseteq Repos
      /\ \A x \in Repos : mails[x] \in Nat /\ unrecorded[x] \in Nat
  BY DEF CInv, QueueTypeOK
<1> HIDE DEF r
<1>3. ASSUME ~overlap
      PROVE  /\ \A q \in Procs : writes'[q] = "none" /\ writes[q] = "none"
             /\ queue'.requests = doc[p] /\ ExtendsTheQueue(p)
             /\ op[p] = "send" =>
                  \A st : HasStatus(queue.requests, r, st) => st = "staged"
             /\ MailsAreCounted /\ StagedIsListed
  <2>1. OwnsTheFiles(p) /\ ExtendsTheQueue(p) /\ MailsAreCounted /\ StagedIsListed
    BY <1>3, ProcTypes DEF CInv
  <2>2. \A q \in Procs : writes[q] = "none"
    <3> SUFFICES ASSUME NEW q \in Procs PROVE writes[q] = "none"
      OBVIOUS
    <3>1. q = p \/ pc[q] = "idle"
      BY <1>3 DEF MayStep
    <3>2. OwnsTheFiles(q)
      BY <1>3 DEF CInv, Alone
    <3> QED BY <1>1, <3>1, <3>2 DEF OwnsTheFiles
  <2>3. \A q \in Procs : writes'[q] = "none"
    BY <2>2 DEF MoveOver
  <2>4. queue'.requests = doc[p]
    BY <1>1, <2>1 DEF OwnsTheFiles, Whole
  <2> QED BY <1>1, <1>3, <2>1, <2>2, <2>3, <2>4, HeadIsStaged DEF r
<1>4. OthersAreSame(p) /\ HistoryOK'
  <2>1. \A q \in Procs \ {p} : Same(q)
    BY <1>1, AfterGoingOn
  <2>2. \A x \in Repos : mails'[x] >= mails[x]
    BY <1>1, <1>2
  <2> QED BY <1>1, <1>2, <1>3, <2>1, <2>2 DEF OthersAreSame, HistoryOK
<1>5. ProcTypeOK'
  <2>1. writes' \in [Procs -> {"none", "tmp", "queue", "orphan"}]
    BY ProcTypes DEF MoveOver
  <2> QED BY <1>1, <2>1, AfterGoingOn DEF ProcTypeOK
<1>6. InOrder(p)'
  BY <1>1, AfterGoingOn DEF InOrder, Writing
<1>7. \A d \in Documents' : IsDocument(d) /\ Honest(d)'
  <2> SUFFICES ASSUME NEW d \in Documents' PROVE IsDocument(d) /\ Honest(d)
    BY <1>1 DEF Honest
  <2>1. IsDocument(<<>>) /\ Honest(<<>>)
    BY DEF IsDocument, Honest, HasStatus
  <2>2. d \in {tmp.requests, <<>>} \/ \E q \in Procs : d = doc'[q]
    BY <1>1 DEF Documents, Absent
  <2>3. CASE d \in {tmp.requests, <<>>}
    BY <2>1, <2>3, DocumentParts
  <2>4. ASSUME NEW q \in Procs, d = doc'[q] PROVE IsDocument(d) /\ Honest(d)
    <3>1. d = doc[q] \/ d = <<>>
      BY <1>1, <2>4, AfterGoingOn DEF Same
    <3> QED BY <2>1, <3>1, DocumentParts
  <2> QED BY <2>2, <2>3, <2>4
<1>8. ASSUME ~overlap
      PROVE  \A x \in Repos, st \in Statuses :
               HasStatus(queue.requests, x, st) /\ (op[p] = "send" => x # r)
                 => HasStatus(queue'.requests, x, st)
  BY <1>1, <1>3, <1>8 DEF ExtendsTheQueue, Writing, r
<1>9. ASSUME ~overlap, op[p] = "send"
      PROVE  \E st \in Outcomes : HasStatus(queue'.requests, r, st)
  <2>1. verdict[p] \in Outcomes /\ HasStatus(doc[p], r, verdict[p])
    BY <1>1, <1>3, <1>9, ProcTypes DEF ExtendsTheQueue, InOrder, Writing, r
  <2> QED BY <1>3, <1>9, <2>1
<1>10. ASSUME ~overlap
       PROVE  /\ OwnsTheFiles(p)' /\ ExtendsTheQueue(p)' /\ TodoIsStaged(p)'
              /\ MailsAreCounted' /\ StagedIsListed'
  <2>1. OwnsTheFiles(p)' /\ ExtendsTheQueue(p)'
    BY <1>1, <1>3, <1>10, AfterGoingOn DEF OwnsTheFiles, ExtendsTheQueue, Writing
  <2>2. TodoIsStaged(p)'
    <3> SUFFICES ASSUME op'[p] = "send" PROVE IsStaged(todo[p])'
      BY DEF TodoIsStaged
    <3>1. op[p] = "send" /\ todo'[p] = Tail(todo[p])
      BY <1>1, AfterGoingOn
    <3>2. /\ \A i \in DOMAIN Tail(todo[p]) : HasStatus(queue.requests, Tail(todo[p])[i], "staged")
                                              /\ Tail(todo[p])[i] # r
          /\ \A i, j \in DOMAIN Tail(todo[p]) : Tail(todo[p])[i] = Tail(todo[p])[j] => i = j
      BY <1>1, <1>10, <3>1, HeadIsStaged DEF r
    <3>3. Tail(todo[p]) \in Seq(Repos) /\ "staged" \in Statuses
      BY <1>1, ProcTypes DEF Statuses
    <3>4. \A i \in DOMAIN Tail(todo[p]) : Tail(todo[p])[i] \in Repos
      BY <3>3
    <3>5. \A i \in DOMAIN Tail(todo[p]) : HasStatus(queue'.requests, Tail(todo[p])[i], "staged")
      BY <1>8, <1>10, <3>2, <3>3, <3>4
    <3> QED BY <3>1, <3>2, <3>5 DEF IsStaged
  <2>3. ASSUME NEW x \in Repos
        PROVE  mails'[x] <= IF Recorded(x)' \/ InFlight(x)' THEN unrecorded'[x] + 1 ELSE unrecorded'[x]
    <3>1. mails[x] <= IF Recorded(x) \/ InFlight(x) THEN unrecorded[x] + 1 ELSE unrecorded[x]
      BY <1>3, <1>10 DEF MailsAreCounted
    <3>2. CASE op[p] = "send" /\ x = r
      <4>1. Recorded(x)'
        BY <1>9, <1>10, <3>2 DEF Recorded
      <4> QED BY <1>1, <1>2, <3>1, <4>1
    <3>3. CASE ~ (op[p] = "send" /\ x = r)
      <4>1. Recorded(x) => Recorded(x)'
        BY <1>8, <1>10, <3>3 DEF Recorded, Outcomes, Statuses
      <4>2. ~ InFlight(x)
        BY <1>10, <3>3, OnlyItsMail, ProcTypes DEF InOrder, r
      <4> QED BY <1>1, <1>2, <3>1, <4>1, <4>2
    <3> QED BY <3>2, <3>3
  <2>4. MailsAreCounted'
    BY <2>3 DEF MailsAreCounted
  <2>5. StagedIsListed'
    <3> SUFFICES ASSUME NEW x \in returned' PROVE x \in QueuedRepos(queue'.requests)
      BY DEF StagedIsListed
    <3>1. CASE op[p] = "send" /\ x = r
      <4>1. \E st \in Outcomes : HasStatus(queue'.requests, r, st)
        BY <1>9, <1>10, <3>1
      <4> QED BY <3>1, <4>1 DEF HasStatus, QueuedRepos
    <3>2. CASE op[p] # "send" /\ x = r
      BY <1>1, <1>3, <1>10, <3>2 DEF ExtendsTheQueue, Writing, r
    <3>3. CASE x # r
      <4>1. x \in QueuedRepos(queue.requests) /\ x \in Repos
        BY <1>1, <1>2, <1>3, <1>10, <3>3 DEF StagedIsListed
      <4>2. PICK i \in DOMAIN queue.requests : queue.requests[i].repository = x
        BY <4>1 DEF QueuedRepos
      <4>3. queue.requests[i] \in Entry
        BY DocumentParts DEF IsDocument
      <4>4. HasStatus(queue.requests, x, queue.requests[i].status) /\ queue.requests[i].status \in Statuses
        BY <4>2, <4>3, EntryFields DEF HasStatus
      <4>5. HasStatus(queue'.requests, x, queue.requests[i].status)
        BY <1>8, <1>10, <3>3, <4>1, <4>4
      <4> QED BY <4>5 DEF HasStatus, QueuedRepos
    <3> QED BY <3>1, <3>2, <3>3
  <2> QED BY <2>1, <2>2, <2>4, <2>5
<1>11. CInv'
  BY <1>4, <1>5, <1>6, <1>7, <1>10, StepOfOne
<1>12. RequestedStay
  <2> SUFFICES ASSUME ~overlap, NEW x \in Repos, HasStatus(queue.requests, x, "requested")
               PROVE  HasStatus(queue'.requests, x, "requested")
    BY DEF RequestedStay
  <2>1. op[p] = "send" => x # r
    BY <1>3
  <2> QED BY <1>8, <2>1 DEF Statuses
<1> QED BY <1>11, <1>12

(* A command that ends early leaves the queue as it was.                   *)
LEMMA DiesSteps ==
  ASSUME CInv, NEW p \in Procs, MayStep(p), UNCHANGED overlap, Dies(p), stops' \in 0 .. MaxStops
  PROVE  CInv' /\ RequestedStay
<1> DEFINE r == Head(todo[p])
<1>1. /\ UNCHANGED <<overlap, queue, tmp, returned, mails>>
      /\ doc' = [doc EXCEPT ![p] = <<>>] /\ verdict' = [verdict EXCEPT ![p] = "staged"]
      /\ writes' = [writes EXCEPT ![p] = "none"] /\ op' = [op EXCEPT ![p] = "none"]
      /\ pc' = [pc EXCEPT ![p] = "idle"] /\ todo' = [todo EXCEPT ![p] = <<>>]
      /\ delivered' = [delivered EXCEPT ![p] = FALSE]
      /\ unrecorded' = IF delivered[p] THEN [unrecorded EXCEPT ![r] = unrecorded[r] + 1] ELSE unrecorded
  BY DEF Dies, Forgets
<1>2. /\ mails \in [Repos -> 0 .. MaxMails] /\ unrecorded \in [Repos -> Nat]
      /\ returned \subseteq Repos
      /\ \A x \in Repos : mails[x] \in Nat /\ unrecorded[x] \in Nat
  BY DEF CInv, QueueTypeOK
<1>3. delivered[p] => r \in Repos
  BY ProcTypes DEF InOrder, Writing
<1> HIDE DEF r
<1>4. /\ unrecorded' \in [Repos -> Nat]
      /\ \A x \in Repos : unrecorded'[x] = IF delivered[p] /\ x = r THEN unrecorded[x] + 1 ELSE unrecorded[x]
  BY <1>1, <1>2, <1>3
<1>5. /\ pc'[p] = "idle" /\ op'[p] = "none" /\ writes'[p] = "none" /\ delivered'[p] = FALSE
      /\ doc'[p] = <<>> /\ \A q \in Procs \ {p} : Same(q) /\ writes'[q] = writes[q]
  BY <1>1, ProcTypes DEF Same
<1>6. OthersAreSame(p) /\ HistoryOK'
  <2>1. \A x \in Repos : mails'[x] >= mails[x]
    BY <1>1, <1>2
  <2> QED BY <1>1, <1>2, <1>4, <1>5, <2>1 DEF OthersAreSame, HistoryOK
<1>7. ProcTypeOK'
  BY <1>1 DEF CInv, QueueTypeOK, ProcTypeOK, Statuses
<1>8. InOrder(p)'
  BY <1>5 DEF InOrder, Writing
<1>9. \A d \in Documents' : IsDocument(d) /\ Honest(d)'
  <2> SUFFICES ASSUME NEW d \in Documents' PROVE IsDocument(d) /\ Honest(d)
    BY <1>1 DEF Honest
  <2>1. IsDocument(<<>>) /\ Honest(<<>>)
    BY DEF IsDocument, Honest, HasStatus
  <2>2. d \in {queue.requests, tmp.requests} \/ \E q \in Procs : d = doc'[q]
    BY <1>1 DEF Documents
  <2>3. CASE d \in {queue.requests, tmp.requests}
    BY <2>3, DocumentParts
  <2>4. ASSUME NEW q \in Procs, d = doc'[q] PROVE IsDocument(d) /\ Honest(d)
    <3>1. d = doc[q] \/ d = <<>>
      BY <1>5, <2>4 DEF Same
    <3> QED BY <2>1, <3>1, DocumentParts
  <2> QED BY <2>2, <2>3, <2>4
<1>10. ASSUME ~overlap
       PROVE  /\ OwnsTheFiles(p)' /\ ExtendsTheQueue(p)' /\ TodoIsStaged(p)'
              /\ MailsAreCounted' /\ StagedIsListed'
  <2>1. OwnsTheFiles(p)' /\ ExtendsTheQueue(p)' /\ TodoIsStaged(p)'
    BY <1>5 DEF OwnsTheFiles, ExtendsTheQueue, TodoIsStaged, Writing
  <2>2. MailsAreCounted /\ StagedIsListed
    BY <1>10 DEF CInv
  <2>3. ASSUME NEW x \in Repos
        PROVE  mails'[x] <= IF Recorded(x)' \/ InFlight(x)' THEN unrecorded'[x] + 1 ELSE unrecorded'[x]
    <3>1. mails[x] <= IF Recorded(x) \/ InFlight(x) THEN unrecorded[x] + 1 ELSE unrecorded[x]
      BY <2>2 DEF MailsAreCounted
    <3>2. Recorded(x)' <=> Recorded(x)
      BY <1>1 DEF Recorded
    <3>3. InFlight(x) => delivered[p] /\ x = r
      BY <1>10, OnlyItsMail DEF r
    <3> QED BY <1>1, <1>2, <1>4, <3>1, <3>2, <3>3
  <2>4. MailsAreCounted'
    BY <2>3 DEF MailsAreCounted
  <2>5. StagedIsListed'
    BY <1>1, <2>2 DEF StagedIsListed
  <2> QED BY <2>1, <2>4, <2>5
<1>11. CInv'
  BY <1>6, <1>7, <1>8, <1>9, <1>10, StepOfOne
<1> QED BY <1>1, <1>11 DEF RequestedStay

-----------------------------------------------------------------------------
(* Every step of every command, one action at a time.                      *)
LEMMA EveryStepKeepsTheQueue ==
  ASSUME CInv, [QueueNext]_queueVars
  PROVE  CInv' /\ RequestedStay
<1>1. CASE UNCHANGED queueVars
  <2>1. /\ UNCHANGED <<overlap, queue, tmp, writes, op, pc, doc, todo, verdict, delivered>>
        /\ UNCHANGED <<stops, returned, mails, unrecorded>>
    BY <1>1 DEF queueVars, procVars, history
  <2>2. QueueTypeOK'
    BY <2>1 DEF CInv, QueueTypeOK, ProcTypeOK, Documents
  <2>3. \A p \in Procs : InOrder(p)'
    BY <2>1 DEF CInv, InOrder, Writing
  <2>4. \A d \in Documents' : Honest(d)'
    BY <2>1 DEF CInv, Documents, Honest
  <2>5. ~overlap' => Alone' /\ MailsAreCounted' /\ StagedIsListed'
    <3>1. Alone' <=> Alone
      BY <2>1 DEF Alone, OwnsTheFiles, ExtendsTheQueue, TodoIsStaged, IsStaged, Writing
    <3>2. (MailsAreCounted' <=> MailsAreCounted) /\ (StagedIsListed' <=> StagedIsListed)
      BY <2>1 DEF MailsAreCounted, StagedIsListed, Recorded, InFlight
    <3> QED BY <2>1, <3>1, <3>2 DEF CInv
  <2> QED BY <2>1, <2>2, <2>3, <2>4, <2>5 DEF CInv, RequestedStay
<1>2. ASSUME NEW p \in Procs, Steps(p), MayStep(p), UNCHANGED overlap
      PROVE  CInv' /\ RequestedStay
  <2>1. ASSUME NEW s \in Stages, NEW kind \in {"stage", "autostage"},
               StageLoads(p, s[1], {s[2]}, kind)
        PROVE  CInv' /\ RequestedStay
    <3>1. s[1] \in Repos /\ {s[2]} \in SUBSET Trajectories
      BY ConsentAssumption DEF Stages
    <3> QED BY <1>2, <2>1, <3>1, StageLoadsSteps
  <2>2. ASSUME NEW among, NEW limit, SendSelects(p, among, limit)
        PROVE  CInv' /\ RequestedStay
    BY <1>2, <2>2, SendSelectsSteps
  <2>3. CASE ContactIsMissing(p)
    BY <1>2, <2>3, ContactIsMissingSteps
  <2>4. ASSUME NEW accepted \in BOOLEAN, NEW outcome \in {"requested", "error"},
               Mail(p, accepted, outcome)
        PROVE  CInv' /\ RequestedStay
    BY <1>2, <2>4, MailSteps
  <2>5. CASE RecordLoads(p)
    BY <1>2, <2>5, RecordLoadsSteps
  <2>6. CASE Open(p)
    BY <1>2, <2>6, OpenSteps
  <2>7. CASE Write(p)
    BY <1>2, <2>7, WriteSteps
  <2>8. CASE MoveOver(p)
    BY <1>2, <2>8, MoveOverSteps
  <2>9. CASE MoveFails(p)
    <3>1. stops' \in 0 .. MaxStops
      BY <2>9 DEF MoveFails, CInv, QueueTypeOK
    <3> QED BY <1>2, <2>9, <3>1, DiesSteps DEF MoveFails
  <2>10. CASE Stop(p)
    <3>1. stops' = stops + 1 /\ stops < MaxStops /\ stops \in 0 .. MaxStops /\ MaxStops \in Nat
      BY <2>10, ConsentAssumption DEF Stop, CInv, QueueTypeOK
    <3>2. stops' \in 0 .. MaxStops
      BY <3>1
    <3> QED BY <1>2, <2>10, <3>2, DiesSteps DEF Stop
  <2> QED BY <1>2, <2>1, <2>2, <2>3, <2>4, <2>5, <2>6, <2>7, <2>8, <2>9, <2>10 DEF Steps
<1> QED BY <1>1, <1>2 DEF QueueNext

(* Before the first command there is no queue.                             *)
LEMMA QueueStartsSound == QueueInit => CInv
<1> SUFFICES ASSUME QueueInit PROVE CInv
  OBVIOUS
<1>1. IsDocument(<<>>) /\ Honest(<<>>)
  BY DEF IsDocument, Honest, HasStatus
<1>2. \A d \in Documents : d = <<>>
  BY DEF QueueInit, Documents, Absent
<1>3. ProcTypeOK
  BY DEF QueueInit, ProcTypeOK, Statuses
<1>4. /\ stops \in 0 .. MaxStops /\ returned \subseteq Repos
      /\ mails \in [Repos -> 0 .. MaxMails] /\ unrecorded \in [Repos -> Nat]
  BY ConsentAssumption DEF QueueInit
<1>5. QueueTypeOK
  BY <1>1, <1>2, <1>3, <1>4 DEF QueueTypeOK
<1>6. \A p \in Procs : InOrder(p)
  BY DEF QueueInit, InOrder, Writing
<1>7. Alone
  BY DEF QueueInit, Alone, OwnsTheFiles, ExtendsTheQueue, TodoIsStaged, Writing
<1>8. MailsAreCounted /\ StagedIsListed
  BY DEF QueueInit, MailsAreCounted, StagedIsListed
<1> QED BY <1>1, <1>2, <1>5, <1>6, <1>7, <1>8 DEF CInv

(* CInv is an invariant of the consent queue.                              *)
LEMMA QueueInvariant == QueueSpec => []CInv
<1>1. QueueInit => CInv
  BY QueueStartsSound
<1>2. CInv /\ [QueueNext]_queueVars => CInv'
  BY EveryStepKeepsTheQueue
<1> QED BY <1>1, <1>2, PTL DEF QueueSpec

(* The queue keeps what was staged in it, and nobody is mailed twice but   *)
(* after a death between the mail and its record, for any commands,        *)
(* repositories and limits, wherever they are killed; and it claims no     *)
(* mail that was not sent, however the commands overlap.                   *)
THEOREM QueueIsAlwaysSound == QueueSpec => []QueueIsSound
<1>1. ASSUME CInv PROVE QueueIsSound
  <2>1. QueueTypeOK /\ StagedIsKept
    BY <1>1 DEF CInv, StagedIsKept
  <2>2. DuplicatesNeedADeath
    <3> SUFFICES ASSUME ~overlap, NEW r \in Repos PROVE mails[r] <= 1 + unrecorded[r]
      BY DEF DuplicatesNeedADeath
    <3>1. mails[r] <= IF Recorded(r) \/ InFlight(r) THEN unrecorded[r] + 1 ELSE unrecorded[r]
      BY <1>1 DEF CInv, MailsAreCounted
    <3>2. mails[r] \in Nat /\ unrecorded[r] \in Nat
      BY <1>1 DEF CInv, QueueTypeOK
    <3> QED BY <3>1, <3>2
  <2>3. RecordedWasSent
    <3> SUFFICES ASSUME NEW i \in DOMAIN queue.requests, queue.requests[i].status = "requested"
                 PROVE  mails[queue.requests[i].repository] > 0
      BY DEF RecordedWasSent
    <3>1. IsDocument(queue.requests) /\ Honest(queue.requests)
      BY <1>1, DocumentParts
    <3>2. queue.requests[i] \in Entry
      BY <3>1 DEF IsDocument
    <3>3. queue.requests[i].repository \in Repos
      BY <3>2, EntryFields
    <3>4. HasStatus(queue.requests, queue.requests[i].repository, "requested")
      BY DEF HasStatus
    <3> QED BY <3>1, <3>3, <3>4 DEF Honest
  <2> QED BY <2>1, <2>2, <2>3 DEF QueueIsSound
<1> QED BY <1>1, QueueInvariant, PTL

(* No command that runs alone ever takes back the record of a request.     *)
THEOREM RequestedIsAlwaysFinal == QueueSpec => RequestedIsFinal
<1>1. CInv /\ [QueueNext]_queueVars =>
        [~overlap => \A r \in Repos : HasStatus(queue.requests, r, "requested")
                                        => HasStatus(queue'.requests, r, "requested")]_queueVars
  BY EveryStepKeepsTheQueue DEF RequestedStay
<1>2. QueueSpec => []CInv /\ [][QueueNext]_queueVars
  BY QueueInvariant, PTL DEF QueueSpec
<1> QED BY <1>1, <1>2, PTL DEF RequestedIsFinal

-----------------------------------------------------------------------------
(* The stores: what holds of every state of a file of lines and of the     *)
(* documents it names.                                                     *)
LastOf(line) == line[Len(line)]
Joined == {i \in DOMAIN lines : Len(lines[i]) > 1}
Pending(x) == {p \in Commands : step[p] = "append" /\ item[p] = x}
Bound == IF alone THEN 1 ELSE Cardinality(Commands)

(* What a process does fits the store, and nothing is there before the     *)
(* first command.                                                          *)
StepsFitTheStore ==
  /\ \A p \in Commands : step[p] # "idle" => item[p] \in Records
  /\ store = "events" => \A p \in Commands : step[p] \in {"idle", "append"}
  /\ store = "none" => /\ lines = <<>> /\ acked = {}
                       /\ \A t \in Records : document[t] = "absent"
                       /\ \A p \in Commands : step[p] = "idle"
  /\ alone => \A p, q \in Commands : step[p] # "idle" /\ step[q] # "idle" => p = q

(* Every line that was reported ends one of the lines of the file, and     *)
(* what is before the end of a line was cut off.                           *)
LinesAreAccounted ==
  /\ \A x \in acked : \E i \in DOMAIN lines : (i < Len(lines) \/ ~ragged) /\ LastOf(lines[i]) = x
  /\ Cardinality(Joined) + (IF ragged /\ Len(LastOf(lines)) = 1 THEN 1 ELSE 0) <= cut
  /\ cut = 0 => ~ragged /\ \A i \in DOMAIN lines : Len(lines[i]) = 1 /\ lines[i][1] \notin Cuts
  /\ faults = 0 => cut = 0

(* The copies of an event and the commands about to write it.              *)
CopiesAreBounded ==
  store = "events" => \A x \in Records : Copies(x) + Cardinality(Pending(x)) <= Bound

(* A line is written after the document it names.                          *)
DocumentsComeFirst ==
  store = "trajectories" =>
    /\ \A i \in DOMAIN lines : \A k \in DOMAIN lines[i] :
         lines[i][k] \notin Cuts => document[lines[i][k]] # "absent"
    /\ \A p \in Commands :
         step[p] = "append" \/ (step[p] = "fill" /\ handle[p] = "document")
           => document[item[p]] # "absent"

(* A trajectory that no two processes wrote at once has its own files.     *)
UnsharedIsPrivate ==
  \A t \in Records \ shared :
    /\ store = "trajectories" => \A p, q \in Commands :
         (step[p] # "idle" /\ item[p] = t /\ step[q] # "idle" /\ item[q] = t) => p = q
    /\ \A p \in Commands : item[p] = t =>
         /\ step[p] = "fill" => handle[p] = "scratch" /\ scratch[t] = "empty"
         /\ step[p] = "replace" => scratch[t] = "whole"
    /\ document[t] \in {"absent", "whole"}

(* A document without a line of its own has its writer still running, or   *)
(* there was a fault.                                                      *)
DocumentsAreKept ==
  store = "trajectories" => \A t \in Records :
    document[t] # "absent" /\ t \notin Kept =>
      faults > 0 \/ \E p \in Commands : step[p] = "append" /\ item[p] = t

SInv ==
  /\ StoresTypeOK /\ StepsFitTheStore /\ LinesAreAccounted /\ CopiesAreBounded
  /\ DocumentsComeFirst /\ UnsharedIsPrivate /\ DocumentsAreKept

-----------------------------------------------------------------------------
(* A sequence with one more element.                                       *)
LEMMA AppendFacts ==
  ASSUME NEW S, NEW s \in Seq(S), NEW x \in S, NEW t, t = Append(s, x)
  PROVE  /\ t \in Seq(S) /\ Len(t) = Len(s) + 1 /\ DOMAIN t = 1 .. Len(t) /\ t[Len(t)] = x
         /\ Len(t) \in 1 .. Len(t)
         /\ t # <<>> /\ Len(s) \in Nat /\ Len(t) \in Nat /\ Len(t) >= 1 /\ DOMAIN s = 1 .. Len(s)
         /\ \A i \in 1 .. Len(s) : i \in 1 .. Len(t) /\ i # Len(t) /\ t[i] = s[i]
         /\ \A i \in 1 .. Len(t) : i # Len(t) => i \in 1 .. Len(s)
<1>1. /\ t \in Seq(S) /\ Len(t) = Len(s) + 1 /\ DOMAIN t = 1 .. Len(t) /\ t[Len(s) + 1] = x
      /\ Len(s) \in Nat /\ DOMAIN s = 1 .. Len(s)
      /\ \A i \in 1 .. Len(s) : t[i] = s[i]
  OBVIOUS
<1> DEFINE n == Len(s)
<1>2. n \in Nat /\ Len(t) = n + 1
  BY <1>1
<1> HIDE DEF n
<1>3. n + 1 \in Nat /\ n + 1 >= 1 /\ n + 1 \in 1 .. n + 1 /\ \A i \in 1 .. n : i \in 1 .. n + 1 /\ i # n + 1
  BY <1>2
<1>4. \A i \in 1 .. n + 1 : i # n + 1 => i \in 1 .. n
  BY <1>2
<1>5. t # <<>>
  BY <1>1
<1> QED BY <1>1, <1>2, <1>3, <1>4, <1>5 DEF n

(* A sequence with one element replaced.                                   *)
LEMMA ReplaceFacts ==
  ASSUME NEW S, NEW s \in Seq(S), NEW i \in 1 .. Len(s), NEW x \in S, NEW t, t = [s EXCEPT ![i] = x]
  PROVE  /\ t \in Seq(S) /\ Len(t) = Len(s) /\ DOMAIN t = 1 .. Len(s) /\ t[i] = x
         /\ \A j \in 1 .. Len(s) : j # i => t[j] = s[j]
<1>1. DOMAIN s = 1 .. Len(s) /\ Len(s) \in Nat
  OBVIOUS
<1>2. t = [j \in 1 .. Len(s) |-> IF j = i THEN x ELSE s[j]]
  BY <1>1
<1>3. \A j \in 1 .. Len(s) : s[j] \in S
  OBVIOUS
<1> QED BY <1>1, <1>2, <1>3

(* A sequence that is not empty has a last position.                       *)
LEMMA NotEmpty ==
  ASSUME NEW S, NEW s \in Seq(S), s # <<>>
  PROVE  Len(s) \in Nat /\ Len(s) >= 1 /\ Len(s) \in 1 .. Len(s) /\ DOMAIN s = 1 .. Len(s)
<1>1. Len(s) \in Nat /\ Len(s) # 0 /\ DOMAIN s = 1 .. Len(s)
  OBVIOUS
<1> QED BY <1>1

(* There are finitely many positions.                                      *)
LEMMA IntervalIsFinite ==
  ASSUME NEW n \in Nat
  PROVE  IsFiniteSet(1 .. n)
BY FS_Interval

(* The lengths of lines.                                                   *)
LEMMA OneOrMore ==
  ASSUME NEW k \in Nat, k >= 1
  PROVE  k + 1 > 1 /\ k + 1 # 1 /\ k + 1 \in Nat /\ (k # 1 <=> k > 1)
OBVIOUS

Texts == Records \cup Cuts

(* What SInv says of the shape of the state.                               *)
LEMMA StoreTypes ==
  ASSUME SInv
  PROVE  /\ lines \in Seq(Seq(Texts)) /\ \A i \in DOMAIN lines : lines[i] # <<>>
         /\ Len(lines) \in Nat /\ DOMAIN lines = 1 .. Len(lines)
         /\ ragged \in BOOLEAN /\ (ragged => lines # <<>>)
         /\ document \in [Records -> Files]
         /\ scratch \in [Records -> Files]
         /\ handle \in [Commands -> {"none", "scratch", "document", "orphan"}]
         /\ step \in [Commands -> {"idle", "fill", "replace", "append"}]
         /\ item \in [Commands -> Records \cup {NoItem}] /\ faults \in Nat /\ cut \in Nat
         /\ \A p \in Commands : step[p] # "idle" => item[p] \in Records
<1>1. lines \in Seq(Seq(Texts)) /\ faults \in 0 .. MaxFaults /\ MaxFaults \in Nat
  BY StoreAssumption DEF SInv, StoresTypeOK, Texts
<1>2. faults \in Nat /\ Len(lines) \in Nat /\ DOMAIN lines = 1 .. Len(lines)
  BY <1>1
<1> QED BY <1>1, <1>2 DEF SInv, StoresTypeOK, StepsFitTheStore

(* The last line of the file after something was written to it.            *)
LEMMA WrittenLine ==
  ASSUME SInv, NEW text \in Texts, lines' = Written(text)
  PROVE  LET n == Len(lines)
             m == Len(lines') IN
         /\ m = IF ragged THEN n ELSE n + 1
         /\ m \in Nat /\ m >= 1 /\ DOMAIN lines' = 1 .. m /\ m \in 1 .. m /\ m \in DOMAIN lines'
         /\ lines' \in Seq(Seq(Texts))
         /\ \A i \in 1 .. m : i # m => i \in 1 .. n /\ lines'[i] = lines[i]
         /\ \A i \in 1 .. n : i # m => i \in 1 .. m /\ lines'[i] = lines[i]
         /\ lines'[m] = IF ragged THEN Append(lines[n], text) ELSE <<text>>
         /\ Len(lines'[m]) = IF ragged THEN Len(lines[n]) + 1 ELSE 1
         /\ lines'[m] # <<>> /\ LastOf(lines'[m]) = text
         /\ ragged => Len(lines'[m]) > 1 /\ n \in 1 .. n /\ Len(lines[n]) \in Nat /\ Len(lines[n]) >= 1
         /\ ~ragged => lines'[m][1] = text
         /\ DOMAIN lines'[m] = 1 .. Len(lines'[m])
         /\ \A k \in DOMAIN lines'[m] :
              \/ lines'[m][k] = text
              \/ ragged /\ k \in DOMAIN lines[n] /\ lines'[m][k] = lines[n][k]
<1> DEFINE n == Len(lines)
           m == Len(lines')
<1>1. n \in Nat /\ lines \in Seq(Seq(Texts)) /\ DOMAIN lines = 1 .. n
  BY StoreTypes
<1>2. CASE ragged
  <2> DEFINE l == lines[n]
             line == Append(l, text)
  <2>1. n >= 1 /\ n \in 1 .. n
    BY <1>1, <1>2, StoreTypes, NotEmpty
  <2>2. l \in Seq(Texts) /\ l # <<>>
    BY <1>1, <2>1, StoreTypes
  <2>3. lines' = [lines EXCEPT ![n] = line]
    BY <1>2 DEF Written
  <2>4. Len(l) \in Nat /\ Len(l) >= 1 /\ DOMAIN l = 1 .. Len(l)
    BY <2>2, NotEmpty
  <2> HIDE DEF l
  <2>5. /\ line \in Seq(Texts) /\ Len(line) = Len(l) + 1 /\ DOMAIN line = 1 .. Len(line)
        /\ line[Len(line)] = text /\ line # <<>>
        /\ \A k \in 1 .. Len(l) : line[k] = l[k]
        /\ \A k \in 1 .. Len(line) : k # Len(line) => k \in 1 .. Len(l)
    BY <2>2, AppendFacts
  <2> HIDE DEF line
  <2>6. /\ lines' \in Seq(Seq(Texts)) /\ m = n /\ DOMAIN lines' = 1 .. n /\ lines'[n] = line
        /\ \A i \in 1 .. n : i # n => lines'[i] = lines[i]
    <3>1. lines \in Seq(Seq(Texts)) /\ n \in 1 .. Len(lines) /\ line \in Seq(Texts)
      BY <1>1, <2>1, <2>5
    <3>2. /\ lines' \in Seq(Seq(Texts)) /\ Len(lines') = Len(lines) /\ DOMAIN lines' = 1 .. Len(lines)
          /\ lines'[n] = line /\ \A j \in 1 .. Len(lines) : j # n => lines'[j] = lines[j]
      BY <2>3, <3>1, ReplaceFacts
    <3> QED BY <3>2
  <2>7. Len(line) > 1 /\ LastOf(line) = text
    BY <2>4, <2>5 DEF LastOf
  <2>8. /\ lines'[m] = Append(lines[n], text)
        /\ l = lines[n] /\ line = lines'[m]
    BY <2>6 DEF line, l
  <2> HIDE DEF m, n
  <2>9. \A k \in DOMAIN lines'[m] : \/ lines'[m][k] = text
                                    \/ k \in DOMAIN lines[n] /\ lines'[m][k] = lines[n][k]
    BY <2>4, <2>5, <2>8
  <2> QED BY <1>1, <1>2, <2>1, <2>4, <2>5, <2>6, <2>7, <2>8, <2>9 DEF m, n
<1>3. CASE ~ragged
  <2> DEFINE line == <<text>>
  <2>1. line \in Seq(Texts) /\ Len(line) = 1 /\ line[1] = text /\ line # <<>> /\ DOMAIN line = 1 .. 1
    OBVIOUS
  <2>2. lines' = Append(lines, line)
    BY <1>3 DEF Written
  <2> HIDE DEF line
  <2>3. /\ lines' \in Seq(Seq(Texts)) /\ m = n + 1 /\ DOMAIN lines' = 1 .. m /\ lines'[m] = line
        /\ m \in Nat /\ m >= 1 /\ m \in 1 .. m
        /\ \A i \in 1 .. n : i \in 1 .. m /\ lines'[i] = lines[i]
        /\ \A i \in 1 .. m : i # m => i \in 1 .. n
    BY <1>1, <2>1, <2>2, AppendFacts
  <2>4. LastOf(line) = text
    BY <2>1 DEF LastOf
  <2>5. \A k \in DOMAIN line : line[k] = text
    BY <2>1
  <2>6. lines'[m] = <<text>>
    BY <2>3 DEF line
  <2> HIDE DEF m, n
  <2>7. \A i \in 1 .. m : i # m => i \in 1 .. n /\ lines'[i] = lines[i]
    BY <2>3
  <2> QED BY <1>3, <2>1, <2>3, <2>4, <2>5, <2>6, <2>7 DEF m, n
<1> QED BY <1>2, <1>3

-----------------------------------------------------------------------------
(* A process that is not idle has a record to write.                       *)
LEMMA BusyIsWriting ==
  ASSUME SInv, NEW p \in Commands, step[p] # "idle"
  PROVE  item[p] \in Records /\ item[p] \in Texts /\ item[p] \notin Cuts /\ store # "none"
BY StoreAssumption DEF SInv, StepsFitTheStore, Texts

(* The types, and who is at which step.                                    *)
LEMMA TypesLast ==
  ASSUME SInv, StoreNext
  PROVE  StoresTypeOK' /\ StepsFitTheStore'
<1>1. CASE Begin
  BY <1>1 DEF SInv, StoresTypeOK, StepsFitTheStore, Begin, fileVars, historyVars
<1>2. CASE ExportInside
  <2>1. StoresTypeOK'
    BY <1>2 DEF SInv, StoresTypeOK, ExportInside, historyVars
  <2> QED BY <1>2, <2>1 DEF SInv, StepsFitTheStore, ExportInside, historyVars
<1>3. ASSUME NEW p \in Commands, MayRun(p), Acts(p)
      PROVE  StoresTypeOK' /\ StepsFitTheStore'
  <2>1. ASSUME NEW x \in Records, Add(p, x)
        PROVE  StoresTypeOK' /\ StepsFitTheStore'
    <3>1. StoresTypeOK'
      BY <2>1 DEF SInv, StoresTypeOK, Add, fileVars, historyVars
    <3> QED BY <1>3, <2>1, <3>1, StoreTypes
            DEF SInv, StepsFitTheStore, Add, MayRun, fileVars, historyVars
  <2>2. ASSUME NEW x \in Records, OpenScratch(p, x)
        PROVE  StoresTypeOK' /\ StepsFitTheStore'
    <3>1. StoresTypeOK'
      BY <2>2 DEF SInv, StoresTypeOK, Files, OpenScratch
    <3> QED BY <1>3, <2>2, <3>1, StoreTypes DEF SInv, StepsFitTheStore, OpenScratch, MayRun
  <2>3. CASE Fill(p)
    <3>1. item[p] \in Records
      BY <2>3, BusyIsWriting DEF Fill
    <3>2. StoresTypeOK'
      BY <2>3, <3>1 DEF SInv, StoresTypeOK, Files, Fill, Refilled, historyVars
    <3> QED BY <1>3, <2>3, <3>2, StoreTypes DEF SInv, StepsFitTheStore, Fill, MayRun, historyVars
  <2>4. CASE Replace(p)
    <3>1. item[p] \in Records
      BY <2>4, BusyIsWriting DEF Replace
    <3>2. handle' \in [Commands -> {"none", "scratch", "document", "orphan"}]
      BY <2>4, StoreTypes DEF Replace
    <3>3. StoresTypeOK'
      BY <2>4, <3>1, <3>2 DEF SInv, StoresTypeOK, Files, Replace, historyVars
    <3> QED BY <1>3, <2>4, <3>3, StoreTypes DEF SInv, StepsFitTheStore, Replace, MayRun, historyVars
  <2>5. CASE ReplaceFails(p)
    <3>1. StoresTypeOK'
      BY <2>5 DEF SInv, StoresTypeOK, ReplaceFails, Ends, fileVars, historyVars
    <3> QED BY <2>5, <3>1, StoreTypes
            DEF SInv, StepsFitTheStore, ReplaceFails, Ends, fileVars, historyVars
  <2>6. CASE Killed(p)
    <3>1. faults' \in 0 .. MaxFaults
      BY <2>6, StoreAssumption DEF SInv, StoresTypeOK, Killed
    <3>2. StoresTypeOK'
      <4>1. document' \in [Records -> Files] /\ scratch' \in [Records -> Files]
        <5>1. \A x \in Records : /\ PartlyFilled(document[x]) \subseteq Files
                                 /\ PartlyFilled(scratch[x]) \subseteq Files
          BY StoreTypes DEF PartlyFilled, Files
        <5>2. item[p] \in Records
          BY <2>6, BusyIsWriting DEF Killed
        <5> QED BY <2>6, <5>1, <5>2, StoreTypes DEF Killed
      <4> QED BY <2>6, <3>1, <4>1 DEF SInv, StoresTypeOK, Killed, Ends, historyVars
    <3> QED BY <2>6, <3>2, StoreTypes DEF SInv, StepsFitTheStore, Killed, Ends, historyVars
  <2>7. CASE step[p] = "append" /\ AppendLine(p)
    <3>1. item[p] \in Records /\ item[p] \in Texts /\ store # "none"
      BY <2>7, BusyIsWriting
    <3>2. lines' \in Seq(Seq(Texts)) /\ \A i \in DOMAIN lines' : lines'[i] # <<>>
      BY <2>7, <3>1, WrittenLine, StoreTypes DEF AppendLine
    <3>3. StoresTypeOK'
      BY <2>7, <3>1, <3>2 DEF SInv, StoresTypeOK, AppendLine, Ends, Texts
    <3> QED BY <2>7, <3>1, <3>3, StoreTypes DEF SInv, StepsFitTheStore, AppendLine, Ends
  <2>8. CASE step[p] = "append" /\ AppendFails(p)
    <3>1. item[p] \in Records /\ item[p] \in Texts /\ store # "none" /\ Cuts \subseteq Texts
      BY <2>8, BusyIsWriting DEF Texts
    <3>2. faults' \in 0 .. MaxFaults
      BY <2>8, StoreAssumption DEF SInv, StoresTypeOK, AppendFails
    <3>3. CASE UNCHANGED <<lines, ragged, cut>>
      <4>1. StoresTypeOK'
        BY <2>8, <3>2, <3>3 DEF SInv, StoresTypeOK, AppendFails, Ends
      <4> QED BY <2>8, <3>1, <3>3, <4>1, StoreTypes DEF SInv, StepsFitTheStore, AppendFails, Ends
    <3>4. ASSUME NEW text \in Cuts \cup {item[p]}, lines' = Written(text), ragged' = TRUE, cut' = cut + 1
          PROVE  StoresTypeOK' /\ StepsFitTheStore'
      <4>1. /\ lines' \in Seq(Seq(Texts)) /\ \A i \in DOMAIN lines' : lines'[i] # <<>>
            /\ lines' # <<>>
        <5>1. text \in Texts
          BY <3>1
        <5>2. /\ lines' \in Seq(Seq(Texts)) /\ Len(lines') >= 1
              /\ \A i \in DOMAIN lines' : lines'[i] # <<>>
          BY <3>4, <5>1, WrittenLine, StoreTypes
        <5>3. Len(<<>>) = 0
          OBVIOUS
        <5> QED BY <5>2, <5>3
      <4>2. StoresTypeOK'
        BY <2>8, <3>2, <3>4, <4>1 DEF SInv, StoresTypeOK, AppendFails, Ends, Texts
      <4> QED BY <2>8, <3>1, <4>2, StoreTypes DEF SInv, StepsFitTheStore, AppendFails, Ends
    <3> QED BY <2>8, <3>3, <3>4 DEF AppendFails
  <2> QED BY <1>3, <2>1, <2>2, <2>3, <2>4, <2>5, <2>6, <2>7, <2>8 DEF Acts
<1> QED BY <1>1, <1>2, <1>3 DEF StoreNext

-----------------------------------------------------------------------------
(* Writing to a line that lacks its newline joins it with the new one.     *)
LEMMA JoinedGrows ==
  ASSUME SInv, NEW text \in Texts, lines' = Written(text)
  PROVE  /\ Cardinality(Joined) \in Nat
         /\ ~ragged => Joined' = Joined /\ Len(LastOf(lines')) = 1
         /\ ragged => Len(LastOf(lines')) # 1
         /\ ragged /\ Len(LastOf(lines)) = 1 => Cardinality(Joined') = Cardinality(Joined) + 1
         /\ ragged /\ Len(LastOf(lines)) # 1 => Joined' = Joined
<1> DEFINE n == Len(lines)
           m == Len(lines')
<1>1. /\ n \in Nat /\ m = (IF ragged THEN n ELSE n + 1) /\ DOMAIN lines = 1 .. n /\ DOMAIN lines' = 1 .. m
      /\ m \in 1 .. m
      /\ \A i \in 1 .. m : i # m => i \in 1 .. n /\ lines'[i] = lines[i]
      /\ \A i \in 1 .. n : i # m => i \in 1 .. m /\ lines'[i] = lines[i]
  BY WrittenLine, StoreTypes
<1>2. ragged => Len(lines'[m]) > 1 /\ Len(lines'[m]) # 1 /\ n \in 1 .. n /\ Len(lines[n]) \in Nat /\ Len(lines[n]) >= 1
  <2>1. ragged => /\ n \in 1 .. n /\ Len(lines[n]) \in Nat /\ Len(lines[n]) >= 1
                  /\ Len(lines'[m]) = Len(lines[n]) + 1
    BY WrittenLine
  <2> QED BY <2>1, OneOrMore
<1>3. ~ragged => Len(lines'[m]) = 1 /\ m \notin 1 .. n
  BY <1>1, WrittenLine
<1>4. Joined \subseteq 1 .. n /\ IsFiniteSet(Joined) /\ Cardinality(Joined) \in Nat
  <2>1. IsFiniteSet(1 .. n)
    BY <1>1, IntervalIsFinite
  <2>2. Joined \subseteq 1 .. n
    BY <1>1 DEF Joined
  <2> QED BY <2>1, <2>2, FS_Subset, FS_CardinalityType
<1> HIDE DEF n, m
<1>5. CASE ~ragged
  <2>1. Joined' = Joined
    <3>1. \A i : i \in Joined' <=> i \in 1 .. m /\ Len(lines'[i]) > 1
      BY <1>1 DEF Joined
    <3>2. \A i : i \in Joined <=> i \in 1 .. n /\ Len(lines[i]) > 1
      BY <1>1 DEF Joined
    <3>3. \A i : i \in Joined' <=> i \in Joined
      <4>1. m \notin 1 .. n /\ ~ (Len(lines'[m]) > 1)
        <5>1. m \notin 1 .. n /\ Len(lines'[m]) = 1
          BY <1>3, <1>5
        <5>2. ~ (1 > 1)
          OBVIOUS
        <5> QED BY <5>1, <5>2
      <4> QED BY <1>1, <3>1, <3>2, <4>1
    <3> QED BY <3>3
  <2>2. Len(LastOf(lines')) = 1
    BY <1>3, <1>5 DEF LastOf, m
  <2> QED BY <1>4, <1>5, <2>1, <2>2
<1>6. CASE ragged
  <2>1. m = n /\ Len(lines'[n]) > 1 /\ Len(lines'[n]) # 1
    BY <1>1, <1>2, <1>6
  <2>2. Joined' = Joined \cup {n}
    <3>1. \A i : i \in Joined' <=> i \in 1 .. n /\ Len(lines'[i]) > 1
      BY <1>1, <2>1 DEF Joined
    <3>2. \A i : i \in Joined <=> i \in 1 .. n /\ Len(lines[i]) > 1
      BY <1>1, <2>1 DEF Joined
    <3> QED BY <1>1, <1>2, <1>6, <2>1, <3>1, <3>2
  <2>3. Len(LastOf(lines')) # 1
    <3>1. LastOf(lines') = lines'[n]
      BY <2>1 DEF LastOf, m
    <3> QED BY <2>1, <3>1
  <2>4. LastOf(lines) = lines[n]
    BY DEF LastOf, n
  <2>5. n \in Joined <=> Len(lines[n]) > 1
    BY <1>1, <1>2, <1>6 DEF Joined
  <2>6. Len(lines[n]) = 1 => n \notin Joined
    BY <1>2, <1>6, <2>5
  <2>7. Len(lines[n]) # 1 => n \in Joined
    <3>1. Len(lines[n]) # 1 => Len(lines[n]) > 1
      BY <1>2, <1>6, OneOrMore
    <3> QED BY <2>5, <3>1
  <2>8. n \notin Joined => Cardinality(Joined') = Cardinality(Joined) + 1
    BY <1>4, <2>2, FS_AddElement
  <2> QED BY <1>4, <1>6, <2>2, <2>3, <2>4, <2>6, <2>7, <2>8
<1> QED BY <1>5, <1>6

(* What is not written to keeps its accounts.                              *)
LEMMA FileLeftAlone ==
  ASSUME SInv, UNCHANGED <<lines, ragged, cut, acked>>, faults' \in Nat, faults' >= faults
  PROVE  LinesAreAccounted'
<1>1. faults' = 0 => faults = 0
  BY StoreTypes
<1>2. Joined' = Joined /\ LinesAreAccounted
  BY DEF Joined, SInv
<1> QED BY <1>1, <1>2 DEF LinesAreAccounted, LastOf

(* What reported lines become when the file is written to.                 *)
LEMMA ReportedStayLast ==
  ASSUME SInv, NEW text \in Texts, lines' = Written(text), NEW x \in acked
  PROVE  \E i \in DOMAIN lines' : i < Len(lines') /\ LastOf(lines'[i]) = x
<1> DEFINE n == Len(lines)
           m == Len(lines')
<1>1. PICK i \in 1 .. n : (i < n \/ ~ragged) /\ LastOf(lines[i]) = x
  BY StoreTypes DEF SInv, LinesAreAccounted
<1>2. /\ n \in Nat /\ m = (IF ragged THEN n ELSE n + 1) /\ DOMAIN lines' = 1 .. m
      /\ \A j \in 1 .. n : j # m => j \in 1 .. m /\ lines'[j] = lines[j]
  BY WrittenLine, StoreTypes
<1> HIDE DEF n, m
<1>3. i < m
  BY <1>1, <1>2
<1>4. i \in 1 .. m /\ lines'[i] = lines[i]
  BY <1>1, <1>2, <1>3
<1> QED BY <1>1, <1>2, <1>3, <1>4 DEF m

(* Appends, whole or cut, keep the lines accounted for.                    *)
LEMMA LinesLast ==
  ASSUME SInv, StoreNext
  PROVE  LinesAreAccounted'
<1>1. faults' \in Nat
  BY TypesLast, StoreAssumption DEF StoresTypeOK
<1>2. CASE UNCHANGED <<lines, ragged, cut, acked, faults>>
  BY <1>1, <1>2, FileLeftAlone, StoreTypes
<1>3. CASE Begin \/ ExportInside
  <2>1. UNCHANGED <<lines, ragged, cut, acked, faults>>
    BY <1>3 DEF Begin, ExportInside, fileVars, historyVars
  <2> QED BY <1>2, <2>1
<1>4. ASSUME NEW p \in Commands, Acts(p)
      PROVE  LinesAreAccounted'
  <2>1. ASSUME NEW x \in Records, Add(p, x) \/ OpenScratch(p, x)
        PROVE  LinesAreAccounted'
    <3>1. UNCHANGED <<lines, ragged, cut, acked, faults>>
      BY <2>1 DEF Add, OpenScratch, fileVars, historyVars
    <3> QED BY <1>2, <3>1
  <2>2. CASE Fill(p) \/ Replace(p) \/ ReplaceFails(p)
    <3>1. UNCHANGED <<lines, ragged, cut, acked, faults>>
      BY <2>2 DEF Fill, Replace, ReplaceFails, fileVars, historyVars
    <3> QED BY <1>2, <3>1
  <2>3. CASE Killed(p)
    <3>1. UNCHANGED <<lines, ragged, cut, acked>> /\ faults' = faults + 1
      BY <2>3 DEF Killed, historyVars
    <3>2. faults' >= faults
      BY <3>1, StoreTypes
    <3> QED BY <1>1, <3>1, <3>2, FileLeftAlone
  <2>4. CASE step[p] = "append" /\ AppendLine(p)
    <3> DEFINE m == Len(lines')
    <3>1. /\ item[p] \in Texts /\ item[p] \notin Cuts /\ lines' = Written(item[p]) /\ ragged' = FALSE
          /\ acked' = acked \cup {item[p]} /\ UNCHANGED <<cut, faults>>
      BY <2>4, BusyIsWriting DEF AppendLine
    <3>2. \A x \in acked' : \E i \in DOMAIN lines' : (i < Len(lines') \/ ~ragged') /\ LastOf(lines'[i]) = x
      <4> SUFFICES ASSUME NEW x \in acked'
                   PROVE  \E i \in DOMAIN lines' : LastOf(lines'[i]) = x
        BY <3>1
      <4>1. m \in DOMAIN lines' /\ LastOf(lines'[m]) = item[p]
        BY <3>1, WrittenLine
      <4> QED BY <3>1, <4>1, ReportedStayLast
    <3>3. Cardinality(Joined') <= cut'
      <4>1. Cardinality(Joined) + (IF ragged /\ Len(LastOf(lines)) = 1 THEN 1 ELSE 0) <= cut /\ cut \in Nat
        BY StoreTypes DEF SInv, LinesAreAccounted
      <4> QED BY <3>1, <4>1, JoinedGrows
    <3>4. cut' = 0 => \A i \in DOMAIN lines' : Len(lines'[i]) = 1 /\ lines'[i][1] \notin Cuts
      <4> SUFFICES ASSUME cut' = 0, NEW i \in DOMAIN lines'
                   PROVE  Len(lines'[i]) = 1 /\ lines'[i][1] \notin Cuts
        OBVIOUS
      <4>1. ~ragged /\ \A j \in DOMAIN lines : Len(lines[j]) = 1 /\ lines[j][1] \notin Cuts
        BY <3>1 DEF SInv, LinesAreAccounted
      <4>2. CASE i = m
        BY <3>1, <4>1, <4>2, WrittenLine
      <4>3. CASE i # m
        <5>1. i \in DOMAIN lines /\ lines'[i] = lines[i]
          BY <3>1, <4>3, WrittenLine, StoreTypes
        <5> QED BY <4>1, <5>1
      <4> QED BY <4>2, <4>3
    <3>5. Cardinality(Joined') + 0 <= cut'
      <4>1. Cardinality(Joined') \in Nat
        BY <3>1, JoinedGrows
      <4> QED BY <3>3, <4>1
    <3>6. faults' = 0 => cut' = 0
      BY <3>1 DEF SInv, LinesAreAccounted
    <3> QED BY <3>1, <3>2, <3>4, <3>5, <3>6 DEF LinesAreAccounted
  <2>5. CASE step[p] = "append" /\ AppendFails(p)
    <3>1. faults' = faults + 1 /\ faults' # 0 /\ faults' >= faults /\ acked' = acked
      BY <2>5, StoreTypes DEF AppendFails
    <3>2. CASE UNCHANGED <<lines, ragged, cut>>
      BY <1>1, <3>1, <3>2, FileLeftAlone
    <3>3. ASSUME NEW text \in Cuts \cup {item[p]}, lines' = Written(text), ragged' = TRUE, cut' = cut + 1
          PROVE  LinesAreAccounted'
      <4>1. text \in Texts
        BY <2>5, <3>3, BusyIsWriting DEF Texts
      <4>2. \A x \in acked' : \E i \in DOMAIN lines' : (i < Len(lines') \/ ~ragged') /\ LastOf(lines'[i]) = x
        BY <3>1, <3>3, <4>1, ReportedStayLast
      <4>3. Cardinality(Joined') + (IF Len(LastOf(lines')) = 1 THEN 1 ELSE 0) <= cut'
        <5>1. Cardinality(Joined) + (IF ragged /\ Len(LastOf(lines)) = 1 THEN 1 ELSE 0) <= cut /\ cut \in Nat
          BY StoreTypes DEF SInv, LinesAreAccounted
        <5> QED BY <3>3, <4>1, <5>1, JoinedGrows
      <4>4. cut' # 0
        BY <3>3, StoreTypes
      <4> QED BY <3>1, <3>3, <4>2, <4>3, <4>4 DEF LinesAreAccounted
    <3> QED BY <2>5, <3>2, <3>3 DEF AppendFails
  <2> QED BY <1>4, <2>1, <2>2, <2>3, <2>4, <2>5 DEF Acts
<1> QED BY <1>3, <1>4 DEF StoreNext

-----------------------------------------------------------------------------
CopySet(x) == {i \in Intact : lines[i][1] = x}

(* Counting two sets at once.                                              *)
LEMMA FewerOfBoth ==
  ASSUME NEW C, NEW P, IsFiniteSet(C), IsFiniteSet(P), NEW D, NEW Q, D \subseteq C, Q \subseteq P
  PROVE  /\ Cardinality(D) + Cardinality(Q) <= Cardinality(C) + Cardinality(P)
         /\ Cardinality(D) \in Nat /\ Cardinality(Q) \in Nat
<1>1. Cardinality(C) \in Nat /\ Cardinality(P) \in Nat
  BY FS_CardinalityType
<1>2. /\ Cardinality(D) \in Nat /\ Cardinality(D) <= Cardinality(C)
      /\ Cardinality(Q) \in Nat /\ Cardinality(Q) <= Cardinality(P)
  BY FS_Subset, FS_CardinalityType
<1> QED BY <1>1, <1>2

(* Counting a set with one more element.                                   *)
LEMMA OneMore ==
  ASSUME NEW C, IsFiniteSet(C), NEW a
  PROVE  /\ IsFiniteSet(C \cup {a}) /\ Cardinality(C \cup {a}) <= Cardinality(C) + 1
         /\ Cardinality(C \cup {a}) \in Nat /\ Cardinality(C) \in Nat
<1>1. IsFiniteSet(C \cup {a}) /\ Cardinality(C \cup {a}) \in {Cardinality(C), Cardinality(C) + 1}
  BY FS_AddElement
<1>2. Cardinality(C) \in Nat /\ Cardinality(C \cup {a}) \in Nat
  BY <1>1, FS_CardinalityType
<1> QED BY <1>1, <1>2

(* The copies of a record, and the commands about to add one, are few.     *)
LEMMA CopiesAreFinite ==
  ASSUME SInv, NEW x
  PROVE  /\ IsFiniteSet(CopySet(x)) /\ IsFiniteSet(Pending(x)) /\ Cardinality(CopySet(x)) \in Nat
         /\ Cardinality(Pending(x)) \in Nat /\ Cardinality(Commands) \in Nat
         /\ Cardinality(Pending(x)) <= Cardinality(Commands)
         /\ Cardinality(Pending(x)') <= Cardinality(Commands) /\ Cardinality(Pending(x)') \in Nat
<1>1. IsFiniteSet(DOMAIN lines)
  BY StoreTypes, IntervalIsFinite
<1>2. CopySet(x) \subseteq DOMAIN lines
  BY DEF CopySet, Intact
<1>3. Pending(x) \subseteq Commands /\ Pending(x)' \subseteq Commands
  BY DEF Pending
<1> QED BY <1>1, <1>2, <1>3, FS_Subset, FS_CardinalityType, StoreAssumption

(* One write adds at most one copy, of what it writes.                     *)
LEMMA CopiesGrowByOne ==
  ASSUME SInv, NEW text \in Texts, lines' = Written(text), NEW x \in Records
  PROVE  CopySet(x)' \subseteq CopySet(x) \cup (IF text = x THEN {Len(lines')} ELSE {})
<1> DEFINE m == Len(lines')
<1> SUFFICES ASSUME NEW i \in CopySet(x)'
             PROVE  i \in CopySet(x) \/ (i = m /\ text = x)
  OBVIOUS
<1>1. i \in DOMAIN lines' /\ Len(lines'[i]) = 1 /\ lines'[i][1] = x /\ x \notin Cuts
  BY StoreAssumption DEF CopySet, Intact
<1>2. CASE i # m
  <2>1. i \in DOMAIN lines /\ lines'[i] = lines[i]
    BY <1>1, <1>2, WrittenLine, StoreTypes
  <2> QED BY <1>1, <2>1 DEF CopySet, Intact
<1>3. CASE i = m
  <2>1. ~ ragged
    <3>1. ragged => Len(LastOf(lines')) # 1
      BY JoinedGrows
    <3> QED BY <1>1, <1>3, <3>1, StoreTypes DEF LastOf
  <2>2. lines'[m][1] = text
    BY <2>1, WrittenLine
  <2> QED BY <1>1, <1>3, <2>2
<1> QED BY <1>2, <1>3

(* A step that adds no copy and no command about to add one, or makes one  *)
(* of the other.                                                           *)
LEMMA BoundedByBefore ==
  ASSUME SInv, UNCHANGED <<store, alone>>, NEW p,
         \A x \in Records : \/ CopySet(x)' \subseteq CopySet(x) /\ Pending(x)' \subseteq Pending(x)
                            \/ /\ CopySet(x)' \subseteq CopySet(x) \cup {Len(lines')}
                               /\ Pending(x)' \subseteq Pending(x) \ {p} /\ p \in Pending(x)
  PROVE  CopiesAreBounded'
<1> SUFFICES ASSUME store = "events", NEW x \in Records
             PROVE  Cardinality(CopySet(x)') + Cardinality(Pending(x)') <= Bound
  BY DEF CopiesAreBounded, Copies, CopySet, Bound
<1>1. Cardinality(CopySet(x)) + Cardinality(Pending(x)) <= Bound
  BY DEF SInv, CopiesAreBounded, Copies, CopySet
<1>2. Bound \in Nat /\ Cardinality(CopySet(x)) \in Nat /\ Cardinality(Pending(x)) \in Nat
  BY CopiesAreFinite DEF Bound
<1>3. /\ Cardinality(CopySet(x)') + Cardinality(Pending(x)') <= Cardinality(CopySet(x)) + Cardinality(Pending(x))
      /\ Cardinality(CopySet(x)') \in Nat /\ Cardinality(Pending(x)') \in Nat
  <2> DEFINE C == CopySet(x)  P == Pending(x)  D == CopySet(x)'  Q == Pending(x)'
             a == Len(lines')
  <2>1. IsFiniteSet(C) /\ IsFiniteSet(P)
    BY CopiesAreFinite
  <2>2. (D \subseteq C /\ Q \subseteq P) \/ (D \subseteq C \cup {a} /\ Q \subseteq P \ {p} /\ p \in P)
    OBVIOUS
  <2> HIDE DEF C, P, D, Q, a
  <2>3. /\ Cardinality(D) + Cardinality(Q) <= Cardinality(C) + Cardinality(P)
        /\ Cardinality(D) \in Nat /\ Cardinality(Q) \in Nat
    <3>1. CASE D \subseteq C /\ Q \subseteq P
      BY <2>1, <3>1, FewerOfBoth
    <3>2. CASE D \subseteq C \cup {a} /\ Q \subseteq P \ {p} /\ p \in P
      <4> DEFINE E == C \cup {a}
                 R == P \ {p}
      <4>1. IsFiniteSet(E) /\ Cardinality(E) <= Cardinality(C) + 1 /\ Cardinality(E) \in Nat
        BY <2>1, OneMore
      <4>2. IsFiniteSet(R) /\ Cardinality(R) = Cardinality(P) - 1
        BY <2>1, <3>2, FS_RemoveElement
      <4>3. D \subseteq E /\ Q \subseteq R
        BY <3>2
      <4> HIDE DEF E, R
      <4>4. /\ Cardinality(D) + Cardinality(Q) <= Cardinality(E) + Cardinality(R)
            /\ Cardinality(D) \in Nat /\ Cardinality(Q) \in Nat
        BY <4>1, <4>2, <4>3, FewerOfBoth
      <4>5. Cardinality(C) \in Nat /\ Cardinality(P) \in Nat
        BY <2>1, FS_CardinalityType
      <4> QED BY <4>1, <4>2, <4>4, <4>5
    <3> QED BY <2>2, <3>1, <3>2
  <2> QED BY <2>3 DEF C, P, D, Q
<1> QED BY <1>1, <1>2, <1>3

(* An event is added only when there is no copy of it.                     *)
LEMMA CopiesLast ==
  ASSUME SInv, StoreNext
  PROVE  CopiesAreBounded'
<1>1. CASE Begin
  <2> SUFFICES ASSUME NEW x \in Records
               PROVE  Cardinality(CopySet(x)') + Cardinality(Pending(x)') <= Bound'
    BY DEF CopiesAreBounded, Copies, CopySet
  <2>1. lines' = <<>> /\ \A p \in Commands : step'[p] = "idle"
    BY <1>1 DEF Begin, SInv, StepsFitTheStore, fileVars
  <2>2. CopySet(x)' = {} /\ Pending(x)' = {}
    BY <2>1 DEF CopySet, Intact, Pending
  <2>3. Cardinality({}) = 0 /\ Cardinality(Commands) \in Nat
    BY FS_EmptySet, CopiesAreFinite
  <2>4. Bound' \in Nat
    BY <2>3 DEF Bound
  <2> QED BY <2>2, <2>3, <2>4
<1>2. CASE ExportInside
  BY <1>2 DEF ExportInside, CopiesAreBounded
<1>3. ASSUME NEW p \in Commands, MayRun(p), Acts(p)
      PROVE  CopiesAreBounded'
  <2>1. ASSUME NEW e \in Records, Add(p, e)
        PROVE  CopiesAreBounded'
    <3> SUFFICES ASSUME NEW x \in Records
                 PROVE  Cardinality(CopySet(x)') + Cardinality(Pending(x)') <= Bound'
      BY DEF CopiesAreBounded, Copies, CopySet
    <3>1. /\ step[p] = "idle" /\ step'[p] = "append" /\ item'[p] = e /\ lines' = lines
          /\ e \notin Kept /\ store = "events" /\ alone' = alone
          /\ \A q \in Commands \ {p} : step'[q] = step[q] /\ item'[q] = item[q]
      BY <2>1, StoreTypes DEF Add, Listed, fileVars
    <3>2. CopySet(x)' = CopySet(x) /\ Bound' = Bound
      BY <3>1 DEF CopySet, Intact, Bound
    <3>3. CASE x # e
      <4>1. Pending(x)' = Pending(x)
        BY <3>1, <3>3 DEF Pending
      <4>2. Cardinality(CopySet(x)) + Cardinality(Pending(x)) <= Bound
        BY <3>1 DEF SInv, CopiesAreBounded, Copies, CopySet
      <4> QED BY <3>2, <4>1, <4>2
    <3>4. CASE x = e
      <4>1. CopySet(x) = {}
        BY <3>1, <3>4 DEF CopySet, Kept
      <4>2. Cardinality({}) = 0
        BY FS_EmptySet
      <4>3. Cardinality(Pending(x)') <= Bound
        <5>1. CASE alone
          <6>1. Pending(x)' \subseteq {p}
            BY <1>3, <3>1, <5>1 DEF Pending, MayRun
          <6>2. IsFiniteSet({p}) /\ Cardinality({p}) = 1
            BY FS_Singleton
          <6>3. Cardinality(Pending(x)') <= 1
            BY <6>1, <6>2, FS_Subset
          <6> QED BY <5>1, <6>3 DEF Bound
        <5>2. CASE ~ alone
          BY <5>2, CopiesAreFinite DEF Bound
        <5> QED BY <5>1, <5>2
      <4>4. Cardinality(Pending(x)') \in Nat
        BY CopiesAreFinite
      <4> QED BY <3>2, <4>1, <4>2, <4>3, <4>4
    <3> QED BY <3>3, <3>4
  <2>2. CASE (\E x \in Records : OpenScratch(p, x)) \/ Fill(p) \/ Replace(p) \/ ReplaceFails(p)
    <3>1. store' # "events"
      BY <2>2 DEF SInv, StepsFitTheStore, OpenScratch, Fill, Replace, ReplaceFails
    <3> QED BY <3>1 DEF CopiesAreBounded
  <2>3. ASSUME Ends(p), lines' = lines, UNCHANGED <<store, alone>>
        PROVE  CopiesAreBounded'
    <3>1. \A x \in Records : CopySet(x)' \subseteq CopySet(x)
      BY <2>3 DEF CopySet, Intact
    <3>2. \A x \in Records : Pending(x)' \subseteq Pending(x)
      BY <2>3, StoreTypes DEF Pending, Ends
    <3> QED BY <2>3, <3>1, <3>2, BoundedByBefore
  <2>4. ASSUME step[p] = "append", Ends(p), NEW text \in Cuts \cup {item[p]}, lines' = Written(text),
               UNCHANGED <<store, alone>>
        PROVE  CopiesAreBounded'
    <3>1. text \in Texts /\ Records \cap Cuts = {}
      BY <2>4, BusyIsWriting, StoreAssumption DEF Texts
    <3>2. ASSUME NEW x \in Records
          PROVE  \/ CopySet(x)' \subseteq CopySet(x) /\ Pending(x)' \subseteq Pending(x)
                 \/ /\ CopySet(x)' \subseteq CopySet(x) \cup {Len(lines')}
                    /\ Pending(x)' \subseteq Pending(x) \ {p} /\ p \in Pending(x)
      <4>1. Pending(x)' \subseteq Pending(x) \ {p}
        BY <2>4, StoreTypes DEF Pending, Ends
      <4>2. CopySet(x)' \subseteq CopySet(x) \cup (IF text = x THEN {Len(lines')} ELSE {})
        BY <2>4, <3>1, CopiesGrowByOne
      <4>3. CASE text = x
        <5>1. p \in Pending(x)
          BY <2>4, <3>1, <4>3 DEF Pending
        <5> QED BY <4>1, <4>2, <4>3, <5>1
      <4>4. CASE text # x
        BY <4>1, <4>2, <4>4
      <4> QED BY <4>3, <4>4
    <3> QED BY <2>4, <3>2, BoundedByBefore
  <2>5. CASE Killed(p)
    BY <2>3, <2>5 DEF Killed
  <2>6. CASE step[p] = "append" /\ AppendLine(p)
    BY <2>4, <2>6 DEF AppendLine
  <2>7. CASE step[p] = "append" /\ AppendFails(p)
    BY <2>3, <2>4, <2>7 DEF AppendFails
  <2> QED BY <1>3, <2>1, <2>2, <2>5, <2>6, <2>7 DEF Acts
<1> QED BY <1>1, <1>2, <1>3 DEF StoreNext

-----------------------------------------------------------------------------
(* No document disappears.                                                 *)
LEMMA DocumentsStay ==
  ASSUME SInv, StoreNext, NEW t \in Records, document[t] # "absent"
  PROVE  document'[t] # "absent"
<1>1. CASE document' = document
  BY <1>1
<1>2. ASSUME NEW p \in Commands, Fill(p)
      PROVE  document'[t] # "absent"
  <2>1. PICK file \in {"whole", "torn", "split"} : document' \in {document, [document EXCEPT ![item[p]] = file]}
    BY <1>2 DEF Fill, Refilled
  <2> QED BY <2>1, StoreTypes
<1>3. ASSUME NEW p \in Commands, Replace(p)
      PROVE  document'[t] # "absent"
  BY <1>3, StoreTypes DEF Replace
<1>4. ASSUME NEW p \in Commands, Killed(p)
      PROVE  document'[t] # "absent"
  <2>1. \/ document' = document
        \/ \E file \in PartlyFilled(document[item[p]]) : document' = [document EXCEPT ![item[p]] = file]
    BY <1>4 DEF Killed
  <2>2. ASSUME NEW file \in PartlyFilled(document[item[p]]),
               document' = [document EXCEPT ![item[p]] = file]
        PROVE  document'[t] # "absent"
    BY <2>2, StoreTypes DEF PartlyFilled
  <2> QED BY <2>1, <2>2
<1>5. document' = document \/ \E p \in Commands : Fill(p) \/ Replace(p) \/ Killed(p)
  BY DEF StoreNext, Acts, Begin, ExportInside, Add, OpenScratch, ReplaceFails, AppendLine,
         AppendFails, fileVars
<1> QED BY <1>1, <1>2, <1>3, <1>4, <1>5

(* Nothing is listed before its document is in place.                      *)
LEMMA DocumentsLast ==
  ASSUME SInv, StoreNext
  PROVE  DocumentsComeFirst'
<1> DEFINE EachNamed(i) == \A k \in DOMAIN lines'[i] : lines'[i][k] \notin Cuts => document'[lines'[i][k]] # "absent"
           Ready(p) == step'[p] = "append" \/ (step'[p] = "fill" /\ handle'[p] = "document")
                         => document'[item'[p]] # "absent"
<1> SUFFICES ASSUME store' = "trajectories"
             PROVE  /\ \A i \in DOMAIN lines' : EachNamed(i)
                    /\ \A p \in Commands : Ready(p)
  BY DEF DocumentsComeFirst
<1>1. store = "trajectories" =>
        /\ \A i \in DOMAIN lines : \A k \in DOMAIN lines[i] :
             lines[i][k] \notin Cuts => lines[i][k] \in Records /\ document[lines[i][k]] # "absent"
        /\ \A p \in Commands : step[p] = "append" \/ (step[p] = "fill" /\ handle[p] = "document")
             => document[item[p]] # "absent"
  <2>1. \A i \in DOMAIN lines : \A k \in DOMAIN lines[i] : lines[i][k] \in Texts
    BY StoreTypes
  <2> QED BY <2>1 DEF SInv, DocumentsComeFirst, Texts
<1>2. ASSUME store = "trajectories", lines' = lines
      PROVE  \A i \in DOMAIN lines' : EachNamed(i)
  BY <1>1, <1>2, DocumentsStay
<1>3. ASSUME store = "trajectories", NEW p \in Commands,
             step'[p] = step[p], item'[p] = item[p], handle'[p] = handle[p]
      PROVE  Ready(p)
  BY <1>1, <1>3, DocumentsStay, BusyIsWriting
<1>4. CASE Begin
  BY <1>4 DEF Begin, SInv, StepsFitTheStore, fileVars
<1>5. CASE ExportInside
  BY <1>1, <1>5 DEF ExportInside
<1>6. ASSUME NEW p \in Commands, Acts(p)
      PROVE  (\A i \in DOMAIN lines' : EachNamed(i)) /\ \A q \in Commands : Ready(q)
  <2>1. ASSUME NEW t \in Records, OpenScratch(p, t)
        PROVE  (\A i \in DOMAIN lines' : EachNamed(i)) /\ \A q \in Commands : Ready(q)
    <3>1. store = "trajectories" /\ lines' = lines /\ step'[p] = "fill" /\ handle'[p] = "scratch"
      BY <2>1, StoreTypes DEF OpenScratch
    <3>2. \A q \in Commands \ {p} : step'[q] = step[q] /\ item'[q] = item[q] /\ handle'[q] = handle[q]
      BY <2>1, StoreTypes DEF OpenScratch
    <3> QED BY <1>2, <1>3, <3>1, <3>2
  <2>2. CASE Fill(p)
    <3>1. store = "trajectories" /\ lines' = lines /\ step'[p] = "replace"
      BY <2>2, StoreTypes DEF Fill
    <3>2. \A q \in Commands \ {p} : step'[q] = step[q] /\ item'[q] = item[q] /\ handle'[q] = handle[q]
      BY <2>2, StoreTypes DEF Fill
    <3> QED BY <1>2, <1>3, <3>1, <3>2
  <2>3. CASE Replace(p)
    <3>1. /\ store = "trajectories" /\ lines' = lines /\ item[p] \in Records /\ item' = item
          /\ document'[item[p]] = scratch[item[p]] /\ scratch[item[p]] # "absent"
          /\ \A q \in Commands \ {p} : step'[q] = step[q]
      BY <2>3, StoreTypes DEF Replace
    <3>2. \A q \in Commands : item[q] # item[p] => handle'[q] = handle[q]
      BY <2>3 DEF Replace
    <3>3. ASSUME NEW q \in Commands PROVE Ready(q)
      <4>1. CASE item[q] = item[p]
        BY <3>1, <4>1
      <4>2. CASE item[q] # item[p]
        BY <1>3, <3>1, <3>2, <4>2
      <4> QED BY <4>1, <4>2
    <3> QED BY <1>2, <3>1, <3>3
  <2>4. ASSUME Ends(p), store = "trajectories"
        PROVE  \A q \in Commands : Ready(q)
    <3>1. step'[p] = "idle"
      BY <2>4, StoreTypes DEF Ends
    <3>2. \A q \in Commands \ {p} : step'[q] = step[q] /\ item'[q] = item[q] /\ handle'[q] = handle[q]
      BY <2>4, StoreTypes DEF Ends
    <3> QED BY <1>3, <2>4, <3>1, <3>2
  <2>5. CASE ReplaceFails(p) \/ Killed(p)
    <3>1. Ends(p) /\ lines' = lines /\ store = "trajectories"
      <4>1. step[p] # "idle" /\ store # "events" => store = "trajectories"
        BY BusyIsWriting DEF SInv, StoresTypeOK
      <4> QED BY <2>5, <4>1 DEF ReplaceFails, Killed, fileVars
    <3> QED BY <1>2, <2>4, <3>1
  <2>6. ASSUME store = "trajectories", step[p] = "append",
               NEW text \in Cuts \cup {item[p]}, lines' = Written(text)
        PROVE  \A i \in DOMAIN lines' : EachNamed(i)
    <3>1. text \in Texts /\ (text \notin Cuts => text \in Records /\ document[text] # "absent")
      BY <1>1, <2>6, BusyIsWriting DEF Texts
    <3>2. text \notin Cuts => document'[text] # "absent"
      BY <3>1, DocumentsStay
    <3>3. ASSUME NEW i \in DOMAIN lines' PROVE EachNamed(i)
      <4>1. CASE i # Len(lines')
        <5>1. i \in DOMAIN lines /\ lines'[i] = lines[i]
          BY <2>6, <3>1, <4>1, WrittenLine, StoreTypes
        <5> QED BY <1>1, <2>6, <5>1, DocumentsStay
      <4>2. CASE i = Len(lines')
        <5>1. \A k \in DOMAIN lines'[i] :
                \/ lines'[i][k] = text
                \/ /\ Len(lines) \in DOMAIN lines /\ k \in DOMAIN lines[Len(lines)]
                   /\ lines'[i][k] = lines[Len(lines)][k]
          BY <2>6, <3>1, <4>2, WrittenLine, StoreTypes
        <5> QED BY <1>1, <2>6, <3>2, <5>1, DocumentsStay
      <4> QED BY <4>1, <4>2
    <3> QED BY <3>3
  <2>7. CASE step[p] = "append" /\ AppendLine(p)
    <3>1. Ends(p) /\ store = "trajectories" /\ lines' = Written(item[p])
      BY <2>7 DEF AppendLine
    <3> QED BY <2>4, <2>6, <2>7, <3>1
  <2>8. CASE step[p] = "append" /\ AppendFails(p)
    <3>1. Ends(p) /\ store = "trajectories"
      BY <2>8 DEF AppendFails
    <3>2. lines' = lines \/ \E text \in Cuts \cup {item[p]} : lines' = Written(text)
      BY <2>8 DEF AppendFails
    <3> QED BY <1>2, <2>4, <2>6, <2>8, <3>1, <3>2
  <2>9. ~ \E x \in Records : Add(p, x)
    BY DEF Add
  <2> QED BY <1>6, <2>1, <2>2, <2>3, <2>5, <2>7, <2>8, <2>9 DEF Acts
<1> QED BY <1>4, <1>5, <1>6 DEF StoreNext

-----------------------------------------------------------------------------
(* What holds of one trajectory that is not shared.                        *)
PrivateTo(t) ==
  /\ store = "trajectories" => \A p, q \in Commands :
       (step[p] # "idle" /\ item[p] = t /\ step[q] # "idle" /\ item[q] = t) => p = q
  /\ \A p \in Commands : item[p] = t =>
       /\ step[p] = "fill" => handle[p] = "scratch" /\ scratch[t] = "empty"
       /\ step[p] = "replace" => scratch[t] = "whole"
  /\ document[t] \in {"absent", "whole"}

(* Only processes that write the same trajectory disturb each other.       *)
LEMMA PrivateLast ==
  ASSUME SInv, StoreNext
  PROVE  UnsharedIsPrivate'
<1> SUFFICES ASSUME NEW t \in Records, t \notin shared'
             PROVE  PrivateTo(t)'
  BY DEF UnsharedIsPrivate, PrivateTo
<1>1. t \notin shared
  BY DEF StoreNext, Acts, Begin, ExportInside, Add, OpenScratch, Fill, Replace, ReplaceFails, Killed,
         AppendLine, AppendFails, historyVars
<1>2. PrivateTo(t)
  BY <1>1 DEF SInv, UnsharedIsPrivate, PrivateTo
<1>3. CASE Begin
  BY <1>2, <1>3 DEF Begin, PrivateTo, SInv, StepsFitTheStore, fileVars
<1>4. CASE ExportInside
  BY <1>2, <1>4 DEF ExportInside, PrivateTo
<1>5. ASSUME NEW p \in Commands, Acts(p)
      PROVE  PrivateTo(t)'
  <2>1. ASSUME NEW e \in Records, Add(p, e)
        PROVE  PrivateTo(t)'
    <3>1. /\ store' = "events" /\ step'[p] = "append" /\ UNCHANGED <<document, scratch, handle>>
          /\ \A q \in Commands \ {p} : step'[q] = step[q] /\ item'[q] = item[q]
      BY <2>1, StoreTypes DEF Add, fileVars
    <3> QED BY <1>2, <3>1 DEF PrivateTo
  <2>2. ASSUME NEW e \in Records, OpenScratch(p, e)
        PROVE  PrivateTo(t)'
    <3>1. /\ step'[p] = "fill" /\ item'[p] = e /\ handle'[p] = "scratch" /\ document' = document
          /\ step[p] = "idle" /\ store' = store /\ store = "trajectories"
          /\ scratch'[e] = "empty" /\ (t # e => scratch'[t] = scratch[t])
          /\ \A q \in Commands \ {p} : /\ step'[q] = step[q] /\ item'[q] = item[q]
                                       /\ handle'[q] = handle[q]
      BY <2>2, StoreTypes DEF OpenScratch
    <3>2. CASE t = e
      <4>1. \A q \in Commands \ {p} : ~ (step[q] # "idle" /\ item[q] = t)
        BY <2>2, <3>2 DEF OpenScratch
      <4> QED BY <1>2, <3>1, <3>2, <4>1 DEF PrivateTo
    <3>3. CASE t # e
      BY <1>2, <3>1, <3>3 DEF PrivateTo
    <3> QED BY <3>2, <3>3
  <2>3. CASE Fill(p)
    <3>1. /\ step[p] = "fill" /\ step'[p] = "replace" /\ item' = item /\ store' = store
          /\ store = "trajectories" /\ item[p] \in Records
          /\ \A q \in Commands \ {p} : step'[q] = step[q] /\ handle'[q] = handle[q]
      <4>1. step[p] = "fill" /\ store # "events" /\ store # "none" /\ item[p] \in Records
        BY <2>3, BusyIsWriting DEF Fill, SInv, StepsFitTheStore
      <4>2. store \in {"none", "events", "trajectories"}
        BY DEF SInv, StoresTypeOK
      <4> QED BY <2>3, <4>1, <4>2, StoreTypes DEF Fill
    <3>2. CASE item[p] = t
      <4>1. handle[p] = "scratch" /\ scratch[t] = "empty"
        BY <1>2, <3>1, <3>2 DEF PrivateTo
      <4>2. document' = document /\ scratch'[t] = "whole"
        BY <2>3, <3>2, <4>1, StoreTypes DEF Fill, Refilled
      <4>3. \A q \in Commands \ {p} : step[q] # "idle" => item[q] # t
        BY <1>2, <3>1, <3>2 DEF PrivateTo
      <4> QED BY <1>2, <3>1, <3>2, <4>2, <4>3 DEF PrivateTo
    <3>3. CASE item[p] # t
      <4>1. document'[t] = document[t] /\ scratch'[t] = scratch[t]
        BY <2>3, <3>1, <3>3, StoreTypes DEF Fill
      <4> QED BY <1>2, <3>1, <3>3, <4>1 DEF PrivateTo
    <3> QED BY <3>2, <3>3
  <2>4. CASE Replace(p)
    <3>1. /\ step[p] = "replace" /\ step'[p] = "append" /\ item' = item /\ store' = store
          /\ store = "trajectories" /\ item[p] \in Records
          /\ \A q \in Commands \ {p} : step'[q] = step[q]
          /\ document'[item[p]] = scratch[item[p]]
          /\ \A x \in Records \ {item[p]} : document'[x] = document[x] /\ scratch'[x] = scratch[x]
      <4>1. step[p] = "replace" /\ store # "events" /\ store # "none" /\ item[p] \in Records
        BY <2>4, BusyIsWriting DEF Replace, SInv, StepsFitTheStore
      <4>2. store \in {"none", "events", "trajectories"}
        BY DEF SInv, StoresTypeOK
      <4> QED BY <2>4, <4>1, <4>2, StoreTypes DEF Replace
    <3>2. \A q \in Commands : item[q] # item[p] => handle'[q] = handle[q]
      BY <2>4 DEF Replace
    <3>3. CASE item[p] = t
      <4>1. scratch[t] = "whole"
        BY <1>2, <3>1, <3>3 DEF PrivateTo
      <4>2. \A q \in Commands \ {p} : step[q] # "idle" => item[q] # t
        BY <1>2, <3>1, <3>3 DEF PrivateTo
      <4> QED BY <1>2, <3>1, <3>3, <4>1, <4>2 DEF PrivateTo
    <3>4. CASE item[p] # t
      BY <1>2, <3>1, <3>2, <3>4 DEF PrivateTo
    <3> QED BY <3>3, <3>4
  <2>5. ASSUME Ends(p), UNCHANGED <<store, document, scratch>>
        PROVE  PrivateTo(t)'
    <3>1. step'[p] = "idle" /\ \A q \in Commands \ {p} :
            step'[q] = step[q] /\ item'[q] = item[q] /\ handle'[q] = handle[q]
      BY <2>5, StoreTypes DEF Ends
    <3> QED BY <1>2, <2>5, <3>1 DEF PrivateTo
  <2>6. CASE ReplaceFails(p)
    BY <2>5, <2>6 DEF ReplaceFails, fileVars
  <2>8. CASE Killed(p)
    <3>1. /\ step[p] # "idle" /\ item[p] \in Records /\ Ends(p) /\ store' = store
          /\ step'[p] = "idle" /\ item'[p] = NoItem /\ (t = NoItem => step'[p] = "idle")
          /\ \A q \in Commands \ {p} :
               step'[q] = step[q] /\ item'[q] = item[q] /\ handle'[q] = handle[q]
      BY <2>8, BusyIsWriting, StoreTypes DEF Killed, Ends
    <3>2. CASE item[p] = t
      <4>1. \A q \in Commands \ {p} : step[q] # "idle" /\ store = "trajectories" => item[q] # t
        BY <1>2, <3>1, <3>2 DEF PrivateTo
      <4>2. document'[t] = document[t]
        <5>1. step[p] = "fill" => handle[p] = "scratch"
          BY <1>2, <3>2 DEF PrivateTo
        <5> QED BY <2>8, <5>1 DEF Killed
      <4>3. step[p] \in {"fill", "replace"} => store = "trajectories"
        <5>1. store \in {"none", "events", "trajectories"} /\ store # "none"
          BY <3>1, BusyIsWriting DEF SInv, StoresTypeOK
        <5> QED BY <5>1 DEF SInv, StepsFitTheStore
      <4>4. scratch'[t] = scratch[t] \/ store = "trajectories"
        BY <2>8, <4>3 DEF Killed
      <4>5. \A q \in Commands : item'[q] = t /\ step'[q] \in {"fill", "replace"} => store # "trajectories"
        BY <3>1, <4>1
      <4>6. store # "trajectories" => scratch'[t] = scratch[t]
        BY <4>4
      <4> QED BY <1>2, <3>1, <4>1, <4>2, <4>5, <4>6 DEF PrivateTo
    <3>3. CASE item[p] # t
      <4>1. document'[t] = document[t] /\ scratch'[t] = scratch[t]
        BY <2>8, <3>1, <3>3, StoreTypes DEF Killed
      <4> QED BY <1>2, <3>1, <3>3, <4>1 DEF PrivateTo
    <3> QED BY <3>2, <3>3
  <2>7. CASE AppendLine(p) \/ AppendFails(p)
    BY <2>5, <2>7 DEF AppendLine, AppendFails
  <2> QED BY <1>5, <2>1, <2>2, <2>3, <2>4, <2>6, <2>7, <2>8 DEF Acts
<1> QED BY <1>3, <1>4, <1>5 DEF StoreNext

-----------------------------------------------------------------------------
Awaited(t) == \E p \in Commands : step[p] = "append" /\ item[p] = t

(* Without a fault, a document is unlisted only until its writer goes on.  *)
LEMMA StoredLast ==
  ASSUME SInv, StoreNext
  PROVE  DocumentsAreKept'
<1>1. faults \in Nat /\ faults' \in Nat
  BY TypesLast, StoreTypes, StoreAssumption DEF StoresTypeOK
<1> SUFFICES ASSUME store' = "trajectories", NEW t \in Records, document'[t] # "absent",
                    t \notin Kept', faults' = 0
             PROVE  Awaited(t)'
  BY <1>1 DEF DocumentsAreKept, Awaited
<1>2. CASE Begin
  BY <1>2 DEF Begin, SInv, StepsFitTheStore, fileVars
<1>3. ASSUME store = "trajectories", document[t] # "absent", t \notin Kept, faults = 0
      PROVE  Awaited(t)
  BY <1>3 DEF SInv, DocumentsAreKept, Awaited
<1>4. CASE ExportInside
  <2>1. UNCHANGED <<store, lines, document, faults, step, item>>
    BY <1>4 DEF ExportInside
  <2> QED BY <1>3, <2>1 DEF Kept, Intact, Awaited
<1>5. ASSUME NEW p \in Commands, Acts(p)
      PROVE  Awaited(t)'
  <2>1. ~ (\E x \in Records : Add(p, x)) /\ store = "trajectories"
    BY <1>5 DEF Acts, Add, OpenScratch, Fill, Replace, ReplaceFails, Killed, AppendLine, AppendFails
  <2>2. ASSUME NEW x \in Records, OpenScratch(p, x)
        PROVE  Awaited(t)'
    <3>1. /\ UNCHANGED <<lines, document, faults>> /\ step[p] = "idle"
          /\ \A q \in Commands \ {p} : step'[q] = step[q] /\ item'[q] = item[q]
      BY <2>2, StoreTypes DEF OpenScratch
    <3>2. Awaited(t)
      BY <1>3, <2>1, <3>1 DEF Kept, Intact
    <3> QED BY <3>1, <3>2 DEF Awaited
  <2>3. CASE Fill(p)
    <3>1. /\ UNCHANGED <<lines, faults, item>> /\ step[p] = "fill"
          /\ \A q \in Commands \ {p} : step'[q] = step[q]
      BY <2>3, StoreTypes DEF Fill, historyVars
    <3>2. document[t] # "absent"
      <4>1. \/ document'[t] = document[t]
            \/ item[p] = t /\ handle[p] = "document"
        BY <2>3, StoreTypes DEF Fill
      <4>2. item[p] = t /\ handle[p] = "document" => document[t] # "absent"
        BY <2>1, <3>1 DEF SInv, DocumentsComeFirst
      <4> QED BY <4>1, <4>2
    <3>3. Awaited(t)
      BY <1>3, <2>1, <3>1, <3>2 DEF Kept, Intact
    <3> QED BY <3>1, <3>3 DEF Awaited
  <2>4. CASE Replace(p)
    <3>1. /\ UNCHANGED <<lines, faults, item>> /\ step[p] = "replace" /\ step'[p] = "append"
          /\ \A q \in Commands \ {p} : step'[q] = step[q]
          /\ item[p] # t => document'[t] = document[t]
      BY <2>4, StoreTypes DEF Replace, historyVars
    <3>2. CASE item[p] = t
      BY <3>1, <3>2 DEF Awaited
    <3>3. CASE item[p] # t
      <4>1. Awaited(t)
        BY <1>3, <2>1, <3>1, <3>3 DEF Kept, Intact
      <4> QED BY <3>1, <4>1 DEF Awaited
    <3> QED BY <3>2, <3>3
  <2>5. CASE ReplaceFails(p)
    <3>1. /\ UNCHANGED <<lines, document, faults>> /\ step[p] = "replace"
          /\ \A q \in Commands \ {p} : step'[q] = step[q] /\ item'[q] = item[q]
      BY <2>5, StoreTypes DEF ReplaceFails, Ends, fileVars
    <3>2. Awaited(t)
      BY <1>3, <2>1, <3>1 DEF Kept, Intact
    <3> QED BY <3>1, <3>2 DEF Awaited
  <2>6. CASE Killed(p) \/ (step[p] = "append" /\ AppendFails(p))
    <3>1. faults' = faults + 1
      BY <2>6 DEF Killed, AppendFails
    <3> QED BY <1>1, <3>1
  <2>7. CASE step[p] = "append" /\ AppendLine(p)
    <3>1. /\ lines' = Written(item[p]) /\ UNCHANGED <<document, faults>>
          /\ item[p] \in Texts /\ item[p] \notin Cuts
          /\ \A q \in Commands \ {p} : step'[q] = step[q] /\ item'[q] = item[q]
      BY <2>7, StoreTypes, BusyIsWriting DEF AppendLine, Ends
    <3>2. ~ragged
      BY <3>1 DEF SInv, LinesAreAccounted
    <3>3. item[p] # t
      <4> DEFINE m == Len(lines')
      <4>1. m \in DOMAIN lines' /\ Len(lines'[m]) = 1 /\ lines'[m][1] = item[p]
        BY <3>1, <3>2, WrittenLine
      <4> HIDE DEF m
      <4>2. item[p] \in Kept'
        BY <3>1, <4>1 DEF Kept, Intact
      <4> QED BY <4>2
    <3>4. t \notin Kept
      <4> SUFFICES ASSUME NEW i \in Intact, lines[i][1] = t
                   PROVE  FALSE
        BY DEF Kept
      <4> DEFINE n == Len(lines)
      <4>1. i \in 1 .. n /\ n \in Nat
        BY StoreTypes DEF Intact
      <4>2. Len(lines') = n + 1 /\ \A j \in 1 .. n : j # Len(lines') => j \in DOMAIN lines' /\ lines'[j] = lines[j]
        BY <3>1, <3>2, WrittenLine
      <4> HIDE DEF n
      <4>3. i # Len(lines')
        BY <4>1, <4>2
      <4>4. i \in DOMAIN lines' /\ lines'[i] = lines[i]
        BY <4>1, <4>2, <4>3
      <4>5. t \in Kept'
        BY <4>4 DEF Kept, Intact
      <4> QED BY <4>5
    <3>5. Awaited(t)
      BY <1>3, <2>1, <3>1, <3>4
    <3> QED BY <3>1, <3>3, <3>5 DEF Awaited
  <2> QED BY <1>5, <2>1, <2>2, <2>3, <2>4, <2>5, <2>6, <2>7 DEF Acts
<1> QED BY <1>2, <1>4, <1>5 DEF StoreNext

(* Before the first command the stores are empty.                          *)
LEMMA StoreStartsSound == StoreInit => SInv
<1> SUFFICES ASSUME StoreInit PROVE SInv
  OBVIOUS
<1>1. StoresTypeOK
  <2>1. lines \in Seq(Seq(Records \cup Cuts)) /\ (\A i \in DOMAIN lines : lines[i] # <<>>) /\ ragged = FALSE
    BY DEF StoreInit
  <2>2. faults \in 0 .. MaxFaults /\ cut \in Nat
    BY StoreAssumption DEF StoreInit
  <2> QED BY <2>1, <2>2 DEF StoreInit, StoresTypeOK, Files
<1>2. StepsFitTheStore /\ CopiesAreBounded /\ DocumentsComeFirst /\ UnsharedIsPrivate /\ DocumentsAreKept
  BY DEF StoreInit, StepsFitTheStore, CopiesAreBounded, DocumentsComeFirst, UnsharedIsPrivate, DocumentsAreKept
<1>3. LinesAreAccounted
  <2>1. Joined = {} /\ Cardinality({}) = 0
    BY FS_EmptySet DEF StoreInit, Joined
  <2> QED BY <2>1 DEF StoreInit, LinesAreAccounted
<1> QED BY <1>1, <1>2, <1>3 DEF SInv

(* SInv is an invariant of the stores.                                     *)
LEMMA StoreInvariant == StoreSpec => []SInv
<1>1. StoreInit => SInv
  BY StoreStartsSound
<1>2. SInv /\ [StoreNext]_storeVars => SInv'
  <2> SUFFICES ASSUME SInv, [StoreNext]_storeVars PROVE SInv'
    OBVIOUS
  <2>1. CASE StoreNext
    BY <2>1, TypesLast, LinesLast, CopiesLast, DocumentsLast, PrivateLast, StoredLast DEF SInv
  <2>2. CASE UNCHANGED storeVars
    <3>1. /\ UNCHANGED <<store, alone, lines, ragged, document, scratch, handle, step, item, faults>>
          /\ UNCHANGED <<stray, acked, cut, shared>>
      BY <2>2 DEF storeVars, fileVars, historyVars
    <3>2. StoresTypeOK' /\ StepsFitTheStore' /\ DocumentsComeFirst' /\ UnsharedIsPrivate'
      BY <3>1 DEF SInv, StoresTypeOK, StepsFitTheStore, DocumentsComeFirst, UnsharedIsPrivate
    <3>3. LinesAreAccounted' /\ CopiesAreBounded' /\ DocumentsAreKept'
      BY <3>1 DEF SInv, LinesAreAccounted, Joined, CopiesAreBounded, Copies, Pending, Bound,
                  DocumentsAreKept, Kept, Intact
    <3> QED BY <3>2, <3>3 DEF SInv
  <2> QED BY <2>1, <2>2
<1> QED BY <1>1, <1>2, PTL DEF StoreSpec

(* It takes a cut that a line of the file is not found.                    *)
LEMMA ListedUnlessCut ==
  ASSUME SInv
  PROVE  /\ Kept # Listed => cut > 0
         /\ Kept # Listed => faults > 0
<1>1. ASSUME cut = 0, NEW i \in DOMAIN lines, NEW k \in DOMAIN lines[i]
      PROVE  lines[i][k] # Split
  <2>1. Len(lines[i]) = 1 /\ lines[i][1] \notin Cuts
    BY <1>1 DEF SInv, LinesAreAccounted
  <2>2. lines[i] \in Seq(Texts)
    BY StoreTypes
  <2>3. k = 1
    BY <2>1, <2>2
  <2> QED BY <2>1, <2>3 DEF Cuts
<1>2. Kept # Listed => ~Decodable
  BY DEF Listed
<1>3. Kept # Listed => cut # 0
  BY <1>1, <1>2 DEF Decodable
<1>4. Kept # Listed => faults # 0
  BY <1>3 DEF SInv, LinesAreAccounted
<1> QED BY <1>3, <1>4, StoreTypes

(* Every event and trajectory reported as written has its line, but for at *)
(* most one for each append that was cut; it is found there unless a line  *)
(* was cut inside a character; and an event is there once when commands do *)
(* not overlap, at most once for each of them otherwise.                   *)
THEOREM RecordsAreAlwaysStoredOnce == StoreSpec => []StoredOnce
<1>1. ASSUME SInv PROVE StoredOnce
  <2> DEFINE lost == acked \ Kept
  <2>1. ASSUME NEW x \in lost
        PROVE  \E i \in Joined : lines[i][Len(lines[i])] = x
    <3>1. x \notin Cuts
      BY <1>1, StoreAssumption DEF SInv, StoresTypeOK
    <3>2. PICK i \in DOMAIN lines : LastOf(lines[i]) = x
      BY <1>1 DEF SInv, LinesAreAccounted
    <3>3. lines[i] \in Seq(Texts) /\ lines[i] # <<>>
      BY <1>1, StoreTypes
    <3>4. Len(lines[i]) \in Nat /\ Len(lines[i]) >= 1
      BY <3>3, NotEmpty
    <3>5. Len(lines[i]) # 1
      BY <3>1, <3>2 DEF LastOf, Kept, Intact
    <3>6. Len(lines[i]) > 1
      BY <3>4, <3>5, OneOrMore
    <3> QED BY <3>2, <3>6 DEF Joined, LastOf
  <2>2. IsFiniteSet(Joined) /\ Cardinality(Joined) \in Nat
    <3>1. IsFiniteSet(DOMAIN lines) /\ Joined \subseteq DOMAIN lines
      BY <1>1, StoreTypes, IntervalIsFinite DEF Joined
    <3> QED BY <3>1, FS_Subset, FS_CardinalityType
  <2>3. Cardinality(Joined) <= cut
    <3>1. Cardinality(Joined) + (IF ragged /\ Len(LastOf(lines)) = 1 THEN 1 ELSE 0) <= cut /\ cut \in Nat
      BY <1>1, StoreTypes DEF SInv, LinesAreAccounted
    <3> QED BY <2>2, <3>1
  <2>4. Cardinality(lost) <= Cardinality(Joined) /\ Cardinality(lost) \in Nat
    <3> DEFINE ends == {lines[i][Len(lines[i])] : i \in Joined}
    <3>1. IsFiniteSet(ends) /\ Cardinality(ends) <= Cardinality(Joined)
      <4> DEFINE f == [i \in Joined |-> lines[i][Len(lines[i])]]
      <4>1. f \in Surjection(Joined, ends)
        BY DEF Surjection
      <4> HIDE DEF f, ends
      <4> QED BY <2>2, <4>1, FS_Surjection
    <3>2. lost \subseteq ends
      BY <2>1
    <3> HIDE DEF ends, lost
    <3>3. /\ Cardinality(lost) <= Cardinality(ends) /\ Cardinality(lost) \in Nat
          /\ Cardinality(ends) \in Nat
      BY <3>1, <3>2, FS_Subset, FS_CardinalityType
    <3> QED BY <2>2, <3>1, <3>3
  <2>5. LossesNeedACut
    <3>1. Cardinality(lost) <= cut
      BY <1>1, <2>2, <2>3, <2>4, StoreTypes
    <3>2. Kept # Listed => cut > 0
      BY <1>1, ListedUnlessCut
    <3> QED BY <2>1, <3>1, <3>2 DEF LossesNeedACut, Joined
  <2>6. DuplicatesNeedAnOverlap
    <3> SUFFICES ASSUME store = "events", NEW x \in Records
                 PROVE  Copies(x) <= IF alone THEN 1 ELSE Cardinality(Commands)
      BY DEF DuplicatesNeedAnOverlap
    <3>1. Cardinality(CopySet(x)) + Cardinality(Pending(x)) <= Bound
      BY <1>1 DEF SInv, CopiesAreBounded, Copies, CopySet
    <3>2. Cardinality(CopySet(x)) \in Nat /\ Cardinality(Pending(x)) \in Nat /\ Bound \in Nat
      BY <1>1, CopiesAreFinite DEF Bound
    <3>3. Cardinality(CopySet(x)) <= Bound
      BY <3>1, <3>2
    <3> QED BY <3>3 DEF Copies, CopySet, Bound
  <2> QED BY <1>1, <2>5, <2>6 DEF StoredOnce, SInv
<1> QED BY <1>1, StoreInvariant, PTL

(* The index, the documents and what an export finds agree, whoever died   *)
(* where, except for what two audits wrote at once.                        *)
THEOREM IndexAlwaysMatchesDocuments == StoreSpec => []IndexMatchesDocuments
<1>1. ASSUME SInv, store = "trajectories", NEW t \in Records
      PROVE  /\ t \in Listed => document[t] # "absent"
             /\ t \in acked => document[t] # "absent"
             /\ t \notin shared => document[t] \in {"absent", "whole"}
  <2>1. t \notin Cuts
    BY StoreAssumption
  <2>2. ASSUME NEW i \in DOMAIN lines, NEW k \in DOMAIN lines[i], lines[i][k] = t
        PROVE  document[t] # "absent"
    BY <1>1, <2>1, <2>2 DEF SInv, DocumentsComeFirst
  <2>3. \A i \in DOMAIN lines : 1 \in DOMAIN lines[i] /\ Len(lines[i]) \in DOMAIN lines[i]
    <3> SUFFICES ASSUME NEW i \in DOMAIN lines
                 PROVE  1 \in DOMAIN lines[i] /\ Len(lines[i]) \in DOMAIN lines[i]
      OBVIOUS
    <3>1. lines[i] \in Seq(Texts) /\ lines[i] # <<>>
      BY <1>1, StoreTypes
    <3>2. Len(lines[i]) \in Nat /\ Len(lines[i]) >= 1 /\ DOMAIN lines[i] = 1 .. Len(lines[i])
      BY <3>1, NotEmpty
    <3> QED BY <3>2
  <2>4. t \in Listed => document[t] # "absent"
    BY <2>2, <2>3 DEF Listed, Kept, Intact
  <2>5. t \in acked => document[t] # "absent"
    BY <1>1, <2>2, <2>3 DEF SInv, LinesAreAccounted, LastOf
  <2> QED BY <1>1, <2>4, <2>5, StoreTypes DEF SInv, UnsharedIsPrivate
<1>2. ASSUME SInv PROVE IndexMatchesDocuments
  <2>1. ListedIsStored
    BY <1>1, <1>2 DEF ListedIsStored
  <2>2. ExportsAreComplete
    <3> SUFFICES ASSUME store = "trajectories"
                 PROVE  acked \ shared \subseteq Exported /\ (ExportRaises => shared # {})
      BY DEF ExportsAreComplete, Exported
    <3>1. acked \subseteq Records
      BY <1>2 DEF SInv, StoresTypeOK
    <3>2. acked \ shared \subseteq Exported
      BY <1>1, <1>2, <3>1 DEF Exported
    <3>3. ExportRaises => shared # {}
      BY <1>1, <1>2 DEF ExportRaises
    <3> QED BY <3>2, <3>3
  <2>3. StoredIsListed
    <3> SUFFICES ASSUME store = "trajectories", NEW t \in Records, document[t] # "absent", t \notin Listed,
                        ~ (faults > 0)
                 PROVE  \E p \in Commands : step[p] = "append" /\ item[p] = t
      BY DEF StoredIsListed
    <3>1. t \notin Kept
      BY <1>2, ListedUnlessCut
    <3> QED BY <1>2, <3>1 DEF SInv, DocumentsAreKept
  <2> QED BY <1>2, <2>1, <2>2, <2>3 DEF IndexMatchesDocuments, SInv
<1> QED BY <1>2, StoreInvariant, PTL

-----------------------------------------------------------------------------
Active == at \notin {"none", "idle"}
LookupStatuses == {"mentioned", "discussed", "closed", "none", "rate_limited", "error"}
IsList(s) == s \in Seq(Range(s))

(* Nothing was written or read before the report is there.                 *)
ReportIsGiven ==
  /\ report \in Seq(ReportedFinding)
  /\ at = "none" => /\ index = 1 /\ memory = AbsentFile /\ kept = {} /\ told = {} /\ adder = "idle"
                    /\ results = <<>> /\ fixed = {} /\ fixable = {} /\ declared = <<>>
  /\ Active => DOMAIN answers = Findings

(* What a run has found out is about the finding it is kept for.           *)
AnswersAreOwn ==
  /\ results \in Seq(LookupStatuses)
  /\ at = "branches" => results = <<>>
  /\ at = "searches" => index = Len(results) + 1
  /\ Active => \A i \in Findings :
       IF i \in DOMAIN results
       THEN /\ results[i] = "discussed" <=> AskedHinted(i)
            /\ results[i] = "mentioned" <=> AskedOpen(i)
       ELSE answers[i] = ""

(* Of the findings looked up so far, the ones with a fix of their own and  *)
(* the lines that have one: the last finding of a line decides.            *)
Checked == IF at = "branches" THEN 1 .. index - 1 ELSE Findings

KnownFixes(found, places, checked) ==
  /\ found \subseteq checked /\ \A i \in found : Located(i)
  /\ \A place \in places : \E j \in found :
       PlaceOf(j) = place /\ \A k \in checked : k > j /\ PlaceOf(k) = place => k \in found
  /\ \A i \in found : PlaceOf(i) \in places \/ \E k \in checked \ found : k > i /\ PlaceOf(k) = PlaceOf(i)

FixesAreKnown == KnownFixes(fixable, fixed, Checked)

(* A memory nobody was disturbed in writing has only what some command     *)
(* reported saved, and what was reported as discussed is in what was saved. *)
MemoryIsKnown ==
  /\ IsList(memory.entries) /\ IsList(declared) /\ IsList(pending) /\ IsList(adding)
  /\ Undisturbed =>
       /\ Range(memory.entries) \subseteq kept /\ Range(declared) \subseteq kept
       /\ \A i \in told : FindsItself(report[i].path) => \E e \in kept : Covers(e, i)
  /\ at \in {"truncate", "write"} =>
       \A i \in Discussed : \E k \in DOMAIN pending : SameEntry(pending[k], EntryFor(i))

(* Of commands that do not overlap one is under way, and if none was ever  *)
(* killed what it will write, or what is there, has all that was kept.     *)
OneWriter ==
  /\ ~overlapping => ~Active \/ at = "done" \/ adder = "idle"
  /\ Undisturbed =>
       /\ at \in {"truncate", "write"} => kept \subseteq Range(pending)
       /\ adder \in {"truncate", "write"} => kept \subseteq Range(adding)
       /\ at = "write" \/ adder = "write" => memory = EmptiedFile
       /\ at # "write" /\ adder # "write" => kept \subseteq Range(memory.entries)
       /\ Active => \A i \in told \ Discussed :
            FindsItself(report[i].path) => \E k \in DOMAIN declared : Covers(declared[k], i)

MInv ==
  /\ PreflightTypeOK /\ ReportIsGiven /\ AnswersAreOwn /\ FixesAreKnown
  /\ MemoryIsKnown /\ OneWriter /\ FeedbackOnlyOrders

(* What "add" leaves of a list of entries.                                 *)
LEMMA WithEntryFacts ==
  ASSUME NEW S, NEW s \in Seq(S), NEW e \in S, NEW t, t = WithEntry(s, e)
  PROVE  /\ t \in Seq(S)
         /\ \A k \in DOMAIN s : \E l \in DOMAIN t : t[l] = s[k]
         /\ \E l \in DOMAIN t : SameEntry(t[l], e)
<1>1. CASE \E i \in DOMAIN s : SameEntry(s[i], e)
  BY <1>1 DEF WithEntry
<1>2. CASE ~ \E i \in DOMAIN s : SameEntry(s[i], e)
  <2>1. t = Append(s, e)
    BY <1>2 DEF WithEntry
  <2> QED BY <2>1, AppendFacts DEF SameEntry
<1> QED BY <1>1, <1>2

(* The empty list.                                                         *)
LEMMA EmptyList ==
  ASSUME NEW S
  PROVE  <<>> \in Seq(S) /\ DOMAIN <<>> = {} /\ Len(<<>>) = 0 /\ Range(<<>>) = {} /\ IsList(<<>>)
BY DEF Range, IsList

(* The entries of a list.                                                  *)
LEMMA ListFacts ==
  ASSUME NEW s, IsList(s)
  PROVE  /\ DOMAIN s = 1 .. Len(s) /\ Len(s) \in Nat
         /\ \A k \in DOMAIN s : s[k] \in Range(s)
         /\ \A e \in Range(s) : \E k \in DOMAIN s : s[k] = e
BY DEF IsList, Range

(* A list that has every entry of another has what the other has.         *)
LEMMA ListIncludes ==
  ASSUME NEW S, NEW s \in Seq(S), NEW t, \A k \in DOMAIN s : \E l \in DOMAIN t : t[l] = s[k]
  PROVE  Range(s) \subseteq Range(t)
BY DEF Range

(* A list of members of a set lists what it has.                           *)
LEMMA ListOfItsOwn ==
  ASSUME NEW S, NEW s \in Seq(S)
  PROVE  IsList(s) /\ Range(s) \subseteq S
<1>1. DOMAIN s = 1 .. Len(s) /\ Len(s) \in Nat /\ \A k \in 1 .. Len(s) : s[k] \in S
  OBVIOUS
<1>2. s = [k \in 1 .. Len(s) |-> s[k]]
  BY <1>1
<1>3. \A k \in 1 .. Len(s) : s[k] \in Range(s)
  BY <1>1 DEF Range
<1>4. s \in [1 .. Len(s) -> Range(s)]
  BY <1>2, <1>3
<1>5. s \in Seq(Range(s))
  BY <1>1, <1>4, SeqDef
<1> QED BY <1>1, <1>5 DEF IsList, Range

(* A list of members of a set is a list of members of a larger one.        *)
LEMMA WiderList ==
  ASSUME NEW S, NEW T, S \subseteq T, NEW s \in Seq(S)
  PROVE  s \in Seq(T)
OBVIOUS

(* A document that is cut is one too.                                      *)
LEMMA CutFacts ==
  ASSUME NEW list, IsList(list), NEW n \in Nat, n <= Len(list)
  PROVE  /\ CutAt(list, n).state = "whole" /\ IsList(CutAt(list, n).entries)
         /\ EntriesFile(SubSeq(list, 1, n)).state = "whole"
         /\ IsList(EntriesFile(SubSeq(list, 1, n)).entries)
<1> DEFINE S == Range(list)
           e == [list[n] EXCEPT !.path = NoPlace, !.rule = NoRule]
           T == S \cup {e}
<1>1. Len(list) \in Nat /\ \A i \in 1 .. Len(list) : list[i] \in S
  BY ListFacts
<1>2. /\ \A i \in 1 .. n : list[i] \in S
      /\ \A i \in 1 .. n - 1 : list[i] \in T
  BY <1>1
<1> HIDE DEF S, e
<1>3. SubSeq(list, 1, n) \in Seq(S) /\ SubSeq(list, 1, n - 1) \in Seq(T)
  BY <1>2, SubSeqProperties
<1>4. Append(SubSeq(list, 1, n - 1), e) \in Seq(T)
  BY <1>3
<1>5. IsList(SubSeq(list, 1, n)) /\ IsList(Append(SubSeq(list, 1, n - 1), e))
  BY <1>3, <1>4, ListOfItsOwn
<1> QED BY <1>5 DEF CutAt, EntriesFile, e

(* What a file can be.                                                     *)
IsMemory(file) ==
  /\ file.state \in {"absent", "empty", "torn", "broken", "whole"}
  /\ (file.state # "whole" => file.entries = <<>>) /\ IsList(file.entries)

(* The files without entries, and the one with the entries of a list.      *)
LEMMA FileFacts ==
  /\ IsMemory(AbsentFile) /\ IsMemory(EmptiedFile) /\ IsMemory(TornFile) /\ IsMemory(BrokenFile)
  /\ \A list : IsList(list) => IsMemory(EntriesFile(list))
BY EmptyList DEF IsMemory, AbsentFile, EmptiedFile, TornFile, BrokenFile, EntriesFile

(* What a write leaves in the file.                                        *)
LEMMA WrittenFacts ==
  ASSUME NEW file, NEW list, NEW after \in Overwritten(file, list), IsList(list)
  PROVE  IsMemory(after) /\ (file = EmptiedFile => after.entries = list)
<1>1. CASE after = EntriesFile(list)
  BY <1>1, FileFacts DEF EntriesFile
<1>2. CASE after # EntriesFile(list)
  <2>1. file.state # "empty" /\ after \in {TornFile, BrokenFile, CutAt(list, Len(list))}
    BY <1>2 DEF Overwritten
  <2>2. file # EmptiedFile
    BY <2>1 DEF EmptiedFile
  <2>3. Len(list) \in Nat /\ Len(list) <= Len(list)
    BY ListFacts
  <2>4. IsMemory(CutAt(list, Len(list)))
    BY <2>3, CutFacts DEF IsMemory
  <2> QED BY <2>1, <2>2, <2>4, FileFacts
<1> QED BY <1>1, <1>2

(* What a write that does not end leaves there.                            *)
LEMMA PartFacts ==
  ASSUME NEW file, IsMemory(file), NEW list, IsList(list), NEW after \in PartlyWritten(file, list)
  PROVE  IsMemory(after)
<1>1. CASE after \in {file, TornFile, BrokenFile}
  BY <1>1, FileFacts
<1>2. CASE after \notin {file, TornFile, BrokenFile}
  <2>1. PICK n \in DOMAIN list : after \in {CutAt(list, n), EntriesFile(SubSeq(list, 1, n))}
    BY <1>2 DEF PartlyWritten
  <2>2. DOMAIN list = 1 .. Len(list) /\ Len(list) \in Nat
    BY ListFacts
  <2>3. n \in Nat /\ n <= Len(list)
    BY <2>2
  <2> QED BY <2>1, <2>3, CutFacts DEF IsMemory
<1> QED BY <1>1, <1>2

(* The list with the discussed findings: nothing is lost, and each of them *)
(* has an entry that says the same.                                        *)
LEMMA WithDiscussedFacts ==
  ASSUME results \in Seq(LookupStatuses), NEW S, NEW entries \in Seq(S),
         \A i \in Discussed : EntryFor(i) \in S
  PROVE  LET t == WithDiscussed(entries) IN
         /\ t \in Seq(S)
         /\ \A k \in DOMAIN entries : \E l \in DOMAIN t : t[l] = entries[k]
         /\ \A i \in Discussed : \E l \in DOMAIN t : SameEntry(t[l], EntryFor(i))
<1> DEFINE n == Len(results)
           L == Seq(S)
           next(list, i) == IF i \in Discussed THEN WithEntry(list, EntryFor(i)) ELSE list
           turn == [i \in 1 .. n |-> [list \in L |-> next(list, i)]]
           Value(f) == f = [i \in 0 .. n |-> IF i = 0 THEN entries ELSE
                              IF i \in Discussed THEN WithEntry(f[i - 1], EntryFor(i)) ELSE f[i - 1]]
<1>1. n \in Nat /\ Discussed \subseteq 1 .. n /\ entries \in L
  BY DEF Discussed
<1>2. \A i \in 1 .. n : \A list \in L : next(list, i) \in L
  BY WithEntryFacts
<1> HIDE DEF n, L, next
<1>3. turn \in [1 .. n -> [L -> L]]
  BY <1>2
<1> HIDE DEF turn
<1>5. PICK g \in [0 .. n -> L] : g[0] = entries /\ \A i \in 1 .. n : g[i] = turn[i][g[i - 1]]
  <2>1. \E g \in [0 .. n -> L] : IsLoop(g, n, entries, turn)
    BY <1>1, <1>3, LoopIsDefined, Zenon
  <2> QED BY <2>1 DEF IsLoop
<1>6. Value(g)
  <2>1. \A i \in 0 .. n : i # 0 => i \in 1 .. n /\ i - 1 \in 0 .. n
    BY <1>1
  <2>2. \A i \in 0 .. n : g[i] = IF i = 0 THEN entries ELSE next(g[i - 1], i)
    BY <1>5, <2>1 DEF turn
  <2>3. g = [i \in 0 .. n |-> g[i]]
    BY <1>5
  <2> QED BY <2>2, <2>3 DEF next
<1> DEFINE list == CHOOSE f : Value(f)
<1>7. Value(list)
  BY <1>6
<1>8. WithDiscussed(entries) = list[n]
  BY DEF WithDiscussed, n
<1> HIDE DEF list
<1>9. list[0] = entries /\ \A i \in 1 .. n : list[i] = next(list[i - 1], i)
  <2>1. 0 \in 0 .. n /\ \A i \in 1 .. n : i \in 0 .. n /\ i # 0
    BY <1>1
  <2> QED BY <1>7, <2>1 DEF next
<1> DEFINE Keeps(t) == \A k \in DOMAIN entries : \E l \in DOMAIN t : t[l] = entries[k]
           Has(t, i) == \E l \in DOMAIN t : SameEntry(t[l], EntryFor(i))
           Good(m) == list[m] \in L /\ Keeps(list[m]) /\ \A i \in Discussed : i <= m => Has(list[m], i)
           T == {m \in 0 .. n : ~Good(m)}
<1>10. ASSUME T # {} PROVE FALSE
  <2>1. T \in SUBSET Nat
    BY <1>1
  <2> HIDE DEF T
  <2>2. PICK m \in T : \A k \in T : m <= k
    BY <1>10, <2>1, LeastNatural, Zenon
  <2> USE DEF T
  <2>3. m \in 0 .. n /\ ~Good(m)
    BY <2>2
  <2>4. m # 0
    <3>1. \A i \in Discussed : ~ (i <= 0)
      BY <1>1
    <3> QED BY <1>1, <1>9, <2>3, <3>1
  <2>5. m \in 1 .. n /\ m - 1 \in 0 .. n /\ ~ (m <= m - 1)
    BY <1>1, <2>3, <2>4
  <2>6. Good(m - 1)
    BY <2>2, <2>5
  <2> DEFINE s == list[m - 1]
             t == list[m]
  <2>7. s \in Seq(S) /\ t = next(s, m)
    BY <1>9, <2>5, <2>6 DEF L
  <2> HIDE DEF s, t
  <2>8. CASE m \in Discussed
    <3>1. t = WithEntry(s, EntryFor(m))
      BY <2>7, <2>8 DEF next
    <3> DEFINE e == EntryFor(m)
    <3>0. e \in S /\ s \in Seq(S) /\ t = WithEntry(s, e)
      BY <2>7, <2>8, <3>1
    <3> HIDE DEF e
    <3>5. t \in Seq(S)
      BY <3>0, WithEntryFacts
    <3>6. \A k \in DOMAIN s : \E l \in DOMAIN t : t[l] = s[k]
      BY <3>0, WithEntryFacts
    <3>7. \E l \in DOMAIN t : SameEntry(t[l], e)
      BY <3>0, WithEntryFacts
    <3> USE DEF e
    <3>8. Keeps(t)
      BY <2>6, <3>6 DEF s
    <3>9. \A i \in Discussed : i <= m => i <= m - 1 \/ i = m
      BY <1>1, <2>5
    <3>10. \A i \in Discussed : i <= m - 1 => Has(t, i)
      BY <2>6, <3>6 DEF s
    <3> QED BY <2>3, <3>5, <3>7, <3>8, <3>9, <3>10 DEF t, L
  <2>9. CASE m \notin Discussed
    <3>1. t = s
      BY <2>7, <2>9 DEF next
    <3>2. \A i \in Discussed : i <= m => i <= m - 1
      BY <1>1, <2>5, <2>9
    <3> QED BY <2>3, <2>6, <3>1, <3>2 DEF s, t
  <2> QED BY <2>8, <2>9
<1> HIDE DEF Good
<1>11. Good(n)
  <2>1. n \in 0 .. n /\ T = {}
    BY <1>1, <1>10
  <2> QED BY <2>1
<1> USE DEF Good
<1>12. \A i \in Discussed : i <= n
  BY <1>1
<1> QED BY <1>8, <1>11, <1>12 DEF L

(* What an entry made of a finding says is about the finding.              *)
LEMMA SameEntryCovers ==
  ASSUME report \in Seq(ReportedFinding), NEW i \in Findings, FindsItself(report[i].path),
         NEW e, SameEntry(e, EntryFor(i))
  PROVE  Covers(e, i)
<1>1. report[i] \in ReportedFinding
  BY DEF Findings
<1>2. report[i].path \in [dots : BOOLEAN, name : STRING]
  BY <1>1 DEF ReportedFinding
<1>3. Stripped(report[i].path).name = report[i].path.name
  BY <1>2 DEF Stripped
<1>4. e.path = report[i].path /\ e.rule = report[i].rule
  BY DEF SameEntry, EntryFor
<1>5. ~report[i].path.dots /\ Globs(report[i].path.name, report[i].path.name)
  BY DEF FindsItself
<1> QED BY <1>3, <1>4, <1>5 DEF Covers, EntryMatches

(* How many findings are looked up.                                        *)
LEMMA LookedLength ==
  ASSUME NEW S, NEW s \in Seq(S), NEW m \in Nat \ {0}
  PROVE  LET t == SubSeq(s, 1, IF Len(s) < m THEN Len(s) ELSE m) IN
         Len(t) \in Nat /\ Len(t) <= Len(s) /\ DOMAIN t = 1 .. Len(t)
<1> DEFINE n == IF Len(s) < m THEN Len(s) ELSE m
           t == SubSeq(s, 1, n)
<1>1. n \in Nat /\ n <= Len(s) /\ Len(s) \in Nat /\ DOMAIN s = 1 .. Len(s)
  OBVIOUS
<1> HIDE DEF n
<1>2. \A i \in 1 .. n : s[i] \in S
  BY <1>1
<1>3. t \in Seq(S) /\ Len(t) = IF 1 <= n THEN n - 1 + 1 ELSE 0
  BY <1>1, <1>2, SubSeqProperties
<1>4. Len(t) = n
  BY <1>1, <1>3
<1> QED BY <1>1, <1>3, <1>4 DEF n

(* The findings that are looked up are the first ones of the report.       *)
LEMMA LookedFacts ==
  ASSUME report \in Seq(ReportedFinding)
  PROVE  /\ Len(Looked) \in Nat /\ Len(Looked) <= Len(report) /\ DOMAIN Looked = 1 .. Len(Looked)
         /\ Len(report) \in Nat /\ Findings = 1 .. Len(report)
<1>1. MaxFindings \in Nat \ {0}
  BY PreflightAssumption
<1> QED BY <1>1, LookedLength DEF Looked, Findings

(* The findings that were looked up are findings of the report.            *)
LEMMA ResultFacts ==
  ASSUME MInv
  PROVE  /\ report \in Seq(ReportedFinding) /\ results \in Seq(LookupStatuses)
         /\ DOMAIN results \subseteq Findings /\ Discussed \subseteq DOMAIN results
         /\ Len(results) \in Nat /\ DOMAIN results = 1 .. Len(results)
         /\ Len(results) <= Len(Looked)
<1>1. report \in Seq(ReportedFinding) /\ results \in Seq(LookupStatuses) /\ Len(results) <= Len(Looked)
  BY DEF MInv, ReportIsGiven, AnswersAreOwn, PreflightTypeOK
<1> QED BY <1>1, LookedFacts DEF Discussed

(* Nothing more is found out about fixes.                                  *)
LEMMA FixesStay ==
  ASSUME FixesAreKnown, UNCHANGED <<report, fixed, fixable>>, Checked' = Checked
  PROVE  FixesAreKnown'
BY DEF FixesAreKnown, KnownFixes, Located, PlaceOf

(* Nothing is found out yet.                                               *)
LEMMA NoFixes ==
  ASSUME fixed' = {}, fixable' = {}
  PROVE  FixesAreKnown'
BY DEF FixesAreKnown, KnownFixes

(* What one more lookup finds out.                                         *)
LEMMA OneMoreChecked ==
  ASSUME NEW n \in Nat \ {0}, NEW A, NEW F, KnownFixes(A, F, 1 .. n - 1), NEW A2, NEW F2,
         \/ /\ Located(n)
            /\ \/ F2 = F \cup {PlaceOf(n)} /\ A2 = A \cup {n}
               \/ F2 = F \ {PlaceOf(n)} /\ A2 = A
         \/ ~Located(n) /\ F2 = F /\ A2 = A
  PROVE  KnownFixes(A2, F2, 1 .. n)
<1> DEFINE C  == 1 .. n - 1
           C2 == 1 .. n
<1>1. /\ C2 = C \cup {n} /\ n \notin C /\ \A i \in C2 : ~(i > n) /\ i \in Nat
      /\ \A i \in C : n > i
  OBVIOUS
<1>2. /\ A \subseteq C /\ \A i \in A : Located(i)
      /\ \A place \in F : \E j \in A :
           PlaceOf(j) = place /\ \A k \in C : k > j /\ PlaceOf(k) = place => k \in A
      /\ \A i \in A : PlaceOf(i) \in F \/ \E k \in C \ A : k > i /\ PlaceOf(k) = PlaceOf(i)
  BY DEF KnownFixes
<1>3. \A i, j : PlaceOf(i) = PlaceOf(j) /\ Located(i) => Located(j)
  BY DEF PlaceOf, Located
<1> HIDE DEF C, C2
<1>4. CASE Located(n) /\ F2 = F \cup {PlaceOf(n)} /\ A2 = A \cup {n}
  <2>1. A2 \subseteq C2 /\ \A i \in A2 : Located(i)
    BY <1>1, <1>2, <1>4
  <2>2. ASSUME NEW place \in F2
        PROVE  \E j \in A2 : PlaceOf(j) = place /\ \A k \in C2 : k > j /\ PlaceOf(k) = place => k \in A2
    BY <1>1, <1>2, <1>4, <2>2
  <2>3. ASSUME NEW i \in A2
        PROVE  PlaceOf(i) \in F2 \/ \E k \in C2 \ A2 : k > i /\ PlaceOf(k) = PlaceOf(i)
    BY <1>1, <1>2, <1>4, <2>3
  <2> QED BY <2>1, <2>2, <2>3 DEF KnownFixes, C2
<1>5. CASE Located(n) /\ F2 = F \ {PlaceOf(n)} /\ A2 = A
  <2>1. A2 \subseteq C2 /\ \A i \in A2 : Located(i)
    BY <1>1, <1>2, <1>5
  <2>2. ASSUME NEW place \in F2
        PROVE  \E j \in A2 : PlaceOf(j) = place /\ \A k \in C2 : k > j /\ PlaceOf(k) = place => k \in A2
    BY <1>1, <1>2, <1>5, <2>2
  <2>3. ASSUME NEW i \in A2
        PROVE  PlaceOf(i) \in F2 \/ \E k \in C2 \ A2 : k > i /\ PlaceOf(k) = PlaceOf(i)
    <3>1. CASE PlaceOf(i) = PlaceOf(n)
      BY <1>1, <1>2, <1>5, <2>3, <3>1
    <3>2. CASE PlaceOf(i) # PlaceOf(n)
      BY <1>1, <1>2, <1>5, <2>3, <3>2
    <3> QED BY <3>1, <3>2
  <2> QED BY <2>1, <2>2, <2>3 DEF KnownFixes, C2
<1>6. CASE ~Located(n) /\ F2 = F /\ A2 = A
  <2>1. A2 \subseteq C2 /\ \A i \in A2 : Located(i) /\ PlaceOf(i) # PlaceOf(n)
    BY <1>1, <1>2, <1>3, <1>6
  <2>2. ASSUME NEW place \in F2
        PROVE  \E j \in A2 : PlaceOf(j) = place /\ \A k \in C2 : k > j /\ PlaceOf(k) = place => k \in A2
    BY <1>1, <1>2, <1>6, <2>1, <2>2
  <2>3. ASSUME NEW i \in A2
        PROVE  PlaceOf(i) \in F2 \/ \E k \in C2 \ A2 : k > i /\ PlaceOf(k) = PlaceOf(i)
    BY <1>1, <1>2, <1>6, <2>3
  <2> QED BY <2>1, <2>2, <2>3 DEF KnownFixes, C2
<1> QED BY <1>4, <1>5, <1>6

-----------------------------------------------------------------------------
(* Steps of a preflight that only find out.                                *)
Asking == at \in {"branches", "searches", "record", "rows"}
Held == UNCHANGED <<report, overlapping, memory, declared, pending, adding, kept, told, kills, adder>>

(* Such a step leaves the memory, and what is known of it, as it was.      *)
LEMMA HeldMemory ==
  ASSUME MInv, Held, Asking, Asking' \/ at' = "done", answers' = answers \/ at' = "searches",
         Discussed \subseteq Discussed'
  PROVE  MemoryIsKnown' /\ OneWriter'
<1>1. MemoryIsKnown /\ OneWriter
  BY DEF MInv
<1>2. MemoryIsKnown'
  <2>1. IsList(memory.entries)' /\ IsList(declared)' /\ IsList(pending)' /\ IsList(adding)'
    BY <1>1 DEF MemoryIsKnown, Held, IsList, Range
  <2>2. Undisturbed' <=> Undisturbed
    BY DEF Held, Undisturbed
  <2>3. \A e, i : Covers(e, i)' <=> Covers(e, i)
    BY DEF Held, Covers
  <2>4. ASSUME Undisturbed'
        PROVE  /\ Range(memory.entries)' \subseteq kept' /\ Range(declared)' \subseteq kept'
               /\ \A i \in told' : FindsItself(report[i].path)' => \E e \in kept' : Covers(e, i)'
    BY <1>1, <2>2, <2>3, <2>4 DEF MemoryIsKnown, Held, Range
  <2>5. at' \notin {"truncate", "write"}
    BY DEF Asking
  <2> QED BY <2>1, <2>4, <2>5 DEF MemoryIsKnown
<1>3. \A i \in told' \ Discussed' : i \in told \ Discussed
  BY DEF Held
<1>4. Undisturbed' => Undisturbed
  BY DEF Held, Undisturbed
<1>5. Active' /\ Active /\ at \notin {"truncate", "write", "done"} /\ at' \notin {"truncate", "write"}
  BY DEF Asking, Active
<1>6. OneWriter'
  BY <1>1, <1>3, <1>4, <1>5 DEF OneWriter, Held, Covers, Range
<1> QED BY <1>2, <1>6

(* A preflight starts with what it loads from the memory.                  *)
LEMMA MStarts == MInv /\ Starts => MInv'
<1> SUFFICES ASSUME MInv, Starts PROVE MInv'
  OBVIOUS
<1>1. /\ ReportIsGiven /\ PreflightTypeOK /\ MemoryIsKnown /\ OneWriter
      /\ report' = report /\ memory' = memory /\ overlapping' = overlapping /\ adder' = adder
      /\ adding' = adding /\ kept' = kept /\ told' = told /\ kills' = kills
      /\ at \in {"idle", "done"} /\ at' \in {"branches", "searches"} /\ MayStart
      /\ runs < MaxRuns /\ runs' = runs + 1 /\ index' = 1
      /\ declared' = memory.entries
      /\ fixed' = {} /\ answers' = [i \in DOMAIN report |-> ""]
      /\ results' = <<>> /\ pending' = <<>> /\ fixable' = {}
  BY DEF MInv, Starts, Cleared, LoadMemory
<1>2. report \in Seq(ReportedFinding) /\ Looked' = Looked /\ Findings' = Findings
  BY <1>1 DEF ReportIsGiven, Looked, Findings
<1>3. PreflightTypeOK'
  <2>1. MaxRuns \in Nat /\ runs \in 0 .. MaxRuns
    BY <1>1, PreflightAssumption DEF PreflightTypeOK
  <2>4. runs < MaxRuns /\ runs' = runs + 1
    BY <1>1
  <2>2. runs' \in 0 .. MaxRuns
    BY <2>1, <2>4
  <2>5. Len(report) \in Nat /\ Len(Looked) \in Nat
    BY <1>2, LookedFacts
  <2>6. index' = 1 /\ results' = <<>> /\ report' = report
    BY <1>1
  <2>3. index' \in 1 .. Len(report') + 1 /\ Len(results') <= Len(Looked')
    BY <1>2, <2>5, <2>6
  <2> QED BY <1>1, <1>2, <2>2, <2>3 DEF PreflightTypeOK
<1>4. ReportIsGiven'
  BY <1>1, <1>2 DEF ReportIsGiven, Active, Findings
<1>5. AnswersAreOwn'
  <2>1. results' = <<>> /\ index' = 1 /\ answers' = [i \in Findings |-> ""]
    BY <1>1 DEF Findings
  <2>5. results' \in Seq(LookupStatuses)
    BY <2>1, EmptyList
  <2>6. DOMAIN results' = {} /\ Len(results') = 0
    BY <2>1, EmptyList
  <2>7. index' = 1
    BY <2>1
  <2>2. index' = Len(results') + 1
    BY <2>6, <2>7
  <2>3. \A i \in Findings' : i \notin DOMAIN results' /\ answers'[i] = ""
    BY <1>2, <2>1, <2>6
  <2> QED BY <1>1, <2>1, <2>2, <2>3, <2>5, Zenon DEF AnswersAreOwn
<1>6. MemoryIsKnown'
  <2>1. IsList(pending)'
    BY <1>1, EmptyList DEF IsList
  <2>2. IsList(memory.entries)' /\ IsList(declared)' /\ IsList(adding)'
    BY <1>1 DEF MemoryIsKnown, IsList, Range
  <2>3. ASSUME Undisturbed'
        PROVE  /\ Range(memory.entries)' \subseteq kept' /\ Range(declared)' \subseteq kept'
               /\ \A i \in told' : FindsItself(report[i].path)' => \E e \in kept' : Covers(e, i)'
    BY <1>1, <2>3 DEF MemoryIsKnown, Covers, Undisturbed, Range
  <2>4. at' \notin {"truncate", "write"}
    BY <1>1
  <2> QED BY <2>1, <2>2, <2>3, <2>4 DEF MemoryIsKnown
<1>7. OneWriter'
  <2>1. adder = "idle" \/ overlapping
    BY <1>1 DEF MayStart
  <2>2. ASSUME Undisturbed' PROVE kept \subseteq Range(memory.entries)
    BY <1>1, <2>1, <2>2 DEF OneWriter, Undisturbed
  <2>3. ASSUME Undisturbed', NEW i \in told, FindsItself(report[i].path)
        PROVE  \E k \in DOMAIN memory.entries : Covers(memory.entries[k], i)
    <3>1. PICK e \in kept : Covers(e, i)
      BY <1>1, <2>3 DEF MemoryIsKnown, Undisturbed
    <3>2. e \in Range(memory.entries)
      BY <2>2, <2>3
    <3> QED BY <3>1, <3>2 DEF Range
  <2>4. (~overlapping => ~Active \/ at = "done" \/ adder = "idle")'
    BY <1>1, <2>1
  <2>5. ASSUME Undisturbed'
        PROVE  /\ adder' \in {"truncate", "write"} => kept' \subseteq Range(adding)'
               /\ at' # "write" /\ at' # "truncate" /\ adder' # "write"
               /\ kept' \subseteq Range(memory.entries)'
    BY <1>1, <2>1, <2>2, <2>5 DEF Undisturbed, Range
  <2>6. ASSUME Undisturbed', NEW i \in told', FindsItself(report[i].path)'
        PROVE  \E k \in DOMAIN declared' : Covers(declared[k], i)'
    BY <1>1, <2>3, <2>6 DEF Covers
  <2> QED BY <1>1, <2>4, <2>5, <2>6 DEF OneWriter
<1>8. FeedbackOnlyOrders'
  BY <1>1 DEF FeedbackOnlyOrders
<1>9. FixesAreKnown'
  BY <1>1, NoFixes
<1> QED BY <1>3, <1>4, <1>5, <1>6, <1>7, <1>8, <1>9 DEF MInv

(* A finding that was looked up, or has no place to look for, is checked.  *)
LEMMA MLooked ==
  ASSUME MInv, Held, at = "branches", at' = "branches", index \in Findings, index' = index + 1,
         UNCHANGED <<results, answers, rows, runs>>,
         \/ /\ Located(index)
            /\ \/ fixed' = WithFix(TRUE, index) /\ fixable' = fixable \cup {index}
               \/ fixed' = WithFix(FALSE, index) /\ fixable' = fixable
         \/ ~Located(index) /\ fixed' = fixed /\ fixable' = fixable
  PROVE  MInv'
<1>1. ReportIsGiven /\ PreflightTypeOK /\ AnswersAreOwn /\ FixesAreKnown
  BY DEF MInv
<1>2. /\ report \in Seq(ReportedFinding) /\ Looked' = Looked /\ Findings' = Findings /\ report' = report
      /\ Discussed' = Discussed
  BY <1>1 DEF ReportIsGiven, Looked, Findings, Held, Discussed
<1>3. fixable' \subseteq fixable \cup {index}
  OBVIOUS
<1>4. Len(report) \in Nat /\ Findings = 1 .. Len(report)
  BY <1>2, LookedFacts
<1>5. index \in Nat \ {0} /\ index' \in 1 .. Len(report) + 1 /\ index' - 1 = index
  BY <1>4
<1>6. PreflightTypeOK'
  <2>1. fixable' \cup told' \subseteq Findings'
    BY <1>1, <1>2, <1>3 DEF PreflightTypeOK, Held
  <2> QED BY <1>1, <1>2, <1>5, <2>1 DEF PreflightTypeOK, Held
<1>7. ReportIsGiven'
  BY <1>1, <1>2 DEF ReportIsGiven, Held, Active
<1>8. AnswersAreOwn'
  BY <1>1, <1>2 DEF AnswersAreOwn, Held, Active, AskedOpen, AskedHinted, Hinted
<1>9. FixesAreKnown'
  <2> DEFINE A2 == fixable'
             F2 == fixed'
             n  == index
  <2>1. KnownFixes(fixable, fixed, 1 .. n - 1)
    BY <1>1 DEF FixesAreKnown, Checked
  <2>2. \/ /\ Located(n)
           /\ \/ F2 = fixed \cup {PlaceOf(n)} /\ A2 = fixable \cup {n}
              \/ F2 = fixed \ {PlaceOf(n)} /\ A2 = fixable
        \/ ~Located(n) /\ F2 = fixed /\ A2 = fixable
    BY DEF WithFix
  <2>3. n \in Nat \ {0}
    BY <1>5
  <2> HIDE DEF A2, F2, n
  <2>4. KnownFixes(A2, F2, 1 .. n)
    BY <2>1, <2>2, <2>3, OneMoreChecked
  <2>5. Checked' = 1 .. n
    BY <1>5 DEF Checked, n
  <2> QED BY <1>2, <2>4, <2>5 DEF FixesAreKnown, KnownFixes, PlaceOf, Located, A2, F2
<1>10. MemoryIsKnown' /\ OneWriter'
  BY <1>2, HeldMemory DEF Asking
<1>11. FeedbackOnlyOrders'
  BY DEF FeedbackOnlyOrders
<1> QED BY <1>6, <1>7, <1>8, <1>9, <1>10, <1>11 DEF MInv

(* A fix found for a finding is a fix there is, and one that is there is   *)
(* found.                                                                  *)
LEMMA MCheckBranches ==
  ASSUME MInv, NEW known \in SUBSET Refs, NEW contents \in [known -> Contents], NEW past \in BOOLEAN,
         CheckBranches(known, contents, past)
  PROVE  MInv'
<1>1. /\ Held /\ at = "branches" /\ at' = "branches" /\ index \in Findings /\ index' = index + 1
      /\ UNCHANGED <<results, answers, rows, runs>>
  BY DEF CheckBranches, Held
<1>2. CASE ~Located(index)
  <2>1. fixed' = fixed /\ fixable' = fixable
    BY <1>2 DEF CheckBranches
  <2> QED BY <1>1, <1>2, <2>1, MLooked
<1>3. CASE Located(index)
  <2> DEFINE found == past \/ \E ref \in known : contents[ref] \in {"more", "added"}
  <2>1. PICK d \in Fixes(known, contents, "dev"), r \in Fixes(known, contents, "release") :
          fixed' = WithFix(d \cup r # {} \/ past, index)
    BY <1>3 DEF CheckBranches
  <2>2. fixable' = IF found THEN fixable \cup {index} ELSE fixable
    BY <1>3 DEF CheckBranches
  <2>3. d \cup r # {} => \E ref \in known : contents[ref] \in {"more", "added"}
    BY DEF Fixes
  <2>4. ASSUME NEW ref \in known, contents[ref] \in {"more", "added"} PROVE d \cup r # {}
    <3>1. BranchOf(ref) \in {"dev", "release"}
      BY DEF BranchOf
    <3> QED BY <2>4, <3>1 DEF Fixes
  <2>5. d \cup r # {} \/ past <=> found
    BY <2>3, <2>4
  <2>6. CASE found
    <3>1. fixed' = WithFix(TRUE, index) /\ fixable' = fixable \cup {index}
      BY <2>1, <2>2, <2>5, <2>6 DEF WithFix
    <3> QED BY <1>1, <1>3, <3>1, MLooked
  <2>7. CASE ~found
    <3>1. fixed' = WithFix(FALSE, index) /\ fixable' = fixable
      BY <2>1, <2>2, <2>5, <2>7 DEF WithFix
    <3> QED BY <1>1, <1>3, <3>1, MLooked
  <2> QED BY <2>6, <2>7
<1> QED BY <1>2, <1>3

(* A lookup that fails gives no fix.                                       *)
LEMMA MCheckFails == MInv /\ CheckFails => MInv'
<1> SUFFICES ASSUME MInv, CheckFails PROVE MInv'
  OBVIOUS
<1>1. /\ Held /\ at = "branches" /\ at' = "branches" /\ index \in Findings /\ index' = index + 1
      /\ UNCHANGED <<results, answers, rows, runs>>
      /\ Located(index) /\ fixed' = WithFix(FALSE, index) /\ fixable' = fixable
  BY DEF CheckFails, Held
<1> QED BY <1>1, MLooked

(* A step of a preflight that finds nothing out.                           *)
LEMMA MMoves ==
  ASSUME MInv, Held, Asking, Asking', UNCHANGED <<results, answers, fixed, fixable, rows, runs>>,
         index' \in 1 .. Len(report) + 1, at' = "branches" => at = "branches",
         at' = "searches" => index' = Len(results) + 1,
         Checked' = Checked
  PROVE  MInv'
<1>1. ReportIsGiven /\ PreflightTypeOK /\ AnswersAreOwn /\ at' \notin {"none", "idle", "done", "truncate", "write"}
  BY DEF MInv, Asking
<1>2. /\ Looked' = Looked /\ Findings' = Findings /\ report' = report /\ Discussed' = Discussed
      /\ Active /\ Active'
  BY DEF Looked, Findings, Held, Discussed, Active, Asking
<1>3. PreflightTypeOK'
  BY <1>1, <1>2 DEF PreflightTypeOK, Held, Asking
<1>4. ReportIsGiven'
  BY <1>1, <1>2 DEF ReportIsGiven, Held
<1>5. AnswersAreOwn'
  BY <1>1, <1>2 DEF AnswersAreOwn, Held, AskedOpen, AskedHinted, Hinted
<1>6. MemoryIsKnown' /\ OneWriter'
  BY <1>2, HeldMemory
<1>7. FeedbackOnlyOrders'
  BY <1>1 DEF FeedbackOnlyOrders
<1>8. FixesAreKnown'
  BY FixesStay DEF MInv, Held
<1> QED BY <1>3, <1>4, <1>5, <1>6, <1>7, <1>8 DEF MInv

(* The searches start at the first finding.                                *)
LEMMA MBranchesDone == MInv /\ BranchesDone => MInv'
<1> SUFFICES ASSUME MInv, BranchesDone PROVE MInv'
  OBVIOUS
<1>1. /\ Held /\ at = "branches" /\ at' \in {"searches", "rows"} /\ index' = 1
      /\ UNCHANGED <<results, answers, fixed, fixable, rows, runs>>
  BY DEF BranchesDone, Held, runVars
<1>2. Len(report) \in Nat /\ results = <<>>
  BY <1>1, ResultFacts, LookedFacts DEF MInv, AnswersAreOwn
<1>3. Len(results) = 0
  BY <1>2, EmptyList
<1>4. index' = 1
  BY <1>1
<1>5. index' \in 1 .. Len(report) + 1 /\ index' = Len(results) + 1
  <2>1. Len(report) \in Nat
    BY <1>2
  <2> QED BY <1>3, <1>4, <2>1
<1>6. Checked' = Checked
  <2>1. Findings = 1 .. Len(report) /\ index = Len(report) + 1
    BY ResultFacts, LookedFacts DEF BranchesDone
  <2>2. index - 1 = Len(report)
    BY <1>2, <2>1
  <2> QED BY <1>1, <2>1, <2>2 DEF Checked, Findings, Held
<1> QED BY <1>1, <1>5, <1>6, MMoves DEF Asking

(* What the searches found is kept.                                        *)
LEMMA MSearchesDone == MInv /\ SearchesDone => MInv'
<1> SUFFICES ASSUME MInv, SearchesDone PROVE MInv'
  OBVIOUS
<1>1. /\ Held /\ at = "searches" /\ at' \in {"record", "rows"} /\ index' = 1
      /\ UNCHANGED <<results, answers, fixed, fixable, rows, runs>>
  BY DEF SearchesDone, Held, runVars
<1>2. Len(report) \in Nat
  BY <1>1, ResultFacts, LookedFacts
<1>3. index' \in 1 .. Len(report) + 1
  BY <1>1, <1>2
<1>4. Checked' = Checked
  BY <1>1 DEF Checked, Findings, Held
<1> QED BY <1>1, <1>3, <1>4, MMoves DEF Asking

(* The answer to the search for the finding it is at.                      *)
LEMMA MSearched ==
  ASSUME MInv, NEW status \in LookupStatuses, NEW more, NEW answer, Searched(status, more, answer),
         at = "searches", index \in DOMAIN Looked,
         status = "discussed" <=> answer \in Hinted, status = "mentioned" <=> answer = "open",
         UNCHANGED <<report, overlapping, memory, at, declared, fixed, pending, rows, fixable,
                     adder, adding, runs, kills, told, kept>>
  PROVE  MInv'
<1>1. /\ ReportIsGiven /\ PreflightTypeOK /\ AnswersAreOwn /\ Held /\ at' = "searches"
      /\ UNCHANGED <<report, fixed, fixable, rows, runs>>
      /\ results' = Append(results, status) /\ answers' = [answers EXCEPT ![index] = answer]
      /\ index' = index + 1
  BY DEF MInv, Held, Searched
<1>2. Looked' = Looked /\ Findings' = Findings /\ report' = report /\ Active /\ Active'
  BY <1>1 DEF Looked, Findings, Active
<1>3. /\ Len(report) \in Nat /\ Findings = 1 .. Len(report) /\ DOMAIN Looked = 1 .. Len(Looked)
      /\ Len(Looked) \in Nat /\ Len(Looked) <= Len(report) /\ results \in Seq(LookupStatuses)
      /\ index = Len(results) + 1 /\ Len(results) \in Nat
  BY <1>1, ResultFacts, LookedFacts DEF AnswersAreOwn
<1>4. /\ results' \in Seq(LookupStatuses) /\ Len(results') = Len(results) + 1 /\ DOMAIN results' = 1 .. Len(results')
      /\ results'[Len(results')] = status /\ DOMAIN results = 1 .. Len(results)
      /\ \A i \in 1 .. Len(results) : results'[i] = results[i]
  <2> DEFINE r == results'
  <2>1. results \in Seq(LookupStatuses) /\ r = Append(results, status)
    BY <1>1, <1>3
  <2> HIDE DEF r
  <2>2. /\ r \in Seq(LookupStatuses) /\ Len(r) = Len(results) + 1 /\ DOMAIN r = 1 .. Len(r)
        /\ r[Len(r)] = status /\ DOMAIN results = 1 .. Len(results)
        /\ \A i \in 1 .. Len(results) : r[i] = results[i]
    BY <2>1, AppendFacts
  <2> QED BY <2>2 DEF r
<1>5. /\ Len(results') = index /\ index \in 1 .. Len(Looked)
      /\ \A i \in 1 .. index : i = index \/ i \in 1 .. Len(results)
      /\ \A i \in 1 .. Len(results) : i # index /\ i \in 1 .. index
      /\ index + 1 \in 1 .. Len(report) + 1 /\ index \in Findings
  BY <1>3, <1>4
<1>6. PreflightTypeOK'
  <2>1. Len(results') <= Len(Looked')
    BY <1>2, <1>3, <1>5
  <2> QED BY <1>1, <1>2, <1>5, <2>1 DEF PreflightTypeOK, Held
<1>7. DOMAIN answers = Findings
  BY <1>1, <1>2 DEF ReportIsGiven
<1>8. ReportIsGiven'
  BY <1>1, <1>2, <1>7 DEF ReportIsGiven
<1>9. AnswersAreOwn'
  <2>1. ASSUME NEW i \in Findings
        PROVE  IF i \in DOMAIN results'
               THEN /\ results'[i] = "discussed" <=> answers'[i] \in Hinted
                    /\ results'[i] = "mentioned" <=> answers'[i] = "open"
               ELSE answers'[i] = ""
    <3>1. CASE i = index
      <4>1. i \in DOMAIN results' /\ results'[i] = status /\ answers'[i] = answer
        BY <1>1, <1>3, <1>4, <1>5, <1>7, <3>1
      <4> QED BY <4>1
    <3>2. CASE i # index
      <4>1. answers'[i] = answers[i] /\ (i \in DOMAIN results' <=> i \in DOMAIN results)
        BY <1>1, <1>4, <1>5, <1>7, <3>2
      <4>2. i \in DOMAIN results => results'[i] = results[i]
        BY <1>4
      <4>3. IF i \in DOMAIN results
            THEN /\ results[i] = "discussed" <=> AskedHinted(i)
                 /\ results[i] = "mentioned" <=> AskedOpen(i)
            ELSE answers[i] = ""
        BY <1>1, <1>2 DEF AnswersAreOwn
      <4> QED BY <4>1, <4>2, <4>3 DEF AskedHinted, AskedOpen
    <3> QED BY <3>1, <3>2
  <2>2. index' = Len(results') + 1
    BY <1>1, <1>5
  <2> QED BY <1>1, <1>2, <1>4, <2>1, <2>2 DEF AnswersAreOwn, AskedHinted, AskedOpen, Hinted
<1>10. MemoryIsKnown' /\ OneWriter'
  <2>1. Discussed \subseteq Discussed'
    BY <1>4, <1>5 DEF Discussed
  <2> QED BY <1>1, <2>1, HeldMemory DEF Asking
<1>11. FeedbackOnlyOrders'
  BY <1>1 DEF FeedbackOnlyOrders
<1>12. FixesAreKnown'
  BY <1>1, <1>2, FixesStay DEF MInv, Checked
<1> QED BY <1>6, <1>8, <1>9, <1>10, <1>11, <1>12 DEF MInv

(* A finding for which no request is sent has no answer.                   *)
LEMMA MUnsearched == MInv /\ Unsearched => MInv'
<1> SUFFICES ASSUME MInv, Unsearched PROVE MInv'
  OBVIOUS
<1>1. Hints \subseteq {"design", "decline"}
  BY PreflightAssumption
<1>2. "" \notin Hinted
  BY <1>1 DEF Hinted
<1>3. CASE Searched("rate_limited", FALSE, "")
  <2>1. /\ "rate_limited" \in LookupStatuses /\ ("rate_limited" = "discussed" <=> "" \in Hinted)
        /\ "rate_limited" = "mentioned" <=> "" = "open"
    BY <1>2 DEF LookupStatuses
  <2>2. /\ at = "searches" /\ index \in DOMAIN Looked
        /\ UNCHANGED <<report, overlapping, memory, at, declared, fixed, pending, rows, fixable,
                       adder, adding, runs, kills, told, kept>>
    BY DEF Unsearched
  <2> QED BY <1>3, <2>1, <2>2, MSearched
<1>4. CASE Searched("error", FALSE, "")
  <2>1. /\ "error" \in LookupStatuses /\ ("error" = "discussed" <=> "" \in Hinted)
        /\ "error" = "mentioned" <=> "" = "open"
    BY <1>2 DEF LookupStatuses
  <2>2. /\ at = "searches" /\ index \in DOMAIN Looked
        /\ UNCHANGED <<report, overlapping, memory, at, declared, fixed, pending, rows, fixable,
                       adder, adding, runs, kills, told, kept>>
    BY DEF Unsearched
  <2> QED BY <1>4, <2>1, <2>2, MSearched
<1> QED BY <1>3, <1>4 DEF Unsearched

(* One request, or the first of two.                                       *)
LEMMA MSearch == ASSUME MInv, NEW answer \in Answers, Search(answer) PROVE MInv'
<1>1. CASE answer = "empty" /\ tries + 1 < report[index].queries
  <2>1. /\ Held /\ at = "searches" /\ at' = "searches" /\ index' = index
        /\ UNCHANGED <<results, answers, fixed, fixable, rows, runs>>
    BY <1>1 DEF Search, Held
  <2>2. index' \in 1 .. Len(report) + 1 /\ index' = Len(results) + 1
    BY <2>1 DEF MInv, PreflightTypeOK, AnswersAreOwn
  <2>3. Checked' = Checked
    BY <2>1 DEF Checked, Findings, Held
  <2> QED BY <2>1, <2>2, <2>3, MMoves DEF Asking
<1>2. CASE ~ (answer = "empty" /\ tries + 1 < report[index].queries)
  <2>1. Searched(StatusOf(answer), answer \in {"limit", "last"}, answer)
    BY <1>2 DEF Search
  <2>2. Hints \subseteq {"design", "decline"}
    BY PreflightAssumption
  <2>3. /\ StatusOf(answer) \in LookupStatuses
        /\ StatusOf(answer) = "discussed" <=> answer \in Hinted
        /\ StatusOf(answer) = "mentioned" <=> answer = "open"
    <3>1. CASE answer \in Hinted
      <4>1. answer \in {"design", "decline"}
        BY <2>2, <3>1 DEF Hinted
      <4>2. StatusOf(answer) = "discussed"
        BY <3>1, <4>1 DEF StatusOf
      <4> QED BY <3>1, <4>1, <4>2 DEF LookupStatuses
    <3>2. CASE answer \notin Hinted
      <4>1. answer \in {"open", "closed", "empty", "last", "limit", "error"}
        BY <3>2 DEF Answers, Items
      <4>2. StatusOf(answer) \in {"mentioned", "closed", "none", "rate_limited", "error"}
        BY <3>2, <4>1 DEF StatusOf
      <4>3. StatusOf(answer) = "mentioned" <=> answer = "open"
        BY <3>2, <4>1 DEF StatusOf
      <4> QED BY <3>2, <4>2, <4>3 DEF LookupStatuses
    <3> QED BY <3>1, <3>2
  <2> QED BY <2>1, <2>3, MSearched DEF Search
<1> QED BY <1>1, <1>2

(* A preflight that ends early, before it has written or by being killed.  *)
LEMMA MQuits ==
  ASSUME MInv, Stops, at # "none", kills' \in 0 .. MaxKills, IsMemory(memory'),
         (kills' = kills /\ memory' = memory /\ Asking) \/ kills' # 0
  PROVE  MInv'
<1>1. /\ ReportIsGiven /\ PreflightTypeOK /\ MemoryIsKnown /\ OneWriter
      /\ report' = report /\ overlapping' = overlapping /\ adder' = adder
      /\ adding' = adding /\ kept' = kept /\ told' = told /\ runs' = runs
      /\ at' = "idle" /\ index' = 1 /\ declared' = <<>>
      /\ fixed' = {} /\ results' = <<>> /\ pending' = <<>> /\ fixable' = {}
  BY DEF MInv, Stops, Cleared
<1>2. report \in Seq(ReportedFinding) /\ Looked' = Looked /\ Findings' = Findings
  BY <1>1 DEF ReportIsGiven, Looked, Findings
<1>3. results' \in Seq(LookupStatuses)
  BY <1>1, EmptyList
<1>4. Len(results') = 0
  BY <1>1, EmptyList
<1>5. PreflightTypeOK'
  <2>1. Len(report) \in Nat /\ Len(Looked) \in Nat
    BY <1>2, LookedFacts
  <2>2. index' = 1 /\ report' = report
    BY <1>1
  <2>3. index' \in 1 .. Len(report') + 1 /\ Len(results') <= Len(Looked')
    BY <1>2, <1>4, <2>1, <2>2
  <2>4. /\ (memory.state)' \in {"absent", "empty", "torn", "broken", "whole"}
        /\ (memory.state)' # "whole" => (memory.entries)' = <<>>
    BY DEF IsMemory
  <2> QED BY <1>1, <1>2, <2>3, <2>4 DEF PreflightTypeOK
<1>6. ReportIsGiven'
  BY <1>1, <1>2 DEF ReportIsGiven, Active
<1>7. AnswersAreOwn'
  BY <1>1, <1>3, Zenon DEF AnswersAreOwn, Active
<1>8. FixesAreKnown'
  BY <1>1, NoFixes
<1>9. MemoryIsKnown'
  <2>1. IsList(pending)' /\ IsList(declared)' /\ Range(declared)' = {}
    BY <1>1, EmptyList DEF IsList, Range
  <2>2. IsList(memory.entries)' /\ IsList(adding)'
    BY <1>1 DEF MemoryIsKnown, IsList, Range, IsMemory
  <2>3. ASSUME Undisturbed' PROVE Undisturbed /\ memory' = memory
    BY <1>1, <2>3 DEF Undisturbed
  <2>4. ASSUME Undisturbed'
        PROVE  /\ Range(memory.entries)' \subseteq kept'
               /\ \A i \in told' : FindsItself(report[i].path)' => \E e \in kept' : Covers(e, i)'
    BY <1>1, <2>3, <2>4 DEF MemoryIsKnown, Covers, Range
  <2>5. at' \notin {"truncate", "write"}
    BY <1>1
  <2> QED BY <2>1, <2>2, <2>4, <2>5 DEF MemoryIsKnown
<1>10. OneWriter'
  <2>1. (~overlapping => ~Active \/ at = "done" \/ adder = "idle")'
    BY <1>1 DEF Active
  <2>2. ASSUME Undisturbed' PROVE Undisturbed /\ memory' = memory /\ at \notin {"truncate", "write"}
    BY <1>1, <2>2 DEF Undisturbed, Asking
  <2> QED BY <1>1, <2>1, <2>2 DEF OneWriter, Active, Range
<1>11. FeedbackOnlyOrders'
  BY <1>1 DEF FeedbackOnlyOrders
<1> QED BY <1>5, <1>6, <1>7, <1>8, <1>9, <1>10, <1>11 DEF MInv

(* A preflight that ends with an error.                                    *)
LEMMA MFails ==
  MInv /\ (CheckerFails \/ SearchBreaks \/ RecordBreaks \/ RankingBreaks) => MInv'
<1> SUFFICES ASSUME MInv, CheckerFails \/ SearchBreaks \/ RecordBreaks \/ RankingBreaks PROVE MInv'
  OBVIOUS
<1>1. Stops /\ Asking /\ at # "none" /\ kills' = kills /\ memory' = memory /\ kills \in 0 .. MaxKills
  BY DEF CheckerFails, SearchBreaks, RecordBreaks, RankingBreaks, Quits, Asking, MInv, PreflightTypeOK
<1>2. IsMemory(memory)
  BY DEF MInv, PreflightTypeOK, MemoryIsKnown, IsMemory
<1> QED BY <1>1, <1>2, MQuits

(* A preflight that is killed.                                             *)
LEMMA MPreflightKilled == MInv /\ PreflightKilled => MInv'
<1> SUFFICES ASSUME MInv, PreflightKilled PROVE MInv'
  OBVIOUS
<1>1. Stops /\ at # "none" /\ kills < MaxKills /\ kills' = kills + 1
  BY DEF PreflightKilled
<1>2. kills \in 0 .. MaxKills /\ MaxKills \in Nat
  BY PreflightAssumption DEF MInv, PreflightTypeOK
<1>3. kills' \in 0 .. MaxKills /\ kills' # 0
  BY <1>1, <1>2
<1>4. IsMemory(memory) /\ IsList(pending)
  BY DEF MInv, PreflightTypeOK, MemoryIsKnown, IsMemory
<1>5. IsMemory(memory')
  <2> DEFINE after == memory'
  <2>1. after = memory \/ after \in PartlyWritten(memory, pending)
    BY DEF PreflightKilled
  <2> HIDE DEF after
  <2>2. IsMemory(after)
    BY <1>4, <2>1, PartFacts
  <2> QED BY <2>2 DEF after
<1> QED BY <1>1, <1>3, <1>5, MQuits

(* The invariant holds before the first command.                           *)
LEMMA MInit == PreflightInit => MInv
<1> SUFFICES ASSUME PreflightInit PROVE MInv
  OBVIOUS
<1>1. /\ report = <<>> /\ overlapping = FALSE /\ memory = AbsentFile /\ at = "none" /\ index = 1
      /\ declared = <<>> /\ fixed = {} /\ results = <<>> /\ pending = <<>> /\ answers = <<>>
      /\ fixable = {} /\ adder = "idle" /\ adding = <<>> /\ runs = 0 /\ kills = 0 /\ told = {} /\ kept = {}
  BY DEF PreflightInit
<1>2. report \in Seq(ReportedFinding) /\ results \in Seq(LookupStatuses) /\ IsList(declared) /\ Range(declared) = {}
  BY <1>1, EmptyList
<1>3. Len(report) = 0 /\ Len(results) = 0 /\ IsList(pending) /\ IsList(adding)
  BY <1>1, EmptyList
<1>4. memory.state = "absent" /\ memory.entries = <<>>
  BY <1>1 DEF AbsentFile
<1>5. IsList(memory.entries) /\ Range(memory.entries) = {}
  BY <1>4, EmptyList
<1>6. PreflightTypeOK
  <2>1. Len(Looked) \in Nat /\ Len(report) = 0 /\ Len(results) = 0 /\ index = 1
    BY <1>1, <1>2, <1>3, LookedFacts
  <2>2. index \in 1 .. Len(report) + 1 /\ Len(results) <= Len(Looked)
    BY <2>1
  <2>3. MaxRuns \in Nat /\ MaxKills \in Nat
    BY PreflightAssumption
  <2>4. 0 \in 0 .. MaxRuns /\ 0 \in 0 .. MaxKills
    BY <2>3
  <2> QED BY <1>1, <1>4, <2>2, <2>4 DEF PreflightTypeOK
<1>7. ReportIsGiven
  BY <1>1, <1>2 DEF ReportIsGiven, Active
<1>8. AnswersAreOwn
  BY <1>1, <1>2 DEF AnswersAreOwn, Active
<1>9. MemoryIsKnown
  BY <1>1, <1>2, <1>3, <1>5 DEF MemoryIsKnown
<1>10. OneWriter
  BY <1>1, <1>4 DEF OneWriter, Active
<1>11. FeedbackOnlyOrders
  BY <1>1 DEF FeedbackOnlyOrders
<1>12. FixesAreKnown
  BY <1>1 DEF FixesAreKnown, KnownFixes
<1> QED BY <1>12, <1>6, <1>7, <1>8, <1>9, <1>10, <1>11 DEF MInv

(* The report that is there knows nothing yet.                             *)
LEMMA MGiven == MInv /\ Given => MInv'
<1> SUFFICES ASSUME MInv, Given PROVE MInv'
  OBVIOUS
<1>1. /\ ReportIsGiven /\ PreflightTypeOK /\ AnswersAreOwn /\ MemoryIsKnown /\ OneWriter
      /\ memory' = memory /\ adder' = adder /\ index' = index
      /\ adding' = adding /\ kept' = kept /\ told' = told /\ runs' = runs /\ kills' = kills
      /\ at = "none" /\ at' = "idle" /\ report' \in Reports /\ declared' = declared
      /\ fixed' = fixed /\ results' = results /\ pending' = pending /\ fixable' = fixable
  BY DEF MInv, Given, runVars
<1>2. /\ index = 1 /\ memory = AbsentFile /\ kept = {} /\ told = {} /\ adder = "idle"
      /\ results = <<>> /\ fixed = {} /\ fixable = {} /\ declared = <<>>
  BY <1>1 DEF ReportIsGiven
<1>3. report' \in Seq(ReportedFinding)
  BY <1>1, PreflightAssumption
<1>4. PreflightTypeOK'
  <2> DEFINE r == report'
             l == Looked'
  <2>1. MaxFindings \in Nat \ {0}
    BY PreflightAssumption
  <2>2. Len(r) \in Nat /\ Len(l) \in Nat
    BY <1>3, <2>1, LookedLength DEF Looked
  <2>3. results' = <<>>
    BY <1>1, <1>2
  <2>4. Len(results') = 0
    BY <2>3, EmptyList
  <2>5. index' = 1
    BY <1>1, <1>2
  <2> HIDE DEF r, l
  <2>6. index' \in 1 .. Len(r) + 1 /\ Len(results') <= Len(l)
    BY <2>2, <2>4, <2>5
  <2> QED BY <1>1, <1>2, <2>6 DEF PreflightTypeOK, r, l
<1>5. ReportIsGiven'
  BY <1>1, <1>3 DEF ReportIsGiven, Active
<1>6. AnswersAreOwn'
  BY <1>1, <1>2 DEF AnswersAreOwn, Active
<1>7. MemoryIsKnown'
  <2>1. IsList(memory.entries)' /\ IsList(declared)' /\ IsList(pending)' /\ IsList(adding)'
    BY <1>1 DEF MemoryIsKnown, IsList, Range
  <2>2. Range(memory.entries)' = {} /\ Range(declared)' = {}
    BY <1>1, <1>2, EmptyList DEF AbsentFile, Range
  <2>3. told' = {} /\ at' \notin {"truncate", "write"}
    BY <1>1, <1>2
  <2> QED BY <2>1, <2>2, <2>3 DEF MemoryIsKnown
<1>8. OneWriter'
  BY <1>1, <1>2 DEF OneWriter, Active
<1>9. FeedbackOnlyOrders'
  BY <1>1 DEF FeedbackOnlyOrders
<1>10. FixesAreKnown'
  BY <1>1, <1>2, NoFixes
<1> QED BY <1>10, <1>4, <1>5, <1>6, <1>7, <1>8, <1>9 DEF MInv

(* A step about the memory: what has been found out stays as it was.       *)
Settled == UNCHANGED <<report, declared, fixed, results, answers, fixable, rows, index, runs>>

AsBefore ==
  /\ ReportIsGiven' /\ AnswersAreOwn' /\ FixesAreKnown' /\ FeedbackOnlyOrders'
  /\ index' \in 1 .. Len(report') + 1 /\ Len(results') <= Len(Looked') /\ runs' \in 0 .. MaxRuns
  /\ Discussed' = Discussed /\ fixable' \subseteq Findings' /\ Discussed \subseteq Findings
  /\ \A i : EntryFor(i)' = EntryFor(i)
  /\ \A e, i : Covers(e, i)' <=> Covers(e, i)
  /\ \A i : FindsItself(report[i].path)' <=> FindsItself(report[i].path)

(* Such a step keeps what has been found out.                              *)
LEMMA MSettled ==
  ASSUME MInv, Settled, at # "none",
         at' = at \/ (at \in {"record", "truncate", "write"} /\ at' \in {"truncate", "write", "rows"})
  PROVE  AsBefore
<1>1. ReportIsGiven /\ AnswersAreOwn /\ FeedbackOnlyOrders /\ PreflightTypeOK
  BY DEF MInv
<1>2. /\ Looked' = Looked /\ Findings' = Findings /\ Discussed' = Discussed
      /\ at' # "none" /\ (Active' => Active) /\ (at' = "branches" => at = "branches")
      /\ (at' = "searches" => at = "searches") /\ (at' = "done" => at = "done")
  BY DEF Looked, Findings, Discussed, Settled, Active
<1>3. ReportIsGiven'
  BY <1>1, <1>2 DEF ReportIsGiven, Settled
<1>4. AnswersAreOwn'
  BY <1>1, <1>2 DEF AnswersAreOwn, Settled, AskedOpen, AskedHinted, Hinted
<1>5. FeedbackOnlyOrders'
  BY <1>1, <1>2 DEF FeedbackOnlyOrders, Settled, Verdict, PlaceOf
<1>6. FixesAreKnown'
  <2>1. Checked' = Checked
    BY <1>2 DEF Checked, Settled
  <2> QED BY <2>1, FixesStay DEF MInv, Settled
<1>7. \A i : FindsItself(report[i].path)' <=> FindsItself(report[i].path)
  BY DEF Settled
<1> QED BY <1>1, <1>2, <1>3, <1>4, <1>5, <1>6, <1>7, ResultFacts
   DEF AsBefore, PreflightTypeOK, Settled, EntryFor, Covers

(* What is discussed upstream is in the memory, or in what is about to be  *)
(* written.                                                                *)
LEMMA MRecordsDiscussed == MInv /\ RecordsDiscussed => MInv'
<1> SUFFICES ASSUME MInv, RecordsDiscussed PROVE MInv'
  OBVIOUS
<1> DEFINE before == memory.entries
           after  == WithDiscussed(before)
           S      == Range(before) \cup {EntryFor(i) : i \in Discussed}
<1>1. /\ ReportIsGiven /\ PreflightTypeOK /\ AnswersAreOwn /\ MemoryIsKnown /\ OneWriter
      /\ Settled /\ at = "record" /\ at' \in {"rows", "truncate"}
      /\ UNCHANGED <<report, overlapping, memory, declared, adder, adding, kills, kept>>
  BY DEF MInv, RecordsDiscussed, Settled
<1>2. \/ after = before /\ at' = "rows" /\ told' = told \cup Discussed /\ pending' = pending
      \/ at' = "truncate" /\ pending' = after /\ told' = told
  BY DEF RecordsDiscussed, LoadMemory
<1>3. /\ ReportIsGiven' /\ AnswersAreOwn' /\ FixesAreKnown' /\ FeedbackOnlyOrders'
      /\ index' \in 1 .. Len(report') + 1 /\ Len(results') <= Len(Looked') /\ runs' \in 0 .. MaxRuns
      /\ Discussed' = Discussed /\ fixable' \subseteq Findings' /\ Discussed \subseteq Findings
      /\ \A i : EntryFor(i)' = EntryFor(i)
      /\ \A e, i : Covers(e, i)' <=> Covers(e, i)
      /\ \A i : FindsItself(report[i].path)' <=> FindsItself(report[i].path)
  <2>1. AsBefore
    BY <1>1, MSettled
  <2> QED BY <2>1 DEF AsBefore
<1>4. before \in Seq(S) /\ results \in Seq(LookupStatuses)
  <2>1. before \in Seq(Range(before)) /\ Range(before) \subseteq S
    BY <1>1 DEF MemoryIsKnown, IsList
  <2> HIDE DEF before, S
  <2>2. before \in Seq(S)
    BY <2>1, WiderList
  <2> QED BY <2>2, <1>1 DEF AnswersAreOwn
<1>5. /\ after \in Seq(S)
      /\ \A k \in DOMAIN before : \E l \in DOMAIN after : after[l] = before[k]
      /\ \A i \in Discussed : \E l \in DOMAIN after : SameEntry(after[l], EntryFor(i))
  <2>1. \A i \in Discussed : EntryFor(i) \in S
    OBVIOUS
  <2> HIDE DEF before, S
  <2> QED BY <1>4, <2>1, WithDiscussedFacts
<1>6. Findings' = Findings
  BY <1>1 DEF Findings
<1>7. PreflightTypeOK'
  BY <1>1, <1>2, <1>3, <1>6 DEF PreflightTypeOK
<1>8. CASE after = before /\ at' = "rows" /\ told' = told \cup Discussed /\ pending' = pending
  <2>1. ASSUME Undisturbed, NEW i \in Discussed, FindsItself(report[i].path)
        PROVE  \E e \in kept : Covers(e, i)
    <3>1. PICK l \in DOMAIN before : SameEntry(before[l], EntryFor(i))
      BY <1>5, <1>8, <2>1
    <3>2. before[l] \in kept
      BY <1>1, <2>1 DEF MemoryIsKnown, Range
    <3>3. Covers(before[l], i)
      BY <1>1, <1>3, <2>1, <3>1, SameEntryCovers DEF ReportIsGiven
    <3> QED BY <3>2, <3>3
  <2>2. MemoryIsKnown'
    BY <1>1, <1>3, <1>8, <2>1 DEF MemoryIsKnown, IsList, Range, Undisturbed
  <2>3. told' \ Discussed' = told \ Discussed
    BY <1>3, <1>8
  <2>4. OneWriter'
    BY <1>1, <1>3, <1>8, <2>3 DEF OneWriter, Active, Undisturbed, Range
  <2> QED BY <1>3, <1>7, <2>2, <2>4 DEF MInv
<1>9. CASE at' = "truncate" /\ pending' = after /\ told' = told
  <2>1. IsList(pending)'
    <3>1. IsList(after)
      BY <1>5, ListOfItsOwn
    <3> QED BY <1>9, <3>1 DEF IsList, Range
  <2>2. \A i \in Discussed' : \E k \in DOMAIN pending' : SameEntry(pending'[k], EntryFor(i)')
    BY <1>3, <1>5, <1>9
  <2>3. MemoryIsKnown'
    BY <1>1, <1>3, <1>9, <2>1, <2>2 DEF MemoryIsKnown, IsList, Range, Undisturbed
  <2>4. Range(before) \subseteq Range(after)
    BY <1>4, <1>5, ListIncludes
  <2>5. ASSUME Undisturbed' PROVE kept' \subseteq Range(pending') /\ adder' = "idle"
    BY <1>1, <1>9, <2>4, <2>5 DEF OneWriter, Undisturbed, Active, Range
  <2>6. ASSUME Undisturbed' PROVE at' # "write" /\ adder' # "write" /\ kept' \subseteq Range(memory.entries)'
    BY <1>1, <1>9, <2>5, <2>6 DEF OneWriter, Undisturbed, Range
  <2>7. (~overlapping => ~Active \/ at = "done" \/ adder = "idle")'
    BY <1>1 DEF OneWriter, Active
  <2>8. ASSUME Undisturbed', Active', NEW i \in told' \ Discussed', FindsItself(report[i].path)'
        PROVE  \E k \in DOMAIN declared' : Covers(declared[k], i)'
    BY <1>1, <1>3, <1>9, <2>8 DEF OneWriter, Undisturbed, Active
  <2>9. OneWriter'
    BY <2>5, <2>6, <2>7, <2>8 DEF OneWriter, Range
  <2> QED BY <1>3, <1>7, <2>3, <2>9 DEF MInv
<1> QED BY <1>2, <1>8, <1>9

(* A file that is truncated has no entries.                                *)
LEMMA MTruncates == MInv /\ Truncates => MInv'
<1> SUFFICES ASSUME MInv, Truncates PROVE MInv'
  OBVIOUS
<1>1. /\ ReportIsGiven /\ PreflightTypeOK /\ AnswersAreOwn /\ MemoryIsKnown /\ OneWriter
      /\ Settled /\ at = "truncate" /\ at' = "write" /\ memory' = EmptiedFile
      /\ UNCHANGED <<report, overlapping, declared, pending, told, adder, adding, kills, kept>>
  BY DEF MInv, Truncates, Settled, runVars
<1>2. /\ ReportIsGiven' /\ AnswersAreOwn' /\ FixesAreKnown' /\ FeedbackOnlyOrders'
      /\ index' \in 1 .. Len(report') + 1 /\ Len(results') <= Len(Looked') /\ runs' \in 0 .. MaxRuns
      /\ Discussed' = Discussed /\ fixable' \subseteq Findings' /\ Discussed \subseteq Findings
      /\ \A i : EntryFor(i)' = EntryFor(i)
      /\ \A e, i : Covers(e, i)' <=> Covers(e, i)
      /\ \A i : FindsItself(report[i].path)' <=> FindsItself(report[i].path)
  <2>1. AsBefore
    BY <1>1, MSettled
  <2> QED BY <2>1 DEF AsBefore
<1>3. memory'.state = "empty" /\ memory'.entries = <<>>
  BY <1>1 DEF EmptiedFile
<1>4. PreflightTypeOK'
  BY <1>1, <1>2, <1>3 DEF PreflightTypeOK, Findings
<1>5. IsList(memory.entries)' /\ Range(memory.entries)' = {}
  BY <1>3, EmptyList DEF IsList, Range
<1>6. MemoryIsKnown'
  BY <1>1, <1>2, <1>5 DEF MemoryIsKnown, IsList, Range, Undisturbed
<1>7. OneWriter'
  <2>1. (~overlapping => ~Active \/ at = "done" \/ adder = "idle")'
    BY <1>1 DEF OneWriter, Active
  <2>2. ASSUME Undisturbed' PROVE adder' = "idle" /\ kept' \subseteq Range(pending')
    BY <1>1, <2>2 DEF OneWriter, Undisturbed, Active, Range
  <2>3. ASSUME Undisturbed', Active', NEW i \in told' \ Discussed', FindsItself(report[i].path)'
        PROVE  \E k \in DOMAIN declared' : Covers(declared[k], i)'
    BY <1>1, <1>2, <2>3 DEF OneWriter, Undisturbed, Active
  <2> QED BY <1>1, <2>1, <2>2, <2>3 DEF OneWriter, Range
<1> QED BY <1>2, <1>4, <1>6, <1>7 DEF MInv

(* What a preflight has written has all that was kept, unless it was       *)
(* disturbed.                                                              *)
LEMMA MWrites == MInv /\ Writes => MInv'
<1> SUFFICES ASSUME MInv, Writes PROVE MInv'
  OBVIOUS
<1>1. /\ ReportIsGiven /\ PreflightTypeOK /\ AnswersAreOwn /\ MemoryIsKnown /\ OneWriter
      /\ Settled /\ at = "write" /\ at' = "rows" /\ memory' \in Overwritten(memory, pending)
      /\ kept' = kept \cup Range(pending) /\ told' = told \cup Discussed
      /\ UNCHANGED <<report, overlapping, declared, pending, adder, adding, kills>>
  BY DEF MInv, Writes, Settled, runVars
<1>2. /\ ReportIsGiven' /\ AnswersAreOwn' /\ FixesAreKnown' /\ FeedbackOnlyOrders'
      /\ index' \in 1 .. Len(report') + 1 /\ Len(results') <= Len(Looked') /\ runs' \in 0 .. MaxRuns
      /\ Discussed' = Discussed /\ fixable' \subseteq Findings' /\ Discussed \subseteq Findings
      /\ \A i : EntryFor(i)' = EntryFor(i)
      /\ \A e, i : Covers(e, i)' <=> Covers(e, i)
      /\ \A i : FindsItself(report[i].path)' <=> FindsItself(report[i].path)
  <2>1. AsBefore
    BY <1>1, MSettled
  <2> QED BY <2>1 DEF AsBefore
<1>3. IsMemory(memory') /\ (memory = EmptiedFile => memory'.entries = pending)
  <2> DEFINE after == memory'
  <2>1. after \in Overwritten(memory, pending) /\ IsList(pending)
    BY <1>1 DEF MemoryIsKnown
  <2> HIDE DEF after
  <2>2. IsMemory(after) /\ (memory = EmptiedFile => after.entries = pending)
    BY <2>1, WrittenFacts
  <2> QED BY <2>2 DEF after
<1>4. PreflightTypeOK'
  BY <1>1, <1>2, <1>3 DEF PreflightTypeOK, Findings, IsMemory
<1>5. /\ IsList(memory.entries)' /\ IsList(declared)'
      /\ Undisturbed' => Range(memory.entries)' \subseteq kept' /\ Range(declared)' \subseteq kept'
  <2>1. IsList(memory.entries)' /\ IsList(declared)'
    BY <1>1, <1>3 DEF MemoryIsKnown, IsMemory, IsList, Range
  <2>2. ASSUME Undisturbed' PROVE Undisturbed /\ memory'.entries = pending
    BY <1>1, <1>3, <2>2 DEF OneWriter, Undisturbed
  <2> QED BY <1>1, <2>1, <2>2 DEF MemoryIsKnown, Range
<1>6. MemoryIsKnown'
  <2>1. ASSUME NEW i \in Discussed, FindsItself(report[i].path) PROVE \E e \in Range(pending) : Covers(e, i)
    <3>1. PICK l \in DOMAIN pending : SameEntry(pending[l], EntryFor(i))
      BY <1>1, <2>1 DEF MemoryIsKnown
    <3>2. pending[l] \in Range(pending)
      BY <3>1 DEF Range
    <3>3. Covers(pending[l], i)
      BY <1>1, <1>2, <2>1, <3>1, SameEntryCovers DEF ReportIsGiven
    <3> QED BY <3>2, <3>3
  <2>2. Undisturbed' => \A i \in told' : FindsItself(report[i].path)' => \E e \in kept' : Covers(e, i)'
    BY <1>1, <1>2, <2>1 DEF MemoryIsKnown, Undisturbed
  <2>3. IsList(pending)' /\ IsList(adding)'
    BY <1>1 DEF MemoryIsKnown, IsList, Range
  <2> QED BY <1>1, <1>5, <2>2, <2>3 DEF MemoryIsKnown
<1>7. OneWriter'
  <2>1. (~overlapping => ~Active \/ at = "done" \/ adder = "idle")'
    BY <1>1 DEF OneWriter, Active
  <2>2. ASSUME Undisturbed'
        PROVE  /\ adder' = "idle" /\ memory = EmptiedFile /\ kept \subseteq Range(pending)
    BY <1>1, <2>2 DEF OneWriter, Undisturbed, Active
  <2>3. ASSUME Undisturbed' PROVE kept' \subseteq Range(memory.entries)'
    BY <1>1, <1>3, <2>2, <2>3 DEF Range
  <2>4. told' \ Discussed' = told \ Discussed
    BY <1>1, <1>2
  <2>5. ASSUME Undisturbed', NEW i \in told' \ Discussed', FindsItself(report[i].path)'
        PROVE  \E k \in DOMAIN declared' : Covers(declared[k], i)'
    BY <1>1, <1>2, <2>4, <2>5 DEF OneWriter, Undisturbed, Active
  <2> QED BY <1>1, <2>1, <2>2, <2>3, <2>5 DEF OneWriter
<1> QED BY <1>2, <1>4, <1>6, <1>7 DEF MInv

(* "intent add" is about to write all that it has read.                    *)
LEMMA MAddLoads == ASSUME MInv, NEW d \in UserEntries, AddLoads(d) PROVE MInv'
<1>1. /\ ReportIsGiven /\ PreflightTypeOK /\ AnswersAreOwn /\ MemoryIsKnown /\ OneWriter
      /\ Settled /\ at # "none" /\ at' = at /\ adder = "idle" /\ MayStart
      /\ adding' = WithEntry(memory.entries, d) /\ adder' = "truncate"
      /\ UNCHANGED <<report, overlapping, memory, declared, pending, told, kills, kept>>
  BY DEF MInv, AddLoads, Settled, runVars, LoadMemory
<1>2. /\ ReportIsGiven' /\ AnswersAreOwn' /\ FixesAreKnown' /\ FeedbackOnlyOrders'
      /\ index' \in 1 .. Len(report') + 1 /\ Len(results') <= Len(Looked') /\ runs' \in 0 .. MaxRuns
      /\ Discussed' = Discussed /\ fixable' \subseteq Findings' /\ Discussed \subseteq Findings
      /\ \A i : EntryFor(i)' = EntryFor(i)
      /\ \A e, i : Covers(e, i)' <=> Covers(e, i)
      /\ \A i : FindsItself(report[i].path)' <=> FindsItself(report[i].path)
  <2>1. AsBefore
    BY <1>1, MSettled
  <2> QED BY <2>1 DEF AsBefore
<1>3. IsList(adding)' /\ Range(memory.entries) \subseteq Range(adding')
  <2> DEFINE s == memory.entries
             t == adding'
             S == Range(s) \cup {d}
  <2>1. s \in Seq(Range(s)) /\ Range(s) \subseteq S
    BY <1>1 DEF MemoryIsKnown, IsList
  <2>2. d \in S /\ t = WithEntry(s, d)
    BY <1>1
  <2> HIDE DEF s, t, S
  <2>3. s \in Seq(S)
    BY <2>1, WiderList
  <2>4. t \in Seq(S)
    BY <2>2, <2>3, WithEntryFacts
  <2>5. \A k \in DOMAIN s : \E l \in DOMAIN t : t[l] = s[k]
    BY <2>2, <2>3, WithEntryFacts
  <2>6. IsList(t)
    BY <2>4, ListOfItsOwn
  <2>7. Range(s) \subseteq Range(t)
    BY <2>3, <2>5, ListIncludes
  <2> QED BY <2>6, <2>7 DEF s, t, IsList, Range
<1>4. PreflightTypeOK'
  BY <1>1, <1>2 DEF PreflightTypeOK, Findings
<1>5. MemoryIsKnown'
  BY <1>1, <1>2, <1>3 DEF MemoryIsKnown, IsList, Range, Undisturbed
<1>6. OneWriter'
  <2>1. overlapping \/ at \in {"idle", "done"}
    BY <1>1 DEF MayStart
  <2>2. ASSUME Undisturbed' PROVE kept' \subseteq Range(memory.entries) /\ at' \notin {"truncate", "write"}
    BY <1>1, <2>1, <2>2 DEF OneWriter, Undisturbed
  <2>3. ASSUME Undisturbed' PROVE kept' \subseteq Range(adding') /\ kept' \subseteq Range(memory.entries)'
    BY <1>1, <1>3, <2>2, <2>3 DEF Range
  <2>4. ASSUME Undisturbed', Active', NEW i \in told' \ Discussed', FindsItself(report[i].path)'
        PROVE  \E k \in DOMAIN declared' : Covers(declared[k], i)'
    BY <1>1, <1>2, <2>4 DEF OneWriter, Undisturbed, Active
  <2>5. (~overlapping => ~Active \/ at = "done" \/ adder = "idle")'
    BY <1>1, <2>1 DEF Active
  <2> QED BY <1>1, <2>2, <2>3, <2>4, <2>5 DEF OneWriter
<1> QED BY <1>2, <1>4, <1>5, <1>6 DEF MInv

(* A file that is truncated has no entries.                                *)
LEMMA MAddTruncates == MInv /\ AddTruncates => MInv'
<1> SUFFICES ASSUME MInv, AddTruncates PROVE MInv'
  OBVIOUS
<1>1. /\ ReportIsGiven /\ PreflightTypeOK /\ AnswersAreOwn /\ MemoryIsKnown /\ OneWriter
      /\ Settled /\ adder = "truncate" /\ adder' = "write" /\ at' = at /\ memory' = EmptiedFile
      /\ UNCHANGED <<report, overlapping, declared, pending, told, adding, kills, kept>>
  BY DEF MInv, AddTruncates, Settled, runVars
<1>2. at # "none"
  BY <1>1 DEF ReportIsGiven
<1>3. /\ ReportIsGiven' /\ AnswersAreOwn' /\ FixesAreKnown' /\ FeedbackOnlyOrders'
      /\ index' \in 1 .. Len(report') + 1 /\ Len(results') <= Len(Looked') /\ runs' \in 0 .. MaxRuns
      /\ Discussed' = Discussed /\ fixable' \subseteq Findings' /\ Discussed \subseteq Findings
      /\ \A i : EntryFor(i)' = EntryFor(i)
      /\ \A e, i : Covers(e, i)' <=> Covers(e, i)
      /\ \A i : FindsItself(report[i].path)' <=> FindsItself(report[i].path)
  <2>1. AsBefore
    BY <1>1, <1>2, MSettled
  <2> QED BY <2>1 DEF AsBefore
<1>4. memory'.state = "empty" /\ memory'.entries = <<>>
  BY <1>1 DEF EmptiedFile
<1>5. PreflightTypeOK'
  BY <1>1, <1>3, <1>4 DEF PreflightTypeOK, Findings
<1>6. IsList(memory.entries)' /\ Range(memory.entries)' = {}
  BY <1>4, EmptyList DEF IsList, Range
<1>7. MemoryIsKnown'
  BY <1>1, <1>3, <1>6 DEF MemoryIsKnown, IsList, Range, Undisturbed
<1>8. OneWriter'
  <2>1. ~overlapping => ~Active \/ at = "done"
    BY <1>1 DEF OneWriter
  <2>2. ASSUME Undisturbed' PROVE kept' \subseteq Range(adding') /\ at' \notin {"truncate", "write"}
    BY <1>1, <2>1, <2>2 DEF OneWriter, Undisturbed, Range, Active
  <2>3. ASSUME Undisturbed', Active', NEW i \in told' \ Discussed', FindsItself(report[i].path)'
        PROVE  \E k \in DOMAIN declared' : Covers(declared[k], i)'
    BY <1>1, <1>3, <2>3 DEF OneWriter, Undisturbed, Active
  <2>4. (~overlapping => ~Active \/ at = "done" \/ adder = "idle")'
    BY <1>1, <2>1 DEF Active
  <2> QED BY <1>1, <2>2, <2>3, <2>4 DEF OneWriter, Range
<1> QED BY <1>3, <1>5, <1>7, <1>8 DEF MInv

(* What "intent add" has written has all that was kept, unless it was      *)
(* disturbed.                                                              *)
LEMMA MAddWrites == MInv /\ AddWrites => MInv'
<1> SUFFICES ASSUME MInv, AddWrites PROVE MInv'
  OBVIOUS
<1>1. /\ ReportIsGiven /\ PreflightTypeOK /\ AnswersAreOwn /\ MemoryIsKnown /\ OneWriter
      /\ Settled /\ adder = "write" /\ adder' = "idle" /\ at' = at /\ memory' \in Overwritten(memory, adding)
      /\ kept' = kept \cup Range(adding) /\ told' = told /\ adding' = <<>>
      /\ UNCHANGED <<report, overlapping, declared, pending, kills>>
  BY DEF MInv, AddWrites, Settled, runVars
<1>2. at # "none"
  BY <1>1 DEF ReportIsGiven
<1>3. /\ ReportIsGiven' /\ AnswersAreOwn' /\ FixesAreKnown' /\ FeedbackOnlyOrders'
      /\ index' \in 1 .. Len(report') + 1 /\ Len(results') <= Len(Looked') /\ runs' \in 0 .. MaxRuns
      /\ Discussed' = Discussed /\ fixable' \subseteq Findings' /\ Discussed \subseteq Findings
      /\ \A i : EntryFor(i)' = EntryFor(i)
      /\ \A e, i : Covers(e, i)' <=> Covers(e, i)
      /\ \A i : FindsItself(report[i].path)' <=> FindsItself(report[i].path)
  <2>1. AsBefore
    BY <1>1, <1>2, MSettled
  <2> QED BY <2>1 DEF AsBefore
<1>4. IsMemory(memory') /\ (memory = EmptiedFile => memory'.entries = adding)
  <2> DEFINE after == memory'
  <2>1. after \in Overwritten(memory, adding) /\ IsList(adding)
    BY <1>1 DEF MemoryIsKnown
  <2> HIDE DEF after
  <2>2. IsMemory(after) /\ (memory = EmptiedFile => after.entries = adding)
    BY <2>1, WrittenFacts
  <2> QED BY <2>2 DEF after
<1>5. PreflightTypeOK'
  BY <1>1, <1>3, <1>4 DEF PreflightTypeOK, Findings, IsMemory
<1>6. /\ IsList(memory.entries)' /\ IsList(declared)'
      /\ Undisturbed' => Range(memory.entries)' \subseteq kept' /\ Range(declared)' \subseteq kept'
  <2>1. IsList(memory.entries)' /\ IsList(declared)'
    BY <1>1, <1>4 DEF MemoryIsKnown, IsMemory, IsList, Range
  <2>2. ASSUME Undisturbed' PROVE Undisturbed /\ memory'.entries = adding
    BY <1>1, <1>4, <2>2 DEF OneWriter, Undisturbed
  <2> QED BY <1>1, <2>1, <2>2 DEF MemoryIsKnown, Range
<1>7. MemoryIsKnown'
  <2>1. Undisturbed' => \A i \in told' : FindsItself(report[i].path)' => \E e \in kept' : Covers(e, i)'
    BY <1>1, <1>3 DEF MemoryIsKnown, Undisturbed
  <2>2. IsList(pending)'
    BY <1>1 DEF MemoryIsKnown, IsList, Range
  <2>3. IsList(adding)'
    BY <1>1, EmptyList DEF IsList
  <2>4. at' \in {"truncate", "write"} =>
          \A i \in Discussed' : \E k \in DOMAIN pending' : SameEntry(pending'[k], EntryFor(i)')
    BY <1>1, <1>3 DEF MemoryIsKnown
  <2> QED BY <1>1, <1>6, <2>1, <2>2, <2>3, <2>4 DEF MemoryIsKnown
<1>8. OneWriter'
  <2>1. ~overlapping => ~Active \/ at = "done"
    BY <1>1 DEF OneWriter
  <2>2. ASSUME Undisturbed'
        PROVE  memory = EmptiedFile /\ kept \subseteq Range(adding) /\ at' \notin {"truncate", "write"}
    BY <1>1, <2>1, <2>2 DEF OneWriter, Undisturbed, Active
  <2>3. ASSUME Undisturbed' PROVE kept' \subseteq Range(memory.entries)'
    BY <1>1, <1>4, <2>2, <2>3 DEF Range
  <2>4. ASSUME Undisturbed', Active', NEW i \in told' \ Discussed', FindsItself(report[i].path)'
        PROVE  \E k \in DOMAIN declared' : Covers(declared[k], i)'
    BY <1>1, <1>3, <2>4 DEF OneWriter, Undisturbed, Active
  <2> QED BY <1>1, <2>2, <2>3, <2>4 DEF OneWriter
<1> QED BY <1>3, <1>5, <1>7, <1>8 DEF MInv

(* After a command was killed nothing is said of what is in the memory.    *)
LEMMA MAddKilled == MInv /\ AddKilled => MInv'
<1> SUFFICES ASSUME MInv, AddKilled PROVE MInv'
  OBVIOUS
<1>1. /\ ReportIsGiven /\ PreflightTypeOK /\ AnswersAreOwn /\ MemoryIsKnown /\ OneWriter
      /\ Settled /\ adder # "idle" /\ adder' = "idle" /\ at' = at /\ adding' = <<>>
      /\ kills < MaxKills /\ kills' = kills + 1
      /\ UNCHANGED <<report, overlapping, declared, pending, told, kept>>
  BY DEF MInv, AddKilled, Settled, runVars
<1>2. at # "none"
  BY <1>1 DEF ReportIsGiven
<1>3. /\ ReportIsGiven' /\ AnswersAreOwn' /\ FixesAreKnown' /\ FeedbackOnlyOrders'
      /\ index' \in 1 .. Len(report') + 1 /\ Len(results') <= Len(Looked') /\ runs' \in 0 .. MaxRuns
      /\ Discussed' = Discussed /\ fixable' \subseteq Findings' /\ Discussed \subseteq Findings
      /\ \A i : EntryFor(i)' = EntryFor(i)
      /\ \A e, i : Covers(e, i)' <=> Covers(e, i)
      /\ \A i : FindsItself(report[i].path)' <=> FindsItself(report[i].path)
  <2>1. AsBefore
    BY <1>1, <1>2, MSettled
  <2> QED BY <2>1 DEF AsBefore
<1>4. kills' \in 0 .. MaxKills /\ kills' # 0
  <2>1. MaxKills \in Nat /\ kills \in 0 .. MaxKills /\ kills < MaxKills /\ kills' = kills + 1
    BY <1>1, PreflightAssumption DEF PreflightTypeOK
  <2> QED BY <2>1
<1>8. IsMemory(memory')
  <2> DEFINE after == memory'
  <2>1. after = memory \/ after \in PartlyWritten(memory, adding)
    BY DEF AddKilled
  <2>2. IsMemory(memory) /\ IsList(adding)
    BY <1>1 DEF PreflightTypeOK, MemoryIsKnown, IsMemory
  <2> HIDE DEF after
  <2>3. IsMemory(after)
    BY <2>1, <2>2, PartFacts
  <2> QED BY <2>3 DEF after
<1>5. PreflightTypeOK'
  BY <1>1, <1>3, <1>4, <1>8 DEF PreflightTypeOK, Findings, IsMemory
<1>6. MemoryIsKnown'
  <2>1. IsList(adding)'
    BY <1>1, EmptyList DEF IsList
  <2>2. IsList(memory.entries)'
    BY <1>8 DEF IsMemory, IsList, Range
  <2>3. ~Undisturbed'
    BY <1>4 DEF Undisturbed
  <2> QED BY <1>1, <1>3, <2>1, <2>2, <2>3 DEF MemoryIsKnown, IsList, Range
<1>7. OneWriter'
  BY <1>1, <1>4 DEF OneWriter, Undisturbed
<1> QED BY <1>3, <1>5, <1>6, <1>7 DEF MInv

(* A step of something else changes nothing.                               *)
LEMMA MStutters == MInv /\ UNCHANGED preflightVars => MInv'
<1> SUFFICES ASSUME MInv, UNCHANGED preflightVars PROVE MInv'
  OBVIOUS
<1>1. /\ ReportIsGiven /\ PreflightTypeOK /\ AnswersAreOwn /\ MemoryIsKnown /\ OneWriter /\ FeedbackOnlyOrders
      /\ UNCHANGED <<report, overlapping, memory, at, index, declared, fixed, results, pending, rows,
                     answers, fixable, adder, adding, runs, kills, told, kept>>
  BY DEF MInv, preflightVars, runVars
<1>2. /\ Looked' = Looked /\ Findings' = Findings /\ Discussed' = Discussed
      /\ (Undisturbed' => Undisturbed) /\ (Active' <=> Active)
      /\ \A i : EntryFor(i)' = EntryFor(i)
      /\ \A e, i : Covers(e, i)' <=> Covers(e, i)
  BY <1>1 DEF Looked, Findings, Discussed, Undisturbed, Active, EntryFor, Covers
<1>3. PreflightTypeOK' /\ ReportIsGiven'
  BY <1>1, <1>2 DEF PreflightTypeOK, ReportIsGiven
<1>4. AnswersAreOwn'
  BY <1>1, <1>2 DEF AnswersAreOwn, AskedOpen, AskedHinted, Hinted
<1>5. FeedbackOnlyOrders'
  BY <1>1, <1>2 DEF FeedbackOnlyOrders, Verdict, PlaceOf
<1>6. MemoryIsKnown'
  BY <1>1, <1>2 DEF MemoryIsKnown, IsList, Range
<1>7. OneWriter'
  BY <1>1, <1>2 DEF OneWriter, Range
<1>8. FixesAreKnown'
  BY <1>1, <1>2, FixesStay DEF MInv, Checked
<1> QED BY <1>3, <1>4, <1>5, <1>6, <1>7, <1>8 DEF MInv

(* Fractions in the order of their values.                                 *)
LEMMA ProductsGrow ==
  ASSUME NEW x \in Nat, NEW y \in Nat, NEW z \in Nat, x <= y
  PROVE  x * z <= y * z
<1>1. PICK d \in Nat : y = x + d
  <2>1. y - x \in Nat /\ y = x + (y - x)
    OBVIOUS
  <2> QED BY <2>1
<1>2. y * z = x * z + d * z /\ d * z \in Nat /\ x * z \in Nat
  BY <1>1
<1> QED BY <1>2

(* Of two products with a factor in common the smaller has the smaller     *)
(* other one.                                                              *)
LEMMA ProductsShrink ==
  ASSUME NEW x \in Nat, NEW y \in Nat, NEW z \in Nat \ {0}, x * z <= y * z
  PROVE  x <= y
<1>1. SUFFICES ASSUME y < x PROVE FALSE
  OBVIOUS
<1>2. (y + 1) * z <= x * z
  BY <1>1, ProductsGrow
<1>3. (y + 1) * z = y * z + z /\ y * z \in Nat /\ x * z \in Nat
  OBVIOUS
<1> QED BY <1>2, <1>3

(* The order of fractions by cross multiplication is transitive.           *)
LEMMA FractionsAreOrdered ==
  ASSUME NEW a \in Nat, NEW b \in Nat, NEW c \in Nat,
         NEW u \in Nat \ {0}, NEW v \in Nat \ {0}, NEW w \in Nat \ {0},
         a * v <= b * u, b * w <= c * v
  PROVE  a * w <= c * u
<1>1. (a * v) * w <= (b * u) * w
  BY ProductsGrow
<1>2. (b * w) * u <= (c * v) * u
  BY ProductsGrow
<1>3. (a * v) * w = (a * w) * v /\ (b * u) * w = (b * w) * u /\ (c * v) * u = (c * u) * v
  OBVIOUS
<1>4. (a * w) * v <= (c * u) * v
  <2>1. (a * w) * v \in Nat /\ (b * w) * u \in Nat /\ (c * u) * v \in Nat
    OBVIOUS
  <2> QED BY <1>1, <1>2, <1>3, <2>1
<1>5. a * w \in Nat /\ c * u \in Nat
  OBVIOUS
<1> QED BY <1>4, <1>5, ProductsShrink

(* The pairs of a set in the order of a first key, a fraction and a number *)
(* of one's own.                                                           *)
Lexical(S, R, rank, num, den, place) ==
  \A x, y \in S : <<x, y>> \in R <=>
    \/ rank[x] < rank[y]
    \/ /\ rank[x] = rank[y]
       /\ \/ num[x] * den[y] > num[y] * den[x]
          \/ ~(num[y] * den[x] > num[x] * den[y]) /\ place[x] < place[y]

(* A first key, a fraction and a number of one's own, in this order, sort. *)
LEMMA LexicalOrder ==
  ASSUME NEW S, NEW R, NEW rank \in [S -> Nat], NEW num \in [S -> Nat], NEW den \in [S -> Nat \ {0}],
         NEW place \in [S -> Nat], \A x, y \in S : place[x] = place[y] => x = y,
         Lexical(S, R, rank, num, den, place)
  PROVE  IsStrictOrder(S, R)
<1> DEFINE Up(x, y) == num[y] * den[x] <= num[x] * den[y]
<1>0. ASSUME NEW x \in S, NEW y \in S
      PROVE  <<x, y>> \in R <=>
               \/ rank[x] < rank[y]
               \/ /\ rank[x] = rank[y]
                  /\ \/ num[x] * den[y] > num[y] * den[x]
                     \/ ~(num[y] * den[x] > num[x] * den[y]) /\ place[x] < place[y]
  BY DEF Lexical
<1>1. ASSUME NEW x \in S, NEW y \in S
      PROVE  /\ Up(x, y) \/ Up(y, x)
             /\ <<x, y>> \in R <=> \/ rank[x] < rank[y]
                                   \/ rank[x] = rank[y] /\ ~Up(y, x)
                                   \/ rank[x] = rank[y] /\ Up(x, y) /\ place[x] < place[y]
  <2>1. num[x] * den[y] \in Nat /\ num[y] * den[x] \in Nat
    BY <1>1
  <2>2. /\ num[x] * den[y] > num[y] * den[x] <=> ~Up(y, x)
        /\ ~(num[y] * den[x] > num[x] * den[y]) <=> Up(x, y)
    BY <2>1
  <2>3. Up(x, y) \/ Up(y, x)
    BY <2>1
  <2> HIDE DEF Up
  <2> QED BY <1>0, <2>2, <2>3
<1>2. ASSUME NEW x \in S, NEW y \in S, NEW z \in S, Up(x, y), Up(y, z)
      PROVE  Up(x, z)
  BY <1>2, FractionsAreOrdered
<1>3. \A x \in S : rank[x] \in Nat /\ place[x] \in Nat
  OBVIOUS
<1> HIDE DEF Up
<1>4. \A x \in S : <<x, x>> \notin R
  BY <1>1, <1>3
<1>5. ASSUME NEW x \in S, NEW y \in S, x # y PROVE <<x, y>> \in R \/ <<y, x>> \in R
  <2>1. place[x] # place[y]
    BY <1>5
  <2>2. rank[x] < rank[y] \/ rank[x] = rank[y] \/ rank[y] < rank[x]
    BY <1>3
  <2>3. place[x] < place[y] \/ place[y] < place[x]
    BY <1>3, <2>1
  <2> QED BY <1>1, <2>2, <2>3
<1>6. ASSUME NEW x \in S, NEW y \in S, NEW z \in S, <<x, y>> \in R, <<y, z>> \in R PROVE <<x, z>> \in R
  <2>1. rank[x] <= rank[y] /\ rank[y] <= rank[z]
    BY <1>1, <1>3, <1>6
  <2>2. CASE rank[x] < rank[z]
    BY <1>1, <2>2
  <2>3. CASE rank[x] = rank[y] /\ rank[y] = rank[z]
    <3>1. Up(x, y) /\ Up(y, z) /\ Up(x, z)
      BY <1>1, <1>2, <1>3, <1>6, <2>3
    <3>2. CASE ~Up(z, x)
      BY <1>1, <2>3, <3>2
    <3>3. CASE Up(z, x)
      <4>1. Up(y, x) /\ Up(z, y)
        BY <1>2, <3>1, <3>3
      <4>2. place[x] < place[y] /\ place[y] < place[z]
        BY <1>1, <1>3, <1>6, <2>3, <4>1
      <4>3. place[x] < place[z]
        BY <1>3, <4>2
      <4> QED BY <1>1, <2>3, <3>1, <4>3
    <3> QED BY <3>2, <3>3
  <2>4. rank[x] < rank[z] \/ (rank[x] = rank[y] /\ rank[y] = rank[z])
    BY <1>3, <2>1
  <2> QED BY <2>2, <2>3, <2>4
<1> QED BY <1>4, <1>5, <1>6, Zenon DEF IsStrictOrder

(* A prior is a fraction.                                                  *)
LEMMA PriorIsFraction ==
  ASSUME NEW E, NEW events \in Seq(E), NEW rule, NEW language
  PROVE  LET p == PriorFor(events, rule, language) IN p.num \in Nat /\ p.den \in Nat \ {0}
<1>1. ASSUME NEW key PROVE Prior(events, key).num \in Nat /\ Prior(events, key).den \in Nat \ {0}
  <2> DEFINE A == EventsOf(events, key)
             B == {i \in A : events[i].actionable}
  <2>1. DOMAIN events = 1 .. Len(events) /\ Len(events) \in Nat
    OBVIOUS
  <2>2. IsFiniteSet(1 .. Len(events)) /\ A \subseteq 1 .. Len(events) /\ B \subseteq A
    BY <2>1, FS_Interval DEF EventsOf
  <2>3. IsFiniteSet(A)
    BY <2>2, FS_Subset
  <2>4. IsFiniteSet(B)
    BY <2>2, <2>3, FS_Subset
  <2>5. Cardinality(A) \in Nat /\ Cardinality(B) \in Nat
    BY <2>3, <2>4, FS_CardinalityType
  <2>6. Prior(events, key).num = Cardinality(B) + 1 /\ Prior(events, key).den = Cardinality(A) + 2
    BY DEF Prior
  <2> HIDE DEF A, B
  <2> QED BY <2>5, <2>6
<1>2. NoPrior.num \in Nat /\ NoPrior.den \in Nat \ {0}
  BY DEF NoPrior
<1>3. PriorFor(events, rule, language) = NoPrior \/ \E key : PriorFor(events, rule, language) = Prior(events, key)
  BY DEF PriorFor
<1> QED BY <1>1, <1>2, <1>3

(* The rank of a verdict tells which one it is.                            *)
Verdicts == {"already_fixed", "declared", "discussed", "mentioned", "submit"}

(* Every verdict has a rank of its own.                                    *)
LEMMA VerdictFacts ==
  /\ \A i : Verdict(i) \in Verdicts
  /\ \A v \in Verdicts : VerdictRank(v) \in Nat
  /\ \A v, w \in Verdicts : VerdictRank(v) = VerdictRank(w) => v = w
<1>1. ASSUME NEW i PROVE Verdict(i) \in Verdicts
  <2> DEFINE status == IF i \in DOMAIN results THEN results[i] ELSE "none"
             known  == MatchingEntries(declared, report[i].rule, report[i].path) # <<>>
  <2>1. Verdict(i) = IF PlaceOf(i) \in fixed THEN "already_fixed" ELSE IF known THEN "declared"
                     ELSE IF status \in {"discussed", "mentioned"} THEN status ELSE "submit"
    BY DEF Verdict
  <2> HIDE DEF status, known
  <2> QED BY <2>1 DEF Verdicts
<1>2. /\ VerdictRank("already_fixed") = 0 /\ VerdictRank("declared") = 1 /\ VerdictRank("discussed") = 2
      /\ VerdictRank("mentioned") = 3 /\ VerdictRank("submit") = 4
  BY DEF VerdictRank
<1>3. \A v \in Verdicts : VerdictRank(v) \in Nat
  BY <1>2 DEF Verdicts
<1>4. \A v, w \in Verdicts : VerdictRank(v) = VerdictRank(w) => v = w
  BY <1>2 DEF Verdicts
<1> QED BY <1>1, <1>3, <1>4

(* The verdicts of a report, whatever the feedback, can be sorted.         *)
RowsInOrder == [i \in Findings |-> [finding |-> i, verdict |-> Verdict(i)]]
RowOrder(events) == {p \in Range(RowsInOrder) \X Range(RowsInOrder) : RowBefore(events, p[1], p[2])}

(* The rows are as many as the findings, and their order is strict.        *)
LEMMA RowsAreOrdered ==
  ASSUME report \in Seq(ReportedFinding), NEW events \in EventLogs
  PROVE  /\ IsFiniteSet(Range(RowsInOrder)) /\ Cardinality(Range(RowsInOrder)) = Len(report)
         /\ IsStrictOrder(Range(RowsInOrder), RowOrder(events))
         /\ \A x \in Range(RowsInOrder) : x.finding \in Findings /\ x.verdict = Verdict(x.finding)
         /\ \A i \in Findings : \E x \in Range(RowsInOrder) : x.finding = i
<1> DEFINE S == Range(RowsInOrder)
           rank  == [x \in S |-> VerdictRank(x.verdict)]
           num   == [x \in S |-> Score(events, x.finding).num]
           den   == [x \in S |-> Score(events, x.finding).den]
           place == [x \in S |-> x.finding]
<1>1. Findings = 1 .. Len(report) /\ Len(report) \in Nat
  BY LookedFacts
<1>2. \A x \in S : x.finding \in Findings /\ x.verdict = Verdict(x.finding) /\ RowsInOrder[x.finding] = x
  BY DEF Range, RowsInOrder
<1>3. \A i \in Findings : RowsInOrder[i] \in S /\ RowsInOrder[i].finding = i
  BY DEF Range, RowsInOrder
<1>4. IsFiniteSet(S) /\ Cardinality(S) = Len(report)
  <2>1. IsFiniteSet(Findings) /\ Cardinality(Findings) = Len(report)
    BY <1>1, FS_Interval
  <2>2. RowsInOrder \in [Findings -> S]
    BY <1>3 DEF RowsInOrder
  <2>3. /\ \A i, j \in Findings : RowsInOrder[i] = RowsInOrder[j] => i = j
        /\ \A x \in S : \E i \in Findings : RowsInOrder[i] = x
    BY <1>2, <1>3
  <2> HIDE DEF S
  <2>4. RowsInOrder \in Injection(Findings, S)
    BY <2>2, <2>3 DEF Injection, IsInjective
  <2>5. RowsInOrder \in Surjection(Findings, S)
    BY <2>2, <2>3 DEF Surjection
  <2> QED BY <2>1, <2>4, <2>5, FS_Bijection DEF ExistsBijection, Bijection
<1>5. events \in Seq(RecordedEvent)
  BY PreflightAssumption
<1>6. rank \in [S -> Nat] /\ place \in [S -> Nat]
  <2>1. \A x \in S : VerdictRank(x.verdict) \in Nat /\ x.finding \in Nat
    BY <1>1, <1>2, VerdictFacts
  <2> HIDE DEF S
  <2> QED BY <2>1
<1>7. num \in [S -> Nat] /\ den \in [S -> Nat \ {0}]
  <2>1. \A i : Score(events, i).num \in Nat /\ Score(events, i).den \in Nat \ {0}
    BY <1>5, PriorIsFraction DEF Score
  <2> HIDE DEF S
  <2> QED BY <2>1
<1>8. \A x, y \in S : place[x] = place[y] => x = y
  BY <1>2
<1>9. ASSUME NEW x \in S, NEW y \in S
      PROVE  <<x, y>> \in RowOrder(events) <=>
               \/ rank[x] < rank[y]
               \/ /\ rank[x] = rank[y]
                  /\ \/ num[x] * den[y] > num[y] * den[x]
                     \/ ~(num[y] * den[x] > num[x] * den[y]) /\ place[x] < place[y]
  <2>1. <<x, y>> \in RowOrder(events) <=> RowBefore(events, x, y)
    BY DEF RowOrder
  <2>2. x.verdict = y.verdict <=> rank[x] = rank[y]
    BY <1>2, VerdictFacts
  <2>3. /\ rank[x] = VerdictRank(x.verdict) /\ rank[y] = VerdictRank(y.verdict)
        /\ num[x] = Score(events, x.finding).num /\ num[y] = Score(events, y.finding).num
        /\ den[x] = Score(events, x.finding).den /\ den[y] = Score(events, y.finding).den
        /\ place[x] = x.finding /\ place[y] = y.finding
    OBVIOUS
  <2> HIDE DEF rank, num, den, place
  <2> QED BY <2>1, <2>2, <2>3 DEF RowBefore, Above
<1>10. IsStrictOrder(S, RowOrder(events))
  <2> DEFINE R == RowOrder(events)
  <2>1. Lexical(S, R, rank, num, den, place)
    BY <1>9, Zenon DEF Lexical
  <2> HIDE DEF S, R, rank, num, den, place
  <2>2. IsStrictOrder(S, R)
    BY <1>6, <1>7, <1>8, <2>1, LexicalOrder
  <2> QED BY <2>2 DEF R
<1> QED BY <1>2, <1>3, <1>4, <1>10

(* The rows that one preflight shows.                                      *)
LEMMA MRows ==
  ASSUME MInv, NEW ranking \in BOOLEAN, NEW events \in EventLogs, Rows(ranking, events)
  PROVE  MInv'
<1>1. /\ ReportIsGiven /\ PreflightTypeOK /\ AnswersAreOwn /\ Held /\ at = "rows" /\ at' = "done"
      /\ UNCHANGED <<results, answers, fixed, fixable, index, runs>>
      /\ rows' = IF ~ranking THEN RowsInOrder ELSE Sorted(Range(RowsInOrder), RowOrder(events))
  BY DEF MInv, Rows, Held, RowsInOrder, RowOrder
<1>2. /\ Looked' = Looked /\ Findings' = Findings /\ report' = report /\ Discussed' = Discussed
      /\ Active /\ Active' /\ report \in Seq(ReportedFinding) /\ \A i : Verdict(i)' = Verdict(i)
  BY <1>1 DEF Looked, Findings, Held, Discussed, Active, Verdict, PlaceOf, ReportIsGiven
<1>3. PreflightTypeOK'
  BY <1>1, <1>2 DEF PreflightTypeOK, Held
<1>4. ReportIsGiven'
  BY <1>1, <1>2 DEF ReportIsGiven, Held
<1>5. AnswersAreOwn'
  BY <1>1, <1>2 DEF AnswersAreOwn, Held, AskedOpen, AskedHinted, Hinted
<1>6. MemoryIsKnown' /\ OneWriter'
  BY <1>1, <1>2, HeldMemory DEF Asking
<1>10. FixesAreKnown'
  BY <1>1, <1>2, FixesStay DEF MInv, Checked
<1>7. Findings = 1 .. Len(report) /\ Len(report) \in Nat
  BY <1>2, LookedFacts
<1>8. CASE ~ranking
  <2>1. rows' = RowsInOrder
    BY <1>1, <1>8
  <2>2. /\ DOMAIN RowsInOrder = Findings
        /\ \A k \in Findings : RowsInOrder[k].finding = k /\ RowsInOrder[k].verdict = Verdict(k)
    BY DEF RowsInOrder
  <2>3. Len(RowsInOrder) = Len(report)
    BY <1>7, <2>2
  <2>4. {RowsInOrder[k].finding : k \in DOMAIN RowsInOrder} = Findings
    BY <2>2
  <2>5. FeedbackOnlyOrders'
    BY <1>2, <2>1, <2>2, <2>3, <2>4 DEF FeedbackOnlyOrders
  <2> QED BY <1>10, <1>3, <1>4, <1>5, <1>6, <2>5 DEF MInv
<1>9. CASE ranking
  <2> DEFINE S == Range(RowsInOrder)
             R == RowOrder(events)
             n == Len(report)
             s == rows'
  <2>1. s = Sorted(S, R)
    BY <1>1, <1>9
  <2>2. /\ IsFiniteSet(S) /\ Cardinality(S) = n /\ IsStrictOrder(S, R)
        /\ \A x \in S : x.finding \in Findings /\ x.verdict = Verdict(x.finding)
        /\ \A i \in Findings : \E x \in S : x.finding = i
    BY <1>2, RowsAreOrdered
  <2>3. \A x, y \in S : <<x, y>> \in R =>
          VerdictRank(x.verdict) < VerdictRank(y.verdict) \/ VerdictRank(x.verdict) = VerdictRank(y.verdict)
    BY DEF RowOrder, RowBefore
  <2>4. \A x \in S : VerdictRank(x.verdict) \in Nat
    BY <2>2, VerdictFacts
  <2> HIDE DEF S, R, n, s
  <2>5. /\ s \in Seq(S) /\ Len(s) = n
        /\ \A x \in S : \E k \in 1 .. n : s[k] = x
        /\ \A j, k \in 1 .. n : j < k => <<s[j], s[k]>> \in R
    BY <2>1, <2>2, SortedListsTheSet
  <2>6. DOMAIN s = 1 .. n /\ \A k \in DOMAIN s : s[k] \in S
    BY <2>5
  <2>7. {s[k].finding : k \in DOMAIN s} = Findings
    BY <2>2, <2>5, <2>6
  <2>8. \A k \in DOMAIN s : s[k].verdict = Verdict(s[k].finding)
    BY <2>2, <2>6
  <2>9. \A j, k \in DOMAIN s : j < k => VerdictRank(s[j].verdict) <= VerdictRank(s[k].verdict)
    <3> SUFFICES ASSUME NEW j \in DOMAIN s, NEW k \in DOMAIN s, j < k
        PROVE  VerdictRank(s[j].verdict) <= VerdictRank(s[k].verdict)
      OBVIOUS
    <3> DEFINE x == s[j]
               y == s[k]
    <3>1. x \in S /\ y \in S /\ <<x, y>> \in R
      BY <2>5, <2>6
    <3> HIDE DEF x, y
    <3>2. VerdictRank(x.verdict) < VerdictRank(y.verdict) \/ VerdictRank(x.verdict) = VerdictRank(y.verdict)
      BY <2>3, <3>1
    <3>3. VerdictRank(x.verdict) \in Nat /\ VerdictRank(y.verdict) \in Nat
      BY <2>4, <3>1
    <3>4. VerdictRank(x.verdict) <= VerdictRank(y.verdict)
      BY <3>2, <3>3
    <3> QED BY <3>4 DEF x, y
  <2>10. \A k \in DOMAIN rows' : (rows[k].verdict)' = (Verdict(rows[k].finding))'
    BY <1>1, <2>8 DEF Verdict, PlaceOf, Held, s
  <2>11. Len(rows') = Len(report') /\ {(rows[k].finding)' : k \in DOMAIN rows'} = Findings'
    BY <1>2, <2>5, <2>7 DEF s, n
  <2>12. \A j, k \in DOMAIN rows' : j < k =>
           VerdictRank(rows[j].verdict)' <= VerdictRank(rows[k].verdict)'
    BY <2>9 DEF s
  <2>13. FeedbackOnlyOrders'
    BY <2>10, <2>11, <2>12, Zenon DEF FeedbackOnlyOrders
  <2> QED BY <1>10, <1>3, <1>4, <1>5, <1>6, <2>13 DEF MInv
<1> QED BY <1>8, <1>9

(* The steps of the commands keep the invariant.                           *)
LEMMA MPreserved == MInv /\ [PreflightNext]_preflightVars => MInv'
<1> SUFFICES ASSUME MInv, [PreflightNext]_preflightVars PROVE MInv'
  OBVIOUS
<1>1. CASE Given
  BY <1>1, MGiven
<1>2. CASE Starts
  BY <1>2, MStarts
<1>3. CASE PreflightActs
  <2>1. CASE \E known \in SUBSET Refs : \E contents \in [known -> Contents], past \in BOOLEAN :
               CheckBranches(known, contents, past)
    BY <2>1, MCheckBranches
  <2>2. CASE CheckFails
    BY <2>2, MCheckFails
  <2>3. CASE CheckerFails \/ SearchBreaks \/ RecordBreaks \/ RankingBreaks
    BY <2>3, MFails
  <2>4. CASE BranchesDone
    BY <2>4, MBranchesDone
  <2>5. CASE Unsearched
    BY <2>5, MUnsearched
  <2>6. CASE \E answer \in Answers : Search(answer)
    BY <2>6, MSearch
  <2>7. CASE SearchesDone
    BY <2>7, MSearchesDone
  <2>8. CASE RecordsDiscussed
    BY <2>8, MRecordsDiscussed
  <2>9. CASE Truncates
    BY <2>9, MTruncates
  <2>10. CASE Writes
    BY <2>10, MWrites
  <2>11. CASE \E ranking \in BOOLEAN, events \in EventLogs : Rows(ranking, events)
    BY <2>11, MRows
  <2> QED
    BY <1>3, <2>1, <2>2, <2>3, <2>4, <2>5, <2>6, <2>7, <2>8, <2>9, <2>10, <2>11 DEF PreflightActs
<1>4. CASE \E e \in UserEntries : AddLoads(e)
  BY <1>4, MAddLoads
<1>5. CASE AddTruncates
  BY <1>5, MAddTruncates
<1>6. CASE AddWrites
  BY <1>6, MAddWrites
<1>7. CASE PreflightKilled
  BY <1>7, MPreflightKilled
<1>8. CASE AddKilled
  BY <1>8, MAddKilled
<1>9. CASE UNCHANGED preflightVars
  BY <1>9, MStutters
<1> QED
  BY <1>1, <1>2, <1>3, <1>4, <1>5, <1>6, <1>7, <1>8, <1>9 DEF PreflightNext

(* The invariant of the preflight holds in every state.                    *)
THEOREM PreflightIsInvariant == PreflightSpec => []MInv
BY MInit, MPreserved, PTL DEF PreflightSpec

(* What the verdict "declared" says: an entry of the memory covers it.     *)
LEMMA DeclaredFacts ==
  ASSUME NEW S, declared \in Seq(S), NEW i
  PROVE  MatchingEntries(declared, report[i].rule, report[i].path) # <<>>
           <=> \E k \in DOMAIN declared : Covers(declared[k], i)
<1> DEFINE P == {k \in DOMAIN declared : EntryMatches(declared[k], report[i].rule, report[i].path)}
<1>1. DOMAIN declared = 1 .. Len(declared) /\ Len(declared) \in Nat
  OBVIOUS
<1>2. P \subseteq 1 .. Len(declared) /\ IsFiniteSet(1 .. Len(declared))
  BY <1>1, FS_Interval
<1>3. IsFiniteSet(P) /\ P \in SUBSET Nat
  BY <1>1, <1>2, FS_Subset
<1>4. Cardinality(P) \in Nat /\ (Cardinality(P) = 0 <=> P = {})
  BY <1>3, FS_CardinalityType, FS_EmptySet
<1>5. AtPositions(declared, P) # <<>> <=> P # {}
  <2>1. DOMAIN AtPositions(declared, P) = 1 .. Cardinality(P)
    BY DEF AtPositions
  <2> HIDE DEF P
  <2>2. CASE P = {}
    <3>1. DOMAIN AtPositions(declared, P) = {}
      BY <1>4, <2>1, <2>2
    <3>2. AtPositions(declared, P) = <<>>
      BY <3>1 DEF AtPositions
    <3> QED BY <2>2, <3>2
  <2>3. CASE P # {}
    <3>1. 1 \in DOMAIN AtPositions(declared, P)
      BY <1>4, <2>1, <2>3
    <3> QED BY <2>3, <3>1
  <2> QED BY <2>2, <2>3
<1>6. P # {} <=> \E k \in DOMAIN declared : Covers(declared[k], i)
  BY DEF Covers
<1> QED BY <1>5, <1>6 DEF MatchingEntries

(* By the invariant the verdicts are about their findings, or their lines. *)
LEMMA MImpliesVerdicts == MInv => VerdictsAreOwn
<1> SUFFICES ASSUME MInv, at = "done", NEW k \in DOMAIN rows
    PROVE  LET i == rows[k].finding
               v == rows[k].verdict IN
           /\ FixesAreOfTheLine(i, v)
           /\ v = "declared" /\ Undisturbed => \E e \in kept : Covers(e, i)
           /\ v = "discussed" => AskedHinted(i)
           /\ v = "mentioned" => AskedOpen(i)
           /\ v = "submit" => ~AskedHinted(i) /\ ~AskedOpen(i)
  BY DEF VerdictsAreOwn
<1> DEFINE i == rows[k].finding
           v == rows[k].verdict
           status == IF i \in DOMAIN results THEN results[i] ELSE "none"
           known  == MatchingEntries(declared, report[i].rule, report[i].path) # <<>>
<1>1. i \in Findings /\ v = Verdict(i)
  BY DEF MInv, FeedbackOnlyOrders
<1>2. v = IF PlaceOf(i) \in fixed THEN "already_fixed" ELSE IF known THEN "declared"
          ELSE IF status \in {"discussed", "mentioned"} THEN status ELSE "submit"
  BY <1>1 DEF Verdict
<1>3. v = "already_fixed" <=> PlaceOf(i) \in fixed
  <2> HIDE DEF i, v, status, known
  <2> QED BY <1>2
<1>4. FixesAreOfTheLine(i, v)
  <2>1. KnownFixes(fixable, fixed, Findings)
    BY DEF MInv, FixesAreKnown, Checked
  <2>2. /\ \A j \in fixable : Located(j)
        /\ \A place \in fixed : \E j \in fixable :
             PlaceOf(j) = place /\ \A l \in Findings : l > j /\ PlaceOf(l) = place => l \in fixable
        /\ \A j \in fixable : PlaceOf(j) \in fixed \/ \E l \in Findings \ fixable : l > j /\ PlaceOf(l) = PlaceOf(j)
    BY <2>1 DEF KnownFixes
  <2>3. \A j : Located(j) /\ PlaceOf(j) = PlaceOf(i) => Located(i)
    BY DEF Located, PlaceOf
  <2> HIDE DEF i, v
  <2>4. v = "already_fixed" => Located(i) /\ LastIsFixable(i)
    BY <1>3, <2>2, <2>3 DEF LastIsFixable
  <2>5. v # "already_fixed" /\ i \in fixable =>
          \E l \in Findings \ fixable : l > i /\ PlaceOf(l) = PlaceOf(i)
    BY <1>3, <2>2
  <2> QED BY <2>4, <2>5 DEF FixesAreOfTheLine
<1>5. known /\ Undisturbed => \E e \in kept : Covers(e, i)
  <2>1. declared \in Seq(Range(declared)) /\ (Undisturbed => Range(declared) \subseteq kept)
    BY DEF MInv, MemoryIsKnown, IsList
  <2>2. known => \E l \in DOMAIN declared : Covers(declared[l], i)
    BY <2>1, DeclaredFacts
  <2> QED BY <2>1, <2>2 DEF Range
<1>6. (status = "discussed" <=> AskedHinted(i)) /\ (status = "mentioned" <=> AskedOpen(i))
  <2>1. IF i \in DOMAIN results
        THEN /\ results[i] = "discussed" <=> AskedHinted(i)
             /\ results[i] = "mentioned" <=> AskedOpen(i)
        ELSE answers[i] = ""
    BY <1>1 DEF MInv, AnswersAreOwn, Active
  <2>2. "" \notin Hints
    BY PreflightAssumption
  <2> QED BY <2>1, <2>2 DEF AskedHinted, AskedOpen, Hinted
<1> HIDE DEF i, v, status, known
<1>7. /\ FixesAreOfTheLine(i, v)
      /\ v = "declared" /\ Undisturbed => \E e \in kept : Covers(e, i)
      /\ v = "discussed" => AskedHinted(i)
      /\ v = "mentioned" => AskedOpen(i)
      /\ v = "submit" => ~AskedHinted(i) /\ ~AskedOpen(i)
  BY <1>2, <1>4, <1>5, <1>6
<1> QED BY <1>7 DEF i, v

(* By the invariant the memory keeps what was saved.                       *)
LEMMA MImpliesMemory == MInv => MemoryIsKept
<1> SUFFICES ASSUME MInv PROVE MemoryIsKept
  OBVIOUS
<1>1. DeclaredIsKept
  BY DEF MInv, OneWriter, DeclaredIsKept, LoadMemory
<1>2. DiscussedIsRemembered
  <2> SUFFICES ASSUME at = "done", Undisturbed, NEW k \in DOMAIN rows,
                      rows[k].finding \in told \ Discussed, FindsItself(report[rows[k].finding].path)
      PROVE  rows[k].verdict \in {"already_fixed", "declared"}
    BY DEF DiscussedIsRemembered
  <2> DEFINE i == rows[k].finding
  <2>1. declared \in Seq(Range(declared)) /\ rows[k].verdict = Verdict(i)
    BY DEF MInv, MemoryIsKnown, IsList, FeedbackOnlyOrders
  <2>2. \E l \in DOMAIN declared : Covers(declared[l], i)
    BY DEF MInv, OneWriter, Active
  <2>3. MatchingEntries(declared, report[i].rule, report[i].path) # <<>>
    BY <2>1, <2>2, DeclaredFacts
  <2> QED BY <2>1, <2>3 DEF Verdict
<1> QED BY <1>1, <1>2 DEF MemoryIsKept, MInv

(* cli/main.py:1276, 1306, 1358-1376: every verdict shown is about the     *)
(* finding of its row or, for a fix, about its line, of which the last     *)
(* finding decides: a fix that a lookup found there, an entry saved in the *)
(* memory (when nobody was disturbed in writing it), or the answer to its  *)
(* own search.                                                             *)
THEOREM VerdictsAreAlwaysOwn == PreflightSpec => []VerdictsAreOwn
BY PreflightIsInvariant, MImpliesVerdicts, PTL

(* cli/main.py:1386-1425: feedback reorders the rows within a verdict and  *)
(* neither drops one nor changes its verdict.                              *)
THEOREM FeedbackAlwaysOnlyOrders == PreflightSpec => []FeedbackOnlyOrders
<1>1. MInv => FeedbackOnlyOrders
  BY DEF MInv
<1> QED BY <1>1, PreflightIsInvariant, PTL

(* adjudication.py:155, upstream_checker.py:336: what commands that do not *)
(* overlap and are not killed have saved stays in the memory, and a        *)
(* finding recorded as discussed is not filed by a later preflight when    *)
(* its path, taken for a pattern, matches itself.                          *)
THEOREM MemoryIsAlwaysKept == PreflightSpec => []MemoryIsKept
BY PreflightIsInvariant, MImpliesMemory, PTL

=============================================================================
