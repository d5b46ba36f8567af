----------------------------- MODULE UserStores -----------------------------
(***************************************************************************)
(* The two append-only stores of the user: feedback events, one JSON line  *)
(* each (feedback/store.py), and audit trajectories, one document each     *)
(* plus a line of an index (trajectory/store.py).  Every command is a      *)
(* process; nothing locks a file.  A process may be killed between any two *)
(* steps, and a write may fail having written a part of its line.          *)
(*                                                                         *)
(* A behaviour uses one of the stores, since no command writes both, and   *)
(* "lines" is that store's file of lines.  An item is an event, known by   *)
(* its id, or a trajectory: a hash of project, second and findings, so two *)
(* audits of one project may write the same one.                           *)
(***************************************************************************)
EXTENDS Naturals, Sequences, FiniteSets

CONSTANTS Commands,     \* processes that run at one time
          Records,
          MaxLines,     \* bound: lines of the file
          MaxFaults     \* bound: kills and failed writes

Part     == "part"      \* the beginning of a line, cut off after a character
Split    == "split"     \* or inside one, of more than a byte
Cuts     == {Part, Split}
Manifest == "manifest"  \* the file an export leaves next to its output
NoItem   == "no item"   \* of a process that runs no command

ASSUME StoreAssumption ==
  /\ MaxLines \in Nat /\ MaxFaults \in Nat
  /\ IsFiniteSet(Commands) /\ Records \cap Cuts = {}

VARIABLES
  store,      \* "events" or "trajectories"; "none" before the first command
  alone,      \* does a command start only when no other runs?
  lines,      \* the lines, each the sequence of the texts written to it
  ragged,     \* does the last line lack its newline?
  document,   \* of each trajectory: the file <id>.json
  scratch,    \* and the file <id>.json.tmp, which all processes share
  handle,     \* of each process: the file its open handle writes to
  step, item, \* the step a process is at, and the item of its command
  faults,
  stray,      \* is there a manifest among the documents?
  acked,      \* history: items some command reported as written
  cut,        \* history: lines that were written in part
  shared      \* history: trajectories two processes were writing at once

fileVars   == <<lines, ragged, document, scratch, stray>>
historyVars == <<acked, cut, shared>>
storeVars  == <<store, alone, fileVars, handle, step, item, faults, historyVars>>

StoreInit ==
  /\ store = "none" /\ alone = FALSE
  /\ lines = <<>> /\ ragged = FALSE
  /\ document = [t \in Records |-> "absent"] /\ scratch = [t \in Records |-> "absent"]
  /\ handle = [p \in Commands |-> "none"]
  /\ step = [p \in Commands |-> "idle"]
  /\ item = [p \in Commands |-> NoItem]
  /\ faults = 0 /\ stray = FALSE
  /\ acked = {} /\ cut = 0 /\ shared = {}

-----------------------------------------------------------------------------
(* The lines that are exactly one JSON object, which the readers keep, and *)
(* what is on them.                                                        *)
Intact == {i \in DOMAIN lines : Len(lines[i]) = 1 /\ lines[i][1] \notin Cuts}

Kept == {lines[i][1] : i \in Intact}

Copies(x) == Cardinality({i \in Intact : lines[i][1] = x})

(* But the readers decode the whole file before they look at a line, and   *)
(* none of them catches that this fails: after a line that was cut inside  *)
(* a character they all raise.                                             *)
Decodable == \A i \in DOMAIN lines : \A k \in DOMAIN lines[i] : lines[i][k] # Split

Listed == IF Decodable THEN Kept ELSE {}

(* A handle opened with "a" writes after the last byte: on a line that has *)
(* no newline yet, if the last writer was cut off.                         *)
Written(text) ==
  IF ragged THEN [lines EXCEPT ![Len(lines)] = Append(@, text)]
  ELSE Append(lines, <<text>>)

(* The command p runs ends.                                                *)
Ends(p) == /\ step' = [step EXCEPT ![p] = "idle"]
           /\ handle' = [handle EXCEPT ![p] = "none"]
           /\ item' = [item EXCEPT ![p] = NoItem]

(* The line of the item of p is written whole; the write raises before it, *)
(* or with a part of the text on disk (all of it but the newline, or       *)
(* less); and the command reports what it knows.                           *)
AppendLine(p) ==
  /\ Len(lines) < MaxLines
  /\ lines' = Written(item[p]) /\ ragged' = FALSE
  /\ acked' = acked \cup {item[p]}
  /\ Ends(p)
  /\ UNCHANGED <<store, alone, document, scratch, stray, faults, cut, shared>>

AppendFails(p) ==
  /\ faults < MaxFaults /\ faults' = faults + 1
  /\ \/ UNCHANGED <<lines, ragged, cut>>
     \/ \E text \in Cuts \cup {item[p]} :
          Len(lines) < MaxLines /\ lines' = Written(text) /\ ragged' = TRUE /\ cut' = cut + 1
  /\ Ends(p)
  /\ UNCHANGED <<store, alone, document, scratch, stray, acked, shared>>

-----------------------------------------------------------------------------
(* Mutant: what was in the file is not looked at.                          *)
AddUnchecked(p, e) ==
  /\ step[p] = "idle" /\ store = "events"
  /\ item' = [item EXCEPT ![p] = e]
  /\ step' = [step EXCEPT ![p] = "append"]
  /\ UNCHANGED <<store, alone, fileVars, handle, faults, historyVars>>

(* feedback add: the event is built with an id that says what was decided  *)
(* (the confidence and the time are not part of it) and is dropped when    *)
(* the file already lists that id.  Of a file that does not decode the     *)
(* command raises instead, and changes nothing.                            *)
Add(p, e) ==
  /\ step[p] = "idle" /\ store = "events"
  /\ Decodable /\ e \notin Listed
  /\ item' = [item EXCEPT ![p] = e]
  /\ step' = [step EXCEPT ![p] = "append"]
  /\ UNCHANGED <<store, alone, fileVars, handle, faults, historyVars>>

-----------------------------------------------------------------------------
(* Mutant: every process has a temporary file of its own, and the document *)
(* is opened where it belongs.                                             *)
OpenInPlace(p, t) ==
  /\ step[p] = "idle" /\ store = "trajectories"
  /\ document' = [document EXCEPT ![t] = "empty"]
  /\ handle' = [handle EXCEPT ![p] = "document"]
  /\ item' = [item EXCEPT ![p] = t]
  /\ step' = [step EXCEPT ![p] = "fill"]
  /\ shared' = IF \E q \in Commands \ {p} : step[q] # "idle" /\ item[q] = t
               THEN shared \cup {t} ELSE shared
  /\ UNCHANGED <<store, alone, lines, ragged, scratch, stray, faults, acked, cut>>

(* TrajectoryStore.write: write_text creates or truncates the temporary    *)
(* file ...                                                                *)
OpenScratch(p, t) ==
  /\ step[p] = "idle" /\ store = "trajectories"
  /\ scratch' = [scratch EXCEPT ![t] = "empty"]
  /\ handle' = [handle EXCEPT ![p] = "scratch"]
  /\ item' = [item EXCEPT ![p] = t]
  /\ step' = [step EXCEPT ![p] = "fill"]
  /\ shared' = IF \E q \in Commands \ {p} : step[q] # "idle" /\ item[q] = t
               THEN shared \cup {t} ELSE shared
  /\ UNCHANGED <<store, alone, lines, ragged, document, stray, faults, acked, cut>>

(* What a file holds once it has been written from its start: after the    *)
(* new text comes the rest of what was there, which does not parse, or     *)
(* does not even decode when it begins inside a character.                 *)
Refilled(file) == IF file = "empty" THEN {"whole"} ELSE {"whole", "torn", "split"}

(* What a part of the text leaves there.                                   *)
PartlyFilled(file) == {file, "torn", "split"}

(* ... fills it, under whatever name it has by now ...                     *)
Fill(p) ==
  LET t == item[p] IN
  /\ step[p] = "fill"
  /\ \/ handle[p] = "scratch" /\ UNCHANGED document
        /\ \E file \in Refilled(scratch[t]) : scratch' = [scratch EXCEPT ![t] = file]
     \/ handle[p] = "document" /\ UNCHANGED scratch
        /\ \E file \in Refilled(document[t]) : document' = [document EXCEPT ![t] = file]
     \/ handle[p] = "orphan" /\ UNCHANGED <<document, scratch>>
  /\ handle' = [handle EXCEPT ![p] = "none"]
  /\ step' = [step EXCEPT ![p] = "replace"]
  /\ UNCHANGED <<store, alone, lines, ragged, stray, item, faults, historyVars>>

(* ... moves it over the document; a handle another process has on it goes *)
(* along, and one it has on the old document goes nowhere ...              *)
Replace(p) ==
  LET t == item[p] IN
  /\ step[p] = "replace" /\ scratch[t] # "absent"
  /\ document' = [document EXCEPT ![t] = scratch[t]]
  /\ scratch' = [scratch EXCEPT ![t] = "absent"]
  /\ handle' = [q \in Commands |->
                  IF item[q] # t THEN handle[q]
                  ELSE CASE handle[q] = "scratch" -> "document"
                         [] handle[q] = "document" -> "orphan"
                         [] OTHER -> handle[q]]
  /\ step' = [step EXCEPT ![p] = "append"]
  /\ UNCHANGED <<store, alone, lines, ragged, stray, item, faults, historyVars>>

(* ... which raises when another process has moved it; write() then        *)
(* returns None.                                                           *)
ReplaceFails(p) ==
  /\ step[p] = "replace" /\ scratch[item[p]] = "absent"
  /\ Ends(p)
  /\ UNCHANGED <<store, alone, fileVars, faults, historyVars>>

(* The process is killed, or writing the document raises; a part of the    *)
(* document may have been written.                                         *)
Killed(p) ==
  LET t == item[p] IN
  /\ step[p] # "idle" /\ faults < MaxFaults /\ faults' = faults + 1
  /\ \/ UNCHANGED <<document, scratch>>
     \/ step[p] = "fill" /\ handle[p] = "scratch" /\ UNCHANGED document
        /\ \E file \in PartlyFilled(scratch[t]) : scratch' = [scratch EXCEPT ![t] = file]
     \/ step[p] = "fill" /\ handle[p] = "document" /\ UNCHANGED scratch
        /\ \E file \in PartlyFilled(document[t]) : document' = [document EXCEPT ![t] = file]
  /\ Ends(p)
  /\ UNCHANGED <<store, alone, lines, ragged, stray, historyVars>>

(* trajectory export raises on a document that does not decode; otherwise  *)
(* it takes every file *.json that parses, the manifest of an earlier      *)
(* export into the same directory among them.                              *)
ExportRaises == \E t \in Records : document[t] = "split"

Exported == {t \in Records : document[t] = "whole"} \cup (IF stray THEN {Manifest} ELSE {})

(* An export writes those documents, and its manifest next to its output,  *)
(* which may be the directory of the store.                                *)
ExportInside ==
  /\ store = "trajectories" /\ ~stray /\ ~ExportRaises
  /\ stray' = TRUE
  /\ UNCHANGED <<store, alone, lines, ragged, document, scratch, handle, step, item, faults, historyVars>>

(* The store the commands of this behaviour use.                           *)
Begin ==
  /\ store = "none"
  /\ store' \in {"events", "trajectories"} /\ alone' \in BOOLEAN
  /\ UNCHANGED <<fileVars, handle, step, item, faults, historyVars>>

MayRun(p) == alone => \A q \in Commands \ {p} : step[q] = "idle"

Acts(p) ==
  \/ \E x \in Records : Add(p, x) \/ OpenScratch(p, x)
  \/ Fill(p) \/ Replace(p) \/ ReplaceFails(p)
  \/ step[p] = "append" /\ (AppendLine(p) \/ AppendFails(p))
  \/ Killed(p)

StoreNext ==
  \/ Begin
  \/ \E p \in Commands : MayRun(p) /\ Acts(p)
  \/ ExportInside

StoreSpec == StoreInit /\ [][StoreNext]_storeVars

-----------------------------------------------------------------------------
Files == {"absent", "empty", "torn", "split", "whole"}

StoresTypeOK ==
  /\ store \in {"none", "events", "trajectories"} /\ alone \in BOOLEAN
  /\ lines \in Seq(Seq(Records \cup Cuts)) /\ \A i \in DOMAIN lines : lines[i] # <<>>
  /\ ragged \in BOOLEAN /\ stray \in BOOLEAN /\ (ragged => lines # <<>>)
  /\ document \in [Records -> Files]
  /\ scratch \in [Records -> Files]
  /\ handle \in [Commands -> {"none", "scratch", "document", "orphan"}]
  /\ step \in [Commands -> {"idle", "fill", "replace", "append"}]
  /\ item \in [Commands -> Records \cup {NoItem}] /\ faults \in 0 .. MaxFaults
  /\ cut \in Nat /\ acked \cup shared \subseteq Records

(* feedback/store.py:57, trajectory/store.py:76: a line that was cut off   *)
(* takes the next one with it, and that next append still reports success. *)
(* But nothing else costs a record that was reported its line: there are   *)
(* at most as many losses as cuts, each at the end of a line that was cut. *)
(* And what has its line is found, unless a cut inside a character makes   *)
(* every reader of the file raise (feedback/store.py:35).                  *)
LossesNeedACut ==
  LET lost == acked \ Kept IN
  /\ Cardinality(lost) <= cut
  /\ \A x \in lost : \E i \in DOMAIN lines : Len(lines[i]) > 1 /\ lines[i][Len(lines[i])] = x
  /\ Kept # Listed => cut > 0

(* feedback/store.py:50: the check for a duplicate and the append are two  *)
(* steps; an event is counted twice only when two commands overlap, and    *)
(* then at most once for each of them.                                     *)
DuplicatesNeedAnOverlap ==
  store = "events" => \A x \in Records :
    Copies(x) <= IF alone THEN 1 ELSE Cardinality(Commands)

(* What feedback/store.py:add and trajectory/store.py:write report as      *)
(* written is in the store, once, and found there: a loss takes an append  *)
(* that was cut, a second copy two commands that overlap.                  *)
StoredOnce == StoresTypeOK /\ LossesNeedACut /\ DuplicatesNeedAnOverlap

(* trajectory/store.py:50-77: the index never lists a trajectory without   *)
(* its document, whoever died where; and a document that is not whole      *)
(* needs two audits that wrote the same trajectory at once.                *)
ListedIsStored ==
  store = "trajectories" => \A t \in Records :
    /\ t \in Listed => document[t] # "absent"
    /\ document[t] \notin {"absent", "whole"} => t \in shared

(* A document that no index line shows has its writer still running, or    *)
(* there was a fault; an export finds every document there is.             *)
StoredIsListed ==
  store = "trajectories" => \A t \in Records :
    document[t] # "absent" /\ t \notin Listed =>
      faults > 0 \/ \E p \in Commands : step[p] = "append" /\ item[p] = t

(* store.py:104: an export finds every trajectory reported as saved, those *)
(* the index has lost too, but one that two audits were writing; what else *)
(* it takes for one is the manifest an earlier export left there.  That an *)
(* export raises needs two such audits as well.                            *)
ExportsAreComplete ==
  store = "trajectories" =>
    /\ acked \ shared \subseteq Exported
    /\ ~stray => Exported \subseteq Records
    /\ ExportRaises => shared # {}

(* The documents, the index and what an export finds agree.                *)
IndexMatchesDocuments == ListedIsStored /\ StoredIsListed /\ ExportsAreComplete
=============================================================================
