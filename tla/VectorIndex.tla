---------------------------- MODULE VectorIndex -----------------------------
(***************************************************************************)
(* The vector index beside the project (rag/indexer, rag/store,            *)
(* rag/embedder): vectors, metadata, a vocabulary and a state file that is *)
(* written last and says of which source, and by which model, the others   *)
(* are.  Sessions check it, serve it or build it anew; they may overlap or *)
(* die between two files, and the source is edited meanwhile.              *)
(***************************************************************************)
EXTENDS Integers, Sequences, FiniteSets

CONSTANTS
  Sessions,      \* the sessions
  Versions, FirstVersion,  \* what the source can be, and is at first
  Chunked,       \* Chunked[v]: how many chunks version v gives
  Machines,      \* sets of what can be imported: "e5", "mini", "sklearn"
  MaxSourceEdits \* bound on the owner's edits

VARIABLES
  source,    \* the version in the project
  files,     \* the four files; Absent, Torn or their content
  at,        \* at[s]: the step session s is at
  machine,   \* machine[s]: what s can import
  hashed,    \* hashed[s]: the version whose digest s took
  chunks,    \* chunks[s]: the version s cut into chunks
  loaded,    \* loaded[s]: the vectors and metadata s has in memory, and the mode of its queries
  sourceEdits, overlapped, editedBetween   \* history

indexVars == <<source, files, at, machine, hashed, chunks, loaded, sourceEdits, overlapped, editedBetween>>
own == <<machine, hashed, chunks, loaded>>

Absent == [is |-> "missing"]
Torn   == [is |-> "torn"]
Whole(by, version, mode) == [is |-> "whole", by |-> by, version |-> version, mode |-> mode]

IndexInit ==
  /\ source = FirstVersion
  /\ files = [f \in {"vectors", "meta", "vocab", "state"} |-> Absent]
  /\ at = [s \in Sessions |-> "idle"]
  /\ machine = [s \in Sessions |-> {}]
  /\ hashed = [s \in Sessions |-> source]
  /\ chunks = [s \in Sessions |-> source]
  /\ loaded = [s \in Sessions |-> [vectors |-> Absent, meta |-> Absent, query |-> "none"]]
  /\ sourceEdits = 0 /\ overlapped = FALSE /\ editedBetween = FALSE

Goto(s, step) == at' = [at EXCEPT ![s] = step]
Resting == {"idle", "served", "empty", "skipped", "gone"}
Touch(s) ==
  overlapped' = (overlapped \/ \E r \in Sessions \ {s} : at[r] \notin Resting)

-----------------------------------------------------------------------------
(* What texts are embedded with (_load_model): the named model, the        *)
(* smaller one, sklearn's vocabulary, or characters.                       *)
Mode(named, can) ==
  CASE named \in can     -> named
    [] named \notin can /\ "mini" \in can    -> "mini"
    [] can \cap {named, "mini"} = {} /\ "sklearn" \in can -> "tfidf"
    [] OTHER -> "hash"
Dimension(mode) == IF mode \in {"e5", "mini", "zero"} THEN 384 ELSE 256

(* ... and a query of a session that reuses an index (embed_query after    *)
(* _load_tfidf_vocab and _restore_embedder_state): an index of vectors by  *)
(* a model names it; without a vocabulary characters are used.             *)
QueryMode(state, can) ==
  CASE state.mode \in {"tfidf", "hash"} -> state.mode
    [] state.mode \notin {"tfidf", "hash"} /\ Mode(state.model, can) = "tfidf" -> "hash"
    [] OTHER -> Mode(state.model, can)

-----------------------------------------------------------------------------
(* index_if_needed: the store must have a state file and both others.      *)
Start(s) ==
  /\ at[s] = "idle"
  /\ \E can \in Machines : machine' = [machine EXCEPT ![s] = can]
  /\ Goto(s, IF \E f \in {"state", "vectors", "meta"} : files[f] = Absent THEN "hash" ELSE "count")
  /\ UNCHANGED <<source, files, hashed, chunks, loaded, sourceEdits, overlapped, editedBetween>>

(* count, _load: first one file, then the other.                           *)
LoadVectors(s) ==
  /\ at[s] = "count"
  /\ loaded' = [loaded EXCEPT ![s].vectors = files["vectors"]]
  /\ Goto(s, "load")
  /\ UNCHANGED <<source, files, machine, hashed, chunks, sourceEdits, overlapped, editedBetween>>

Consistent(vectors, meta) ==
  vectors.is = "whole" /\ meta.is = "whole" /\ Chunked[vectors.version] = Chunked[meta.version]

LoadMeta(s) ==
  /\ at[s] = "load"
  /\ loaded' = [loaded EXCEPT ![s].meta = files["meta"]]
  /\ Goto(s, IF Consistent(loaded[s].vectors, files["meta"]) THEN "check" ELSE "hash")
  /\ UNCHANGED <<source, files, machine, hashed, chunks, sourceEdits, overlapped, editedBetween>>

(* _needs_rebuild: the state is read, and the source hashed.               *)
UpToDate(s) ==
  /\ files["state"] # Absent
  /\ files["state"].mode = "tfidf" => files["vocab"] # Absent
  /\ files["state"].version = source
Check(s) ==
  /\ at[s] = "check"
  /\ hashed' = [hashed EXCEPT ![s] = source]
  /\ Goto(s, IF UpToDate(s) THEN "restore" ELSE "hash")
  /\ UNCHANGED <<source, files, machine, chunks, loaded, sourceEdits, overlapped, editedBetween>>

(* The vocabulary and the state are read again; a vocabulary cannot be     *)
(* loaded without sklearn, and retrieval is then skipped.  Without a state *)
(* the embedder is a fresh one.                                            *)
Restore(s) ==
  /\ at[s] = "restore"
  /\ LET state == IF files["state"] # Absent THEN files["state"]
                  ELSE [mode |-> "fresh", model |-> "e5"]
         known == IF files["vocab"] # Absent THEN [state EXCEPT !.mode = "tfidf"] ELSE state IN
       IF files["vocab"] # Absent /\ "sklearn" \notin machine[s]
       THEN Goto(s, "skipped") /\ UNCHANGED loaded
       ELSE /\ loaded' = [loaded EXCEPT ![s].query = QueryMode(known, machine[s])]
            /\ Goto(s, "served")
  /\ UNCHANGED <<source, files, machine, hashed, chunks, sourceEdits, overlapped, editedBetween>>

-----------------------------------------------------------------------------
(* index: the source is hashed, then read again and cut into chunks.       *)
HashSource(s) ==
  /\ at[s] = "hash"
  /\ hashed' = [hashed EXCEPT ![s] = source]
  /\ Goto(s, "chunk")
  /\ UNCHANGED <<source, files, machine, chunks, loaded, sourceEdits, overlapped, editedBetween>>

ChunkProject(s) ==
  /\ at[s] = "chunk"
  /\ chunks' = [chunks EXCEPT ![s] = source]
  /\ Goto(s, "clear vectors")
  /\ UNCHANGED <<source, files, machine, hashed, loaded, sourceEdits, overlapped, editedBetween>>

(* store.clear: one file after the other, the state last; without chunks   *)
(* that is all.                                                            *)
Clearing == [vectors |-> "clear vectors", meta |-> "clear meta", vocab |-> "clear vocab",
             state |-> "clear state"]
Cleared(file) ==
  CASE file = "vectors" -> Clearing["meta"]
    [] file = "meta"    -> Clearing["vocab"]
    [] file = "vocab"   -> Clearing["state"]
    [] file = "state"   -> "write vectors"

ClearFile(s) ==
  \E file \in DOMAIN files :
    /\ at[s] = Clearing[file]
    /\ files' = [files EXCEPT ![file] = Absent]
    /\ Goto(s, IF file = "state" /\ Chunked[chunks[s]] = 0 THEN "empty" ELSE Cleared(file))
    /\ Touch(s)
    /\ UNCHANGED <<source, own, sourceEdits, editedBetween>>

(* embed_chunks and index_chunks: the vectors, zeros when the model fails, *)
(* and then the metadata; each file is torn while it is written.           *)
Embeddings(s) ==
  LET mode == Mode("e5", machine[s]) IN {mode} \cup (IF mode \in {"e5", "mini"} THEN {"zero"} ELSE {})

Opening   == [vectors |-> "write vectors", meta |-> "write meta"]
Finishing == [vectors |-> "finish vectors", meta |-> "finish meta"]

OpenFile(s) ==
  \E file \in DOMAIN Opening :
    /\ at[s] = Opening[file]
    /\ files' = [files EXCEPT ![file] = Torn]
    /\ Goto(s, Finishing[file])
    /\ Touch(s)
    /\ UNCHANGED <<source, own, sourceEdits, editedBetween>>

FinishVectors(s) ==
  /\ at[s] = "finish vectors"
  /\ \E mode \in Embeddings(s) :
       LET vectors == Whole(s, chunks[s], mode) IN
       /\ files' = [files EXCEPT !["vectors"] = vectors]
       /\ loaded' = [loaded EXCEPT ![s] = [vectors |-> vectors, meta |-> Whole(s, chunks[s], mode),
                                           query |-> Mode("e5", machine[s])]]
  /\ Goto(s, "write meta")
  /\ Touch(s)
  /\ UNCHANGED <<source, machine, hashed, chunks, sourceEdits, editedBetween>>

FinishMeta(s) ==
  /\ at[s] = "finish meta"
  /\ files' = [files EXCEPT !["meta"] = loaded[s].meta]
  /\ Goto(s, "save")
  /\ Touch(s)
  /\ UNCHANGED <<source, own, sourceEdits, editedBetween>>

(* save_tfidf_vocab, whose failure is swallowed, and save_index_state:     *)
(* each file is replaced as a whole.                                       *)
SaveVocab(s) ==
  /\ at[s] = "save"
  /\ \/ UNCHANGED files
     \/ loaded[s].query = "tfidf" /\ files' = [files EXCEPT !["vocab"] = Whole(s, chunks[s], "tfidf")]
  /\ Goto(s, "save state")
  /\ Touch(s)
  /\ UNCHANGED <<source, own, sourceEdits, editedBetween>>

\* Mutant of Recorded: the digest is taken when the state is saved.
RecordedLate(s) == source
Recorded(s) == hashed[s]

SaveState(s) ==
  /\ at[s] = "save state"
  /\ files' = [files EXCEPT !["state"] =
                 [is |-> "whole", version |-> Recorded(s), mode |-> loaded[s].query,
                  model |-> IF loaded[s].query = "mini" THEN "mini" ELSE "e5"]]
  /\ Goto(s, "served")
  /\ Touch(s)
  /\ UNCHANGED <<source, own, sourceEdits, editedBetween>>

-----------------------------------------------------------------------------
(* A session ends, or dies between two steps; the owner edits the source.  *)
End(s) ==
  /\ at[s] \notin {"idle", "gone"}
  /\ Goto(s, "gone")
  /\ UNCHANGED <<source, files, own, sourceEdits, overlapped, editedBetween>>

EditSource ==
  /\ sourceEdits < MaxSourceEdits
  /\ \E version \in Versions \ {source} : source' = version
  /\ sourceEdits' = sourceEdits + 1
  /\ editedBetween' = (editedBetween \/ \E s \in Sessions : at[s] = "chunk")
  /\ UNCHANGED <<files, at, own, overlapped>>

IndexStep(s) ==
  \/ Start(s) \/ LoadVectors(s) \/ LoadMeta(s) \/ Check(s) \/ Restore(s)
  \/ HashSource(s) \/ ChunkProject(s) \/ ClearFile(s) \/ OpenFile(s)
  \/ FinishVectors(s) \/ FinishMeta(s) \/ SaveVocab(s) \/ SaveState(s)
IndexNext == EditSource \/ \E s \in Sessions : IndexStep(s) \/ End(s)
IndexSpec == IndexInit /\ [][IndexNext]_indexVars
IndexEnd  == \A s \in Sessions : at[s] = "gone"

-----------------------------------------------------------------------------
(* What a session serves (IndexPipeline.index_if_needed) is one index:     *)
(* vectors and metadata of one build, of the source whose digest it took,  *)
(* and queries that can be compared with the vectors.  A death between two *)
(* files, an edit before or after, or a machine that lost its model must   *)
(* not break this.  What can: two sessions that build at once; an edit     *)
(* between digest and chunks that is undone later; and a smaller model     *)
(* that stands in, with as many dimensions, for the one that is missing.   *)
ServedIndexIsSound ==
  \A s \in Sessions : at[s] = "served" =>
    LET vectors == loaded[s].vectors
        meta    == loaded[s].meta
        query   == loaded[s].query IN
    \/ overlapped
    \/ /\ vectors = meta
       /\ vectors.version = hashed[s] \/ editedBetween
       /\ \/ vectors.mode \in {query, "zero"}
          \/ Dimension(query) # Dimension(vectors.mode)
          \/ vectors.mode = "e5" /\ "e5" \notin machine[s]
=============================================================================
