------------------------------- MODULE PVDB --------------------------------
(***************************************************************************)
(* storage/pvdb/dao.py: the document and chunk store of one process, its   *)
(* external-id lineage and its JSON snapshot on disk.  Every method runs   *)
(* to its end here; PVDBThreads takes the same methods apart.              *)
(*                                                                         *)
(* A chunk keeps the row it was ingested from (the temporal_metadata and   *)
(* the other immutable fields) and the two fields the store itself writes  *)
(* later: tx (tx_window) and version (version_id).                         *)
(***************************************************************************)
EXTENDS TimeWindows, FiniteSets

CONSTANTS
  DocIds,        \* document keys, given by the row or fresh
  ExternalIds,   \* external ids, chunk suffix included
  Versions,      \* version ids
  Embeddings,    \* embedding model and dimension a process is configured with
  Rows,          \* the rows that are ingested, a subset of Row
  MaxChunks,     \* bound: chunk ids that can be issued
  NoId,          \* a row without external id, or without version id
  NoWindow,      \* an absent tx window
  NoChunk        \* an absent chunk

ChunkIds == 1..MaxChunks

OptWindow  == Window \cup {NoWindow}
OptVersion == Versions \cup {NoId}

Row == [doc : DocIds, ext : ExternalIds \cup {NoId}, valid : Window,
        tx : OptWindow, version : OptVersion]

ASSUME PVDBAssumption ==
  /\ MaxChunks \in Nat
  /\ Rows \subseteq Row
  /\ NoWindow \notin Window
  /\ NoId \notin ExternalIds \cup Versions
  /\ NoChunk \notin ChunkIds
  /\ NoChunk \notin [row : Rows, tx : OptWindow, version : OptVersion]

Chunk == [row : Rows, tx : OptWindow, version : OptVersion]

Chunks == [ChunkIds -> Chunk \cup {NoChunk}]
Index  == [ExternalIds -> ChunkIds \cup {NoChunk}]

File == [kind : {"absent", "torn", "snapshot"}, embedding : Embeddings,
         documents : SUBSET DocIds, chunks : Chunks, external_index : Index]

VARIABLES
  status,          \* the process: down, up, or refused (the load raised)
  encoder,         \* embedding configuration of the process
  documents,       \* keys of PVDB.documents
  chunks,          \* PVDB.chunks
  ann,             \* ids of InMemoryANNIndex.entries
  external_index,  \* PVDB.external_index
  dirty,           \* PVDB._dirty
  disk,            \* the file persist_path names
  issued,          \* chunk ids issued so far, in every process
  embedder         \* history: the embedding each chunk was ingested under

memory == <<documents, chunks, ann, external_index, dirty>>
ids    == <<issued, embedder>>
vars   == <<status, encoder, memory, disk, ids>>

----------------------------------------------------------------------------
NoChunks == [c \in ChunkIds |-> NoChunk]
NoIndex  == [e \in ExternalIds |-> NoChunk]

StoredIn(ch) == {c \in ChunkIds : ch[c] # NoChunk}

\* A file that is missing or does not parse reads as an empty store.
EmptyFile(kind, emb) ==
  [kind |-> kind, embedding |-> emb, documents |-> {},
   chunks |-> NoChunks, external_index |-> NoIndex]

Snapshot ==
  [kind |-> "snapshot", embedding |-> encoder, documents |-> documents,
   chunks |-> chunks, external_index |-> external_index]

\* Mutant: the index survives a purge.
EmptyMemoryButIndex ==
  /\ documents' = {}
  /\ chunks' = NoChunks
  /\ ann' = {}
  /\ UNCHANGED external_index

EmptyMemory ==
  /\ documents' = {}
  /\ chunks' = NoChunks
  /\ ann' = {}
  /\ external_index' = NoIndex

Init ==
  /\ status = "down"
  /\ encoder \in Embeddings
  /\ documents = {} /\ chunks = NoChunks /\ ann = {}
  /\ external_index = NoIndex /\ dirty = FALSE
  /\ disk = EmptyFile("absent", encoder)
  /\ issued = 0
  /\ embedder = [c \in ChunkIds |-> encoder]

----------------------------------------------------------------------------
(* Starting a process: PVDB.__init__ and _load_from_disk.                  *)

\* Mutant: the embedding of the snapshot is not compared.
AlwaysReadable(emb) == emb \in Embeddings

Readable(emb) == disk.kind = "snapshot" => disk.embedding = emb

\* Mutant: the vectors are not rebuilt.
NoVectors(ch) == {}

RebuiltVectors(ch) == StoredIn(ch)

Start(emb) ==
  /\ status # "up"
  /\ Readable(emb)
  /\ status' = "up"
  /\ encoder' = emb
  /\ documents' = disk.documents
  /\ chunks' = disk.chunks
  /\ ann' = RebuiltVectors(disk.chunks)
  /\ external_index' = disk.external_index
  /\ dirty' = FALSE
  /\ UNCHANGED <<disk, ids>>

\* Reading or parsing raises: every exception is taken for an empty store, that
\* of an intact file that cannot be read just now included, and the embedding
\* of that file is never looked at.
StartUnread(emb) ==
  /\ status # "up"
  /\ disk.kind # "absent"
  /\ status' = "up"
  /\ encoder' = emb
  /\ EmptyMemory
  /\ dirty' = FALSE
  /\ UNCHANGED <<disk, ids>>

\* The snapshot was written under another embedding, or the encoder raises
\* while the vectors are rebuilt: the exception leaves the constructor and the
\* process has no store.
StartRefused(emb) ==
  /\ status # "up"
  /\ ~ Readable(emb) \/ StoredIn(disk.chunks) # {}
  /\ status' = "refused"
  /\ encoder' = emb
  /\ UNCHANGED <<memory, disk, ids>>

\* The process ends, by a crash or by an orderly exit: nothing is saved then,
\* since no code of the store runs.
Stop ==
  /\ status = "up"
  /\ status' = "down"
  /\ EmptyMemory
  /\ dirty' = FALSE
  /\ UNCHANGED <<encoder, disk, ids>>

----------------------------------------------------------------------------
(* ingest_document                                                         *)

\* Mutant: only a window that is still open is closed.
SupersedesOpen(row, c) ==
  /\ row.ext # NoId
  /\ c = external_index[row.ext]
  /\ chunks[c] # NoChunk
  /\ chunks[c].tx # NoWindow => chunks[c].tx.end = Horizon

\* The chunk that the external id of the row names before the row goes in.
Supersedes(row, c) ==
  /\ row.ext # NoId
  /\ c = external_index[row.ext]
  /\ chunks[c] # NoChunk

\* Where the predecessor's tx window starts: the valid window stands in for
\* a tx window that was never given.
TxStart(ch) == IF ch.tx = NoWindow THEN ch.row.valid.start ELSE ch.tx.start

\* Mutant: the end is not kept at or after the start.
ClosedTxUnclamped(ch, row) ==
  IF row.tx = NoWindow THEN ch.tx ELSE Span(TxStart(ch), row.tx.start)

\* Mutant: a window the predecessor already has is left as it is.
ClosedTxOnce(ch, row) ==
  IF row.tx = NoWindow \/ ch.tx # NoWindow
  THEN ch.tx
  ELSE Span(TxStart(ch), Later(row.tx.start, TxStart(ch)))

ClosedTx(ch, row) ==
  IF row.tx = NoWindow
  THEN ch.tx
  ELSE Span(TxStart(ch), Later(row.tx.start, TxStart(ch)))

\* Mutant: the predecessor takes the version id of its successor.
ClosedRestamped(ch, row) ==
  [row |-> ch.row, tx |-> ClosedTx(ch, row), version |-> row.version]

Closed(ch, row) ==
  [row |-> ch.row,
   tx |-> ClosedTx(ch, row),
   version |-> IF ch.version = NoId THEN row.version ELSE ch.version]

Fresh(row) == [row |-> row, tx |-> row.tx, version |-> row.version]

WithRow(row, n) ==
  [c \in ChunkIds |->
     IF c = n THEN Fresh(row)
     ELSE IF Supersedes(row, c) THEN Closed(chunks[c], row)
     ELSE chunks[c]]

\* Mutant: an external id that is known keeps its entry.
IndexKept(row, n) ==
  [e \in ExternalIds |-> IF e = row.ext /\ external_index[e] = NoChunk
                         THEN n ELSE external_index[e]]

IndexWith(row, n) ==
  [e \in ExternalIds |-> IF e = row.ext THEN n ELSE external_index[e]]

IngestDocument(row) ==
  LET n == issued + 1 IN
  /\ status = "up"
  /\ issued < MaxChunks
  /\ issued' = n
  /\ embedder' = [embedder EXCEPT ![n] = encoder]
  /\ documents' = documents \cup {row.doc}
  /\ ann' = ann \cup {n}
  /\ chunks' = WithRow(row, n)
  /\ external_index' = IndexWith(row, n)
  /\ dirty' = TRUE
  /\ UNCHANGED <<status, encoder, disk>>

\* The encoder raises: the document is already registered, the chunk is not.
IngestFails(row) ==
  /\ status = "up"
  /\ documents' = documents \cup {row.doc}
  /\ dirty' = TRUE
  /\ UNCHANGED <<status, encoder, chunks, ann, external_index, disk, ids>>

UpsertDocumentMetadata(d) ==
  /\ status = "up"
  /\ documents' = documents \cup {d}
  /\ dirty' = TRUE
  /\ UNCHANGED <<status, encoder, chunks, ann, external_index, disk, ids>>

----------------------------------------------------------------------------
(* flush and clear, both through _persist                                  *)

Flush ==
  /\ status = "up"
  /\ dirty
  /\ disk' = Snapshot
  /\ dirty' = FALSE
  /\ UNCHANGED <<status, encoder, documents, chunks, ann, external_index, ids>>

\* write_text truncates the file and then fails, or cannot open it at all.
\* The exception leaves before the dirty mark is taken back.
AfterFailedWrite == {disk, EmptyFile("torn", encoder)}

\* Mutant: the mark is taken back before the file is written.
FlushFailsClean ==
  /\ status = "up"
  /\ dirty
  /\ disk' \in AfterFailedWrite
  /\ dirty' = FALSE
  /\ UNCHANGED <<status, encoder, documents, chunks, ann, external_index, ids>>

FlushFails ==
  /\ status = "up"
  /\ dirty
  /\ disk' \in AfterFailedWrite
  /\ UNCHANGED <<status, encoder, memory, ids>>

Clear ==
  /\ status = "up"
  /\ EmptyMemory
  /\ disk' = EmptyFile("snapshot", encoder)
  /\ dirty' = FALSE
  /\ UNCHANGED <<status, encoder, ids>>

ClearFails ==
  /\ status = "up"
  /\ EmptyMemory
  /\ disk' \in AfterFailedWrite
  /\ dirty' = TRUE
  /\ UNCHANGED <<status, encoder, ids>>

Next ==
  \/ \E emb \in Embeddings : Start(emb) \/ StartUnread(emb) \/ StartRefused(emb)
  \/ Stop
  \/ \E row \in Rows : IngestDocument(row) \/ IngestFails(row)
  \/ \E d \in DocIds : UpsertDocumentMetadata(d)
  \/ Flush
  \/ FlushFails
  \/ Clear
  \/ ClearFails

Spec == Init /\ [][Next]_vars

----------------------------------------------------------------------------
(* Properties.  The predicates on ch and ix speak of the store in memory   *)
(* and of the one on disk alike.                                           *)

TypeOK ==
  /\ status \in {"down", "up", "refused"}
  /\ encoder \in Embeddings
  /\ documents \subseteq DocIds
  /\ chunks \in Chunks
  /\ ann \subseteq ChunkIds
  /\ external_index \in Index
  /\ dirty \in BOOLEAN
  /\ disk \in File
  /\ issued \in 0..MaxChunks
  /\ embedder \in [ChunkIds -> Embeddings]

VersionsOf(e, ch) == {c \in StoredIn(ch) : ch[c].row.ext = e}

IndexIsTip(ch, ix) ==
  \A e \in ExternalIds :
    IF ix[e] = NoChunk
    THEN VersionsOf(e, ch) = {}
    ELSE /\ ix[e] \in VersionsOf(e, ch)
         /\ \A c \in VersionsOf(e, ch) : c <= ix[e]

\* The external index names the newest chunk of every external id that has
\* one, in memory and in what a restart would read back (dao.py 99-140, 248):
\* otherwise the next revision would close the wrong version or none.
IndexNamesTheTip ==
  /\ IndexIsTip(chunks, external_index)
  /\ IndexIsTip(disk.chunks, disk.external_index)

Follows(c, d, ch) ==
  /\ c < d
  /\ ch[c] # NoChunk /\ ch[d] # NoChunk
  /\ ch[c].row.ext # NoId
  /\ ch[c].row.ext = ch[d].row.ext

FollowsDirectly(c, d, ch) ==
  /\ Follows(c, d, ch)
  /\ \A b \in ChunkIds : ~ (Follows(c, b, ch) /\ Follows(b, d, ch))

PredecessorsClosed(ch) ==
  \A c, d \in ChunkIds :
    FollowsDirectly(c, d, ch) /\ ch[d].row.tx # NoWindow =>
      /\ ch[c].tx # NoWindow
      /\ ch[c].tx.end = Later(ch[d].row.tx.start, ch[c].tx.start)

\* A version that was followed by one with a tx window is closed at the start
\* of its successor, and never before its own start: an out-of-order revision
\* leaves an empty window, not an inverted one (dao.py 104-112).
SupersededIsClosed ==
  PredecessorsClosed(chunks) /\ PredecessorsClosed(disk.chunks)

\* The rows of an external id came in the order of their tx starts.
InOrder(e, ch) ==
  /\ \A c \in VersionsOf(e, ch) : ch[c].row.tx # NoWindow
  /\ \A c, d \in VersionsOf(e, ch) :
        c < d => ch[c].row.tx.start <= ch[d].row.tx.start

OneVersionAtATime(ch) ==
  \A e \in ExternalIds : InOrder(e, ch) =>
    \A c, d \in VersionsOf(e, ch) :
      c # d => ~ Intersects(ch[c].tx, ch[d].tx)

\* When the revisions of an external id arrive in the order of their tx
\* starts, no two of its versions are current at the same transaction time,
\* however many revisions, restarts and purges came between (dao.py 99-140).
VersionsAreDisjoint ==
  OneVersionAtATime(chunks) /\ OneVersionAtATime(disk.chunks)

\* A flush that is skipped because nothing is dirty loses nothing the process
\* holds: a clean store is what is on disk, or it is empty because the file
\* could not be read (dao.py 186-200, 206-209, 250).  That file may be intact:
\* nothing protects it from the next flush.
CleanMeansSaved ==
  status = "up" /\ ~ dirty =>
    \/ /\ documents = disk.documents
       /\ chunks = disk.chunks
       /\ external_index = disk.external_index
    \/ documents = {} /\ chunks = NoChunks /\ external_index = NoIndex

\* Every chunk can be found by dense search and belongs to a registered
\* document, after an ingest, a failed ingest and a reload (dao.py 77-97, 228-247).
ChunksAreSearchable ==
  /\ StoredIn(chunks) = ann
  /\ \A c \in StoredIn(chunks) : chunks[c].row.doc \in documents

\* A chunk stays under the embedding it was ingested under, in memory and in a
\* snapshot, through restarts, changes of the configuration, purges and files
\* that are torn or not read: a query is never compared with a vector of another
\* model (dao.py 193, 206-223, docs/PROVIDER_MODE.md 28-30).
EmbeddedOnce ==
  /\ \A c \in StoredIn(chunks) : embedder[c] = encoder
  /\ \A c \in StoredIn(disk.chunks) : embedder[c] = disk.embedding

\* A step changes a stored chunk only by closing it: it was the tip of an
\* external id that moves to a new chunk in the same step, its row stays as it
\* was and a version id it has is kept (dao.py 99-115).
OnlyTheTipChanges ==
  \A c \in StoredIn(chunks) : chunks'[c] \notin {chunks[c], NoChunk} =>
    /\ chunks'[c].row = chunks[c].row
    /\ chunks[c].version # NoId => chunks'[c].version = chunks[c].version
    /\ \E e \in ExternalIds : /\ external_index[e] = c
                             /\ external_index'[e] = issued'
                             /\ issued' = issued + 1

HistoryIsKept == [][OnlyTheTipChanges]_vars

----------------------------------------------------------------------------
(* The inductive invariant behind the properties above.                    *)

\* A chunk that came with a tx window keeps its start when it is closed.
StartIsKept(ch) ==
  \A c \in StoredIn(ch) : ch[c].row.tx # NoWindow =>
    /\ ch[c].tx # NoWindow
    /\ ch[c].tx.start = ch[c].row.tx.start

\* Versions that came in order end before any later version starts.
ClosedInOrder(ch) ==
  \A e \in ExternalIds : InOrder(e, ch) =>
    \A c, d \in VersionsOf(e, ch) :
      c < d => ch[c].tx.end <= ch[d].row.tx.start

Sound(docs, ch, ix) ==
  /\ \A c \in StoredIn(ch) : c <= issued /\ ch[c].row.doc \in docs
  /\ IndexIsTip(ch, ix)
  /\ StartIsKept(ch)
  /\ PredecessorsClosed(ch)
  /\ ClosedInOrder(ch)

\* What cannot be parsed holds no chunk.
OnlySnapshotsHold == disk.kind # "snapshot" => disk.chunks = NoChunks

\* The store in memory and the one on disk are sound each by itself, a process
\* that is not up holds nothing, a clean one holds what is on disk.
IInv ==
  /\ TypeOK
  /\ Sound(documents, chunks, external_index)
  /\ Sound(disk.documents, disk.chunks, disk.external_index)
  /\ StoredIn(chunks) = ann
  /\ status # "up" => chunks = NoChunks /\ external_index = NoIndex
  /\ CleanMeansSaved
  /\ EmbeddedOnce
  /\ OnlySnapshotsHold

Log == INSTANCE VersionLog WITH
  Ids <- ChunkIds, None <- NoChunk,
  log <- StoredIn(chunks), tip <- external_index,
  savedLog <- StoredIn(disk.chunks), savedTip <- disk.external_index

\* The store keeps the promise of VersionLog: versions are only added, memory
\* and disk are saved, lost and recovered as a whole, ids are never reused
\* across restarts (dao.py 33-40, 52-142, 186-250).
ImplementsVersionLog == Log!Spec

============================================================================
