---------------------------- MODULE PVDBThreads ----------------------------
(***************************************************************************)
(* POST /ingest in the server.  FastAPI runs the endpoint in a thread pool *)
(* and nothing locks the store, so the requests of several threads         *)
(* interleave between any two accesses to the shared dictionaries, the     *)
(* dirty mark and the file.                                                *)
(*                                                                         *)
(* A row is its external id and whether it has a tx window; a chunk is its  *)
(* row and the chunk that closed its tx window.  What the closing does to  *)
(* the window, and rows without external id, are in PVDB.                  *)
(***************************************************************************)
EXTENDS Naturals, Sequences, FiniteSets

CONSTANTS
  Threads,
  ExternalIds,
  Requests,     \* Requests[t]: the requests thread t may serve, each the
                \* sequence of its rows
  MaxChunks,    \* bound: rows that are ingested in all
  None

ChunkIds == 1..MaxChunks

\* ext: the external id; dated: the row has a tx window.
Rows == [ext : ExternalIds, dated : BOOLEAN]

ASSUME ThreadsAssumption ==
  /\ MaxChunks \in Nat
  /\ \A t \in Threads : \A request \in Requests[t] : request \in Seq(Rows)
  /\ None \notin ChunkIds \cup ExternalIds

Chunk == [ext : ExternalIds, dated : BOOLEAN, closedBy : ChunkIds \cup {None}]
NoChunk == [ext |-> None, dated |-> FALSE, closedBy |-> None]

VARIABLES
  chunks,          \* PVDB.chunks, NoChunk where there is none
  ann,             \* ids of InMemoryANNIndex.entries
  external_index,  \* PVDB.external_index
  dirty,           \* PVDB._dirty
  disk,            \* the snapshot file: [ok, chunks, index]
  issued,          \* chunk ids issued so far
  received,        \* rows received so far, against MaxChunks
  pc,              \* where each thread is
  local,           \* the local variables of each thread's request
  acked,           \* ghost: chunks of requests that returned successfully
  returned,        \* ghost: the request that ended last did not raise
  overlap,         \* ghost: two requests have been in progress at once
  raced            \* ghost: external ids that two requests still had rows of at once

store  == <<chunks, ann, external_index>>
ghosts == <<acked, returned, overlap, raced>>
vars   == <<store, dirty, disk, issued, received, pc, local, ghosts>>

Stored   == {c \in ChunkIds : chunks[c] # NoChunk}
NoChunks == [c \in ChunkIds |-> NoChunk]
NoIndex  == [e \in ExternalIds |-> None]

File(ok, ch, ix) == [ok |-> ok, chunks |-> ch, index |-> ix]
Torn == File(FALSE, NoChunks, NoIndex)

\* rows still to ingest, the chunk being ingested, the chunks of the request;
\* for the flush, whether documents were added while it reads them, the number
\* of chunks when it began to read those, the chunks it has read, the text to
\* write, and whether another write overlaps it.
NoLocals ==
  [rows |-> <<>>, new |-> None, batch |-> {}, grew |-> FALSE,
   size |-> 0, snap |-> NoChunks, content |-> Torn, mixed |-> FALSE]

Init ==
  /\ chunks = NoChunks /\ ann = {} /\ external_index = NoIndex
  /\ dirty = FALSE
  /\ disk = File(TRUE, NoChunks, NoIndex)
  /\ issued = 0 /\ received = 0
  /\ pc = [t \in Threads |-> "idle"]
  /\ local = [t \in Threads |-> NoLocals]
  /\ acked = {} /\ returned = TRUE /\ overlap = FALSE /\ raced = {}

Goto(t, step) == pc' = [pc EXCEPT ![t] = step]
At(t, step)   == pc[t] = step

Row(t) == Head(local[t].rows)

Named(rows) == {rows[i].ext : i \in DOMAIN rows}

Leave(t) ==
  /\ Goto(t, "idle")
  /\ local' = [local EXCEPT ![t] = NoLocals]

Return(t) ==
  /\ Leave(t)
  /\ acked' = acked \cup local[t].batch
  /\ returned' = TRUE

\* The request ends with an exception: what it did to the store stays.
Fail(t) ==
  /\ Leave(t)
  /\ returned' = FALSE
  /\ UNCHANGED acked

----------------------------------------------------------------------------
(* ingest, ingest_document                                                 *)

Receive(t) ==
  \E request \in Requests[t] :
    /\ At(t, "idle")
    /\ received' = received + Len(request)
    /\ received' <= MaxChunks
    /\ local' = [local EXCEPT ![t].rows = request]
    /\ Goto(t, "document")
    /\ overlap' = (overlap \/ \E u \in Threads \ {t} : ~ At(u, "idle"))
    /\ raced' = raced \cup
         (Named(request) \cap UNION {Named(local[u].rows) : u \in Threads \ {t}})
    /\ UNCHANGED <<store, dirty, disk, issued, acked, returned>>

\* The document is registered, unless the row names one that is there, and the
\* store marked dirty.
Document(t) ==
  /\ At(t, "document")
  /\ local[t].rows # <<>>
  /\ dirty' = TRUE
  /\ \E new \in BOOLEAN :
       local' = [u \in Threads |->
                   [local[u] EXCEPT !.grew = @ \/ (new /\ At(u, "documents"))]]
  /\ Goto(t, "embed")
  /\ UNCHANGED <<store, disk, issued, received, ghosts>>

RowsDone(t) ==
  /\ At(t, "document")
  /\ local[t].rows = <<>>
  /\ Goto(t, "flush")
  /\ UNCHANGED <<store, dirty, disk, issued, received, local, ghosts>>

\* What may be received bounds what is issued: no thread ever waits here.
Embed(t) ==
  LET n == issued + 1 IN
  /\ At(t, "embed")
  /\ n \in ChunkIds
  /\ issued' = n
  /\ local' = [local EXCEPT ![t].new = n, ![t].batch = @ \cup {n}]
  /\ ann' = ann \cup {n}
  /\ Goto(t, "close")
  /\ UNCHANGED <<chunks, external_index, dirty, disk, received, ghosts>>

\* The encoder raises: the rows before stay in memory, no flush follows.
EmbedRaises(t) ==
  /\ At(t, "embed")
  /\ Fail(t)
  /\ UNCHANGED <<store, dirty, disk, issued, received, overlap, raced>>

\* The chunks with the predecessor of the row closed, if the row has a tx window.
Closed(t) ==
  [c \in ChunkIds |->
     IF Row(t).dated /\ c = external_index[Row(t).ext] /\ chunks[c] # NoChunk
     THEN [chunks[c] EXCEPT !.closedBy = local[t].new]
     ELSE chunks[c]]

\* Mutant: the index is set before the chunk is stored.
CloseAndIndex(t) ==
  /\ At(t, "close")
  /\ chunks' = Closed(t)
  /\ external_index' = [external_index EXCEPT ![Row(t).ext] = local[t].new]
  /\ Goto(t, "put")
  /\ UNCHANGED <<ann, dirty, disk, issued, received, local, ghosts>>

\* Mutant: the predecessor is taken out instead of closed.
CloseRemoves(t) ==
  /\ At(t, "close")
  /\ chunks' = [c \in ChunkIds |->
                  IF c = external_index[Row(t).ext] THEN NoChunk ELSE chunks[c]]
  /\ Goto(t, "put")
  /\ UNCHANGED <<ann, external_index, dirty, disk, issued, received, local, ghosts>>

\* Look the predecessor up and close its tx window.
Close(t) ==
  /\ At(t, "close")
  /\ chunks' = Closed(t)
  /\ Goto(t, "put")
  /\ UNCHANGED <<ann, external_index, dirty, disk, issued, received, local, ghosts>>

Put(t) ==
  /\ At(t, "put")
  /\ chunks' = [chunks EXCEPT ![local[t].new] =
                  [ext |-> Row(t).ext, dated |-> Row(t).dated, closedBy |-> None]]
  /\ Goto(t, "index")
  /\ UNCHANGED <<ann, external_index, dirty, disk, issued, received, local, ghosts>>

\* Mutant: an external id that is known keeps its entry.
PutIndexOnce(t) ==
  /\ At(t, "index")
  /\ external_index' = [external_index EXCEPT ![Row(t).ext] =
                           IF @ = None THEN local[t].new ELSE @]
  /\ dirty' = TRUE
  /\ local' = [local EXCEPT ![t].rows = Tail(@)]
  /\ Goto(t, "document")
  /\ UNCHANGED <<chunks, ann, disk, issued, received, ghosts>>

PutIndex(t) ==
  /\ At(t, "index")
  /\ external_index' = [external_index EXCEPT ![Row(t).ext] = local[t].new]
  /\ dirty' = TRUE
  /\ local' = [local EXCEPT ![t].rows = Tail(@)]
  /\ Goto(t, "document")
  /\ UNCHANGED <<chunks, ann, disk, issued, received, ghosts>>

----------------------------------------------------------------------------
(* flush, _persist                                                         *)

\* Mutant: a flush with nothing to write waits for something to write.
FlushWaits(t) ==
  /\ At(t, "flush")
  /\ ~ dirty
  /\ UNCHANGED vars

FlushNothing(t) ==
  /\ At(t, "flush")
  /\ ~ dirty
  /\ Return(t)
  /\ UNCHANGED <<store, dirty, disk, issued, received, overlap, raced>>

FlushBegin(t) ==
  /\ At(t, "flush")
  /\ dirty
  /\ Goto(t, "documents")
  /\ UNCHANGED <<store, dirty, disk, issued, received, local, ghosts>>

\* The documents are read, then the reading of the chunks begins.
DocumentsRead(t) ==
  /\ At(t, "documents")
  /\ local' = [local EXCEPT ![t].grew = FALSE, ![t].size = Cardinality(Stored)]
  /\ Goto(t, "snapshot")
  /\ UNCHANGED <<store, dirty, disk, issued, received, ghosts>>

Unread(t) == {c \in Stored : local[t].snap[c] = NoChunk}

Resized(t) == Cardinality(Stored) # local[t].size

SnapshotChunk(t) ==
  /\ At(t, "snapshot")
  /\ ~ Resized(t)
  /\ \E c \in Unread(t) :
       /\ \A d \in Unread(t) : c <= d
       /\ local' = [local EXCEPT ![t].snap[c] = chunks[c]]
  /\ UNCHANGED <<store, dirty, disk, issued, received, pc, ghosts>>

\* "dictionary changed size during iteration", over the documents or over the
\* chunks: the request fails, what it ingested stays in memory and the store
\* stays dirty.
SnapshotRaises(t) ==
  /\ \/ At(t, "documents") /\ local[t].grew
     \/ At(t, "snapshot") /\ Resized(t)
  /\ Fail(t)
  /\ UNCHANGED <<store, dirty, disk, issued, received, overlap, raced>>

SnapshotEnds(t) ==
  /\ At(t, "snapshot")
  /\ ~ Resized(t)
  /\ Unread(t) = {}
  /\ Goto(t, "dump")
  /\ UNCHANGED <<store, dirty, disk, issued, received, local, ghosts>>

\* The snapshot holds the index itself: json.dumps reads it, after the chunks.
Dump(t) ==
  /\ At(t, "dump")
  /\ local' = [local EXCEPT ![t].content = File(TRUE, local[t].snap, external_index)]
  /\ Goto(t, "open")
  /\ UNCHANGED <<store, dirty, disk, issued, received, ghosts>>

\* The file is opened, which truncates it.
Truncate(t) ==
  /\ At(t, "open")
  /\ local' = [u \in Threads |->
       [local[u] EXCEPT !.mixed = IF u = t THEN \E v \in Threads : At(v, "write")
                                  ELSE @ \/ At(u, "write")]]
  /\ disk' = Torn
  /\ Goto(t, "write")
  /\ UNCHANGED <<store, dirty, issued, received, ghosts>>

\* Two writes that overlap may leave the tail of the longer text behind the
\* shorter one, which does not parse.
Write(t) ==
  /\ At(t, "write")
  /\ \/ disk' = local[t].content
     \/ local[t].mixed /\ disk' = Torn
  /\ Goto(t, "clean")
  /\ UNCHANGED <<store, dirty, issued, received, local, ghosts>>

\* Mutant: the mark is taken back although the write failed.
WriteRaisesClean(t) ==
  /\ \/ At(t, "open") /\ UNCHANGED disk
     \/ At(t, "write") /\ disk' \in {disk, Torn}
  /\ dirty' = FALSE
  /\ Fail(t)
  /\ UNCHANGED <<store, issued, received, overlap, raced>>

\* The file cannot be opened, or a part of the text is written and then nothing.
WriteRaises(t) ==
  /\ \/ At(t, "open") /\ UNCHANGED disk
     \/ At(t, "write") /\ disk' \in {disk, Torn}
  /\ Fail(t)
  /\ UNCHANGED <<store, dirty, issued, received, overlap, raced>>

Clean(t) ==
  /\ At(t, "clean")
  /\ dirty' = FALSE
  /\ Return(t)
  /\ UNCHANGED <<store, disk, issued, received, overlap, raced>>

----------------------------------------------------------------------------
Serve(t) ==
  \/ Document(t) \/ RowsDone(t) \/ Embed(t) \/ EmbedRaises(t)
  \/ Close(t) \/ Put(t) \/ PutIndex(t)
  \/ FlushNothing(t) \/ FlushBegin(t) \/ DocumentsRead(t)
  \/ SnapshotChunk(t) \/ SnapshotRaises(t) \/ SnapshotEnds(t) \/ Dump(t)
  \/ Truncate(t) \/ Write(t) \/ WriteRaises(t) \/ Clean(t)

Next == \E t \in Threads : Receive(t) \/ Serve(t)

Spec == Init /\ [][Next]_vars

\* A thread that serves a request keeps running; no request has to come.
FairSpec == Spec /\ \A t \in Threads : WF_vars(Serve(t))

----------------------------------------------------------------------------
(* Properties.                                                             *)

StoredOn(file) == {c \in ChunkIds : file.chunks[c] # NoChunk}

AllIdle == \A t \in Threads : At(t, "idle")

Files == [ok : BOOLEAN, chunks : [ChunkIds -> Chunk \cup {NoChunk}],
          index : [ExternalIds -> ChunkIds \cup {None}]]

Locals ==
  [rows : Seq(Rows), new : ChunkIds \cup {None}, batch : SUBSET ChunkIds,
   grew : BOOLEAN, size : Nat, snap : [ChunkIds -> Chunk \cup {NoChunk}], content : Files, mixed : BOOLEAN]

Steps == {"idle", "document", "embed", "close", "put", "index",
          "flush", "documents", "snapshot", "dump", "open", "write", "clean"}

TypeOK ==
  /\ chunks \in [ChunkIds -> Chunk \cup {NoChunk}]
  /\ ann \subseteq ChunkIds
  /\ external_index \in [ExternalIds -> ChunkIds \cup {None}]
  /\ dirty \in BOOLEAN /\ returned \in BOOLEAN /\ overlap \in BOOLEAN
  /\ disk \in Files
  /\ issued \in 0..MaxChunks /\ received \in 0..MaxChunks
  /\ pc \in [Threads -> Steps] /\ local \in [Threads -> Locals]
  /\ acked \subseteq ChunkIds /\ raced \subseteq ExternalIds

\* Whoever looks at the store between two steps of any request finds the chunk
\* an external id names, under that external id, and a vector for every chunk
\* (dao.py 87-97, 138-140: vector, chunk, index, in that order).
ReadersFindChunks ==
  /\ \A e \in ExternalIds :
       external_index[e] # None =>
         external_index[e] \in Stored /\ chunks[external_index[e]].ext = e
  /\ Stored \subseteq ann

VersionsOf(e) == {c \in Stored : chunks[c].ext = e}

\* The versions of e that came after c.
Successors(c, e) == {d \in VersionsOf(e) : c < d}

\* At rest, the index names the newest version of an external id, and a version
\* is closed by the one that came right after it if that one has a tx window,
\* and by no other, however the requests of other external ids interleave and
\* fail.  Only two requests that had rows of the id at the same time may have
\* missed each other's version (dao.py 99-140).
LineageHoldsUnlessRaced ==
  AllIdle => \A e \in ExternalIds \ raced :
    /\ external_index[e] = None => VersionsOf(e) = {}
    /\ \A c \in VersionsOf(e) :
         IF Successors(c, e) = {}
         THEN external_index[e] = c /\ chunks[c].closedBy = None
         ELSE \E d \in Successors(c, e) :
                /\ \A b \in Successors(c, e) : d <= b
                /\ chunks[c].closedBy = IF chunks[d].dated THEN d ELSE None

\* A snapshot holds no chunk, closing or entry of the index that memory did not
\* have, even when it was taken while other threads ingested (dao.py 191-199).
SnapshotIsPast ==
  /\ \A c \in StoredOn(disk) :
       /\ c \in Stored
       /\ disk.chunks[c].closedBy # None => chunks[c].closedBy # None
  /\ \A e \in ExternalIds : disk.index[e] # None =>
       disk.index[e] \in Stored /\ chunks[disk.index[e]].ext = e

\* As long as requests are never in progress together, one that returns leaves
\* memory and file equal, whatever raised before it; and after one that raised
\* the store is dirty or as the file has it, so that no later flush is skipped
\* (dao.py 87-97, 186-200, ingest_service.py 121-148).
SerialRequestsAreSaved ==
  ~ overlap /\ AllIdle =>
    /\ returned => ~ dirty
    /\ dirty \/ disk = File(TRUE, chunks, external_index)

\* Every request comes to an end: no thread waits for another one.
RequestsEnd ==
  \A t \in Threads : ~ At(t, "idle") ~> At(t, "idle")

\* The docstring of flush (dao.py 182-184) says that current state is persisted
\* when dirty: at rest and not dirty, the chunks of every request that returned
\* would be on disk.
AckedIsSaved == AllIdle /\ ~ dirty => acked \subseteq StoredOn(disk)

============================================================================
