-------------------------- MODULE PVDBThreadsProofs --------------------------
(***************************************************************************)
(* What PVDBThreads guarantees for any number of threads, requests of any  *)
(* length and any number of chunks.                                        *)
(***************************************************************************)
EXTENDS PVDBThreads, FiniteSetTheorems, TLAPS

USE ThreadsAssumption

----------------------------------------------------------------------------
(* The invariant.                                                          *)

\* A request with a row in hand has one, and the chunk it is storing is its own.
WorkOf(t) ==
  /\ pc[t] \in {"embed", "close", "put", "index"} => local[t].rows # <<>>
  /\ pc[t] \in {"close", "put", "index"} => local[t].new \in ann
  /\ pc[t] \in {"close", "put"} => local[t].new \notin Stored
  /\ At(t, "index") => local[t].new \in Stored /\ chunks[local[t].new].ext = Row(t).ext
  /\ \A u \in Threads \ {t} :
       pc[t] \in {"close", "put", "index"} /\ pc[u] \in {"close", "put", "index"} =>
         local[t].new # local[u].new

WorkInv == \A t \in Threads : WorkOf(t)

\* No id is used before it is issued.
IssuedInv == \A c \in ann : c <= issued

\* What has been read from memory stays true of it.
Past(cs) ==
  \A c \in ChunkIds : cs[c] # NoChunk =>
    /\ c \in Stored
    /\ cs[c].closedBy # None => chunks[c].closedBy # None

PastIndex(ix) ==
  \A e \in ExternalIds : ix[e] # None => ix[e] \in Stored /\ chunks[ix[e]].ext = e

PastFile(file) == Past(file.chunks) /\ PastIndex(file.index)

PastInv ==
  /\ PastFile(disk)
  /\ \A t \in Threads : Past(local[t].snap) /\ PastFile(local[t].content)

IInv == TypeOK /\ WorkInv /\ IssuedInv /\ ReadersFindChunks /\ PastInv

----------------------------------------------------------------------------
\* The values that mean nothing have the types of values.
LEMMA Blanks ==
  /\ NoChunks \in [ChunkIds -> Chunk \cup {NoChunk}]
  /\ NoIndex \in [ExternalIds -> ChunkIds \cup {None}]
  /\ Torn \in Files
  /\ NoLocals \in Locals
BY DEF NoChunks, NoIndex, Torn, File, Files, NoLocals, Locals, Rows

\* An absent chunk is none of the chunks.
LEMMA NoChunkIsNone == \A ch \in Chunk : ch # NoChunk /\ ch.ext # None
BY DEF Chunk, NoChunk

\* None is no chunk id.
LEMMA NoneIsNoChunk == \A c \in ChunkIds : c # None
OBVIOUS

\* A file of chunks and an index is a file.
LEMMA FileType ==
  ASSUME NEW ok \in BOOLEAN, NEW cs \in [ChunkIds -> Chunk \cup {NoChunk}],
         NEW ix \in [ExternalIds -> ChunkIds \cup {None}]
  PROVE  /\ File(ok, cs, ix) \in Files
         /\ File(ok, cs, ix).chunks = cs
         /\ File(ok, cs, ix).index = ix
         /\ File(ok, cs, ix).ok = ok
BY DEF File, Files

\* An empty snapshot is past.
LEMMA NothingIsPast == Past(NoChunks) /\ PastIndex(NoIndex) /\ PastFile(Torn)
BY DEF Past, PastIndex, PastFile, NoChunks, NoIndex, Torn, File

\* What is in memory is past.
LEMMA MemoryIsPast == IInv => Past(chunks) /\ PastIndex(external_index)
BY DEF IInv, Past, PastIndex, Stored, TypeOK, ReadersFindChunks

\* The past stays past as long as chunks are neither taken out, renamed nor opened
\* again.
LEMMA PastStays ==
  ASSUME \A c \in Stored :
           /\ c \in Stored' /\ chunks'[c].ext = chunks[c].ext
           /\ chunks[c].closedBy # None => chunks'[c].closedBy # None
  PROVE  /\ \A cs : Past(cs) => Past(cs)'
         /\ \A file : PastFile(file) => PastFile(file)'
BY DEF Past, PastIndex, PastFile

LEMMA InitInv == Init => IInv
<1> SUFFICES ASSUME Init
             PROVE  IInv
  OBVIOUS
<1>1. TypeOK
  <2>1. disk \in Files
    BY Blanks, FileType DEF Init
  <2>2. pc \in [Threads -> Steps] /\ local \in [Threads -> Locals]
    BY Blanks DEF Init, Steps
  <2>3. issued \in 0..MaxChunks /\ received \in 0..MaxChunks
    BY DEF Init
  <2>4. QED
    BY <2>1, <2>2, <2>3, Blanks DEF Init, TypeOK
<1>2. Stored = {}
  BY DEF Init, Stored, NoChunks
<1>3. WorkInv /\ IssuedInv
  BY DEF Init, WorkInv, WorkOf, IssuedInv, At
<1>4. ReadersFindChunks
  BY <1>2 DEF Init, ReadersFindChunks, NoIndex
<1>5. PastInv
  <2>1. disk.chunks = NoChunks /\ disk.index = NoIndex
    BY Zenon DEF Init, File
  <2>2. \A t \in Threads : local[t].snap = NoChunks /\ local[t].content = Torn
    BY DEF Init, NoLocals
  <2>3. QED
    BY <2>1, <2>2, NothingIsPast, Zenon DEF PastInv, PastFile
<1>6. QED
  BY <1>1, <1>3, <1>4, <1>5 DEF IInv

----------------------------------------------------------------------------
(* Steps that leave the store alone.                                       *)

\* A step of the request or the flush of thread t that touches neither the store
\* nor a row in hand keeps the invariant, if it keeps types and past.
LEMMA StillInv ==
  ASSUME IInv, TypeOK', PastInv', UNCHANGED <<store, issued>>,
         \A u \in Threads :
           /\ pc'[u] \in {"close", "put", "index"} =>
                pc'[u] = pc[u] /\ local'[u].rows = local[u].rows /\ local'[u].new = local[u].new
           /\ pc'[u] = "embed" => local'[u].rows # <<>>
  PROVE  IInv'
<1>1. UNCHANGED <<chunks, ann, external_index, issued>> /\ Stored' = Stored
  BY DEF store, Stored
<1>2. WorkInv'
  BY <1>1 DEF IInv, WorkInv, WorkOf, At, Row
<1>3. QED
  BY <1>1, <1>2 DEF IInv, IssuedInv, ReadersFindChunks, Stored

\* Memory unchanged, the past is as past as before.
LEMMA SamePast ==
  ASSUME UNCHANGED chunks
  PROVE  /\ \A cs : Past(cs) => Past(cs)'
         /\ \A file : PastFile(file) => PastFile(file)'
BY PastStays DEF Stored

\* Leaving a request forgets its locals.
LEMMA LeaveInv ==
  ASSUME IInv, NEW t \in Threads, Leave(t),
         UNCHANGED <<store, issued, received, overlap, raced>>,
         disk' \in {disk, Torn}, dirty' \in BOOLEAN, returned' \in BOOLEAN,
         acked' \subseteq ChunkIds
  PROVE  IInv'
<1>1. UNCHANGED chunks
  BY DEF store
<1>2. TypeOK'
  BY Blanks DEF IInv, TypeOK, Leave, Goto, store, Steps
<1>3. \A u \in Threads : local'[u] = IF u = t THEN NoLocals ELSE local[u]
  BY DEF IInv, TypeOK, Leave
<1>4. \A u \in Threads : pc'[u] = IF u = t THEN "idle" ELSE pc[u]
  BY DEF IInv, TypeOK, Leave, Goto
<1>5. Past(NoLocals.snap)' /\ PastFile(NoLocals.content)' /\ PastFile(Torn)'
  BY <1>1, NothingIsPast, SamePast DEF NoLocals
<1>6. PastInv'
  BY <1>1, <1>3, <1>5, SamePast DEF IInv, PastInv
<1>7. QED
  BY <1>2, <1>3, <1>4, <1>6, StillInv DEF IInv, WorkInv, WorkOf

\* The external ids of rows are external ids.
LEMMA NamedAreIds ==
  ASSUME NEW rows \in Seq(Rows)
  PROVE  Named(rows) \subseteq ExternalIds
<1>1. \A i \in DOMAIN rows : rows[i] \in Rows
  OBVIOUS
<1>2. \A row \in Rows : row.ext \in ExternalIds
  BY DEF Rows
<1>3. QED
  BY <1>1, <1>2 DEF Named

\* The rows of a request and its row in hand are rows.
LEMMA RowType ==
  ASSUME TypeOK, NEW t \in Threads
  PROVE  /\ local[t] \in Locals /\ local[t].rows \in Seq(Rows)
         /\ local[t].rows # <<>> =>
              /\ Row(t) \in Rows /\ Row(t).ext \in ExternalIds /\ Row(t).dated \in BOOLEAN
              /\ Tail(local[t].rows) \in Seq(Rows)
<1>1. local[t] \in Locals /\ local[t].rows \in Seq(Rows)
  BY DEF TypeOK, Locals
<1>2. ASSUME local[t].rows # <<>>
      PROVE  Row(t) \in Rows /\ Tail(local[t].rows) \in Seq(Rows)
  BY <1>1, <1>2 DEF Row
<1>3. \A row \in Rows : row.ext \in ExternalIds /\ row.dated \in BOOLEAN
  BY DEF Rows
<1>4. QED
  BY <1>1, <1>2, <1>3

\* Raced external ids are external ids, and a request only adds to them.
LEMMA RacedType ==
  ASSUME TypeOK, NEW t \in Threads, Receive(t)
  PROVE  raced' \subseteq ExternalIds /\ raced \subseteq raced'
<1>1. PICK request \in Requests[t] :
        raced' = raced \cup
          (Named(request) \cap UNION {Named(local[u].rows) : u \in Threads \ {t}})
  BY DEF Receive
<1>2. Named(request) \subseteq ExternalIds
  BY NamedAreIds
<1>3. QED
  BY <1>1, <1>2 DEF TypeOK

\* A document only marks the requests that are reading the documents.
LEMMA DocumentLocals ==
  ASSUME TypeOK, NEW t \in Threads, Document(t), NEW u \in Threads
  PROVE  /\ local'[u] \in Locals
         /\ local'[u].rows = local[u].rows /\ local'[u].new = local[u].new
         /\ local'[u].snap = local[u].snap /\ local'[u].content = local[u].content
         /\ ~ At(u, "documents") => local'[u] = local[u]
<1>1. local[u] \in Locals
  BY DEF TypeOK
<1>2. PICK new \in BOOLEAN :
        local'[u] = [local[u] EXCEPT !.grew = local[u].grew \/ (new /\ At(u, "documents"))]
  BY DEF Document
<1>3. PICK grew \in BOOLEAN :
        /\ local'[u] = [local[u] EXCEPT !.grew = grew]
        /\ ~ At(u, "documents") => grew = local[u].grew
  <2>1. (local[u].grew \/ (new /\ At(u, "documents"))) \in BOOLEAN
    OBVIOUS
  <2>2. local[u].grew \in BOOLEAN
    BY <1>1 DEF Locals
  <2>3. ~ At(u, "documents") =>
          (local[u].grew \/ (new /\ At(u, "documents"))) = local[u].grew
    BY <2>2
  <2>4. QED
    BY <1>2, <2>1, <2>3
<1>4. QED
  BY <1>1, <1>3 DEF Locals

LEMMA RequestInv ==
  ASSUME IInv, NEW t \in Threads, Receive(t) \/ Document(t) \/ RowsDone(t)
  PROVE  IInv'
<1> USE DEF Goto, At
<1>1. CASE Receive(t)
  <2>1. PICK request \in Requests[t] :
          /\ received' = received + Len(request)
          /\ local' = [local EXCEPT ![t].rows = request]
    BY <1>1 DEF Receive
  <2>2. request \in Seq(Rows) /\ Len(request) \in Nat
    OBVIOUS
  <2>3. received' \in 0..MaxChunks
    BY <1>1, <2>1, <2>2 DEF Receive, IInv, TypeOK
  <2>4. local' \in [Threads -> Locals]
    <3>1. local[t] \in Locals
      BY DEF IInv, TypeOK
    <3>2. [local[t] EXCEPT !.rows = request] \in Locals
      BY <2>2, <3>1 DEF Locals
    <3>3. QED
      BY <2>1, <3>2 DEF IInv, TypeOK
  <2>5. TypeOK'
    <3>1. raced' \subseteq ExternalIds
      BY <1>1, <2>1, RacedType DEF Receive, IInv, TypeOK
    <3>2. QED
      BY <1>1, <2>3, <2>4, <3>1 DEF Receive, IInv, TypeOK, Steps, store
  <2>6. \A u \in Threads : local'[u].snap = local[u].snap /\ local'[u].content = local[u].content
    BY <2>1 DEF IInv, TypeOK, Locals
  <2>7. PastInv'
    BY <1>1, <2>6, SamePast DEF Receive, IInv, PastInv, store
  <2>8. \A u \in Threads : pc'[u] \in {"embed", "close", "put", "index"} => u # t
    BY <1>1 DEF Receive, IInv, TypeOK
  <2>9. QED
    BY <1>1, <2>1, <2>5, <2>7, <2>8, StillInv DEF Receive, IInv, TypeOK, WorkInv, WorkOf
<1>2. CASE Document(t)
  <2>1. \A u \in Threads :
          /\ local'[u] \in Locals
          /\ local'[u].rows = local[u].rows /\ local'[u].new = local[u].new
          /\ local'[u].snap = local[u].snap /\ local'[u].content = local[u].content
    BY <1>2, DocumentLocals DEF IInv
  <2>2. local' \in [Threads -> Locals]
    <3>1. DOMAIN local' = Threads /\ local' = [u \in DOMAIN local' |-> local'[u]]
      BY <1>2 DEF Document
    <3>2. QED
      BY <2>1, <3>1
  <2>3. TypeOK'
    BY <1>2, <2>2 DEF Document, IInv, TypeOK, Steps, store, ghosts
  <2>4. PastInv'
    BY <1>2, <2>1, SamePast DEF Document, IInv, PastInv, store
  <2>5. QED
    BY <1>2, <2>1, <2>3, <2>4, StillInv DEF Document, IInv, TypeOK, WorkInv, WorkOf
<1>3. CASE RowsDone(t)
  <2>1. TypeOK'
    BY <1>3 DEF RowsDone, IInv, TypeOK, Steps, store, ghosts
  <2>2. PastInv'
    BY <1>3, SamePast DEF RowsDone, IInv, PastInv, store
  <2>3. QED
    BY <1>3, <2>1, <2>2, StillInv DEF RowsDone, IInv, TypeOK, WorkInv, WorkOf
<1>4. QED
  BY <1>1, <1>2, <1>3

----------------------------------------------------------------------------
(* Steps that store a row.                                                 *)

LEMMA EmbedInv == ASSUME IInv, NEW t \in Threads, Embed(t) PROVE IInv'
<1> DEFINE n == issued + 1
<1> USE DEF Goto, At
<1>1. n \in ChunkIds /\ n \notin ann /\ n \notin Stored
  BY DEF Embed, IInv, IssuedInv, ReadersFindChunks, TypeOK, ChunkIds
<1>2. \A u \in Threads :
        /\ local'[u].new = IF u = t THEN n ELSE local[u].new
        /\ local'[u].rows = local[u].rows
        /\ local'[u].snap = local[u].snap /\ local'[u].content = local[u].content
        /\ pc'[u] = IF u = t THEN "close" ELSE pc[u]
  BY <1>1 DEF Embed, IInv, TypeOK, Locals
<1>3. TypeOK'
  <2>1. local' \in [Threads -> Locals]
    <3>1. local[t] \in Locals
      BY DEF IInv, TypeOK
    <3>2. [local[t] EXCEPT !.new = n, !.batch = @ \cup {n}] \in Locals
      BY <1>1, <3>1 DEF Locals
    <3>3. QED
      BY <3>2 DEF Embed, IInv, TypeOK
  <2>2. issued' \in 0..MaxChunks
    BY <1>1 DEF Embed, IInv, TypeOK, ChunkIds
  <2>3. QED
    BY <1>1, <2>1, <2>2 DEF Embed, IInv, TypeOK, Steps, ghosts
<1>4. UNCHANGED <<chunks, external_index, disk>> /\ Stored' = Stored /\ ann' = ann \cup {n}
  BY DEF Embed, Stored
<1>5. WorkInv'
  <2> SUFFICES ASSUME NEW u \in Threads
               PROVE  WorkOf(u)'
    BY DEF WorkInv
  <2>1. WorkOf(t) /\ WorkOf(u) /\ pc[t] = "embed"
    BY DEF Embed, IInv, WorkInv
  <2>2. \A v \in Threads : pc[v] \in {"close", "put", "index"} => local[v].new # n
    BY <1>1 DEF IInv, WorkInv, WorkOf
  <2>3. QED
    BY <1>1, <1>2, <1>4, <2>1, <2>2 DEF WorkOf, Row
<1>6. IssuedInv'
  BY <1>1, <1>4 DEF Embed, IInv, IssuedInv, TypeOK, ChunkIds
<1>7. ReadersFindChunks'
  BY <1>4 DEF IInv, ReadersFindChunks
<1>8. PastInv'
  BY <1>2, <1>4, SamePast DEF IInv, PastInv
<1>9. QED
  BY <1>3, <1>5, <1>6, <1>7, <1>8 DEF IInv

LEMMA CloseInv == ASSUME IInv, NEW t \in Threads, Close(t) PROVE IInv'
<1> USE DEF Goto, At
<1>1. local[t].new \in ChunkIds
  BY DEF Close, IInv, WorkInv, WorkOf, TypeOK
<1>2. \A c \in ChunkIds :
        /\ c \in Stored => chunks[c] \in Chunk
        /\ chunks'[c] = IF Row(t).dated /\ c = external_index[Row(t).ext] /\ c \in Stored
                        THEN [chunks[c] EXCEPT !.closedBy = local[t].new] ELSE chunks[c]
  BY DEF Close, Closed, IInv, TypeOK, Stored
<1>3. \A c \in Stored :
        /\ chunks'[c] \in Chunk
        /\ chunks'[c].ext = chunks[c].ext
        /\ chunks[c].closedBy # None => chunks'[c].closedBy # None
  BY <1>1, <1>2 DEF Chunk, Stored
<1>4. Stored' = Stored
  BY <1>2, <1>3, NoChunkIsNone DEF Stored
<1>5. TypeOK'
  <2>1. chunks' \in [ChunkIds -> Chunk \cup {NoChunk}]
    BY <1>2, <1>3 DEF Close, Closed, Stored, IInv, TypeOK
  <2>2. QED
    BY <2>1 DEF Close, IInv, TypeOK, Steps, ghosts
<1>6. \A u \in Threads : pc'[u] = IF u = t THEN "put" ELSE pc[u]
  BY DEF Close, IInv, TypeOK
<1>7. UNCHANGED <<ann, external_index, disk, issued, local>>
  BY DEF Close
<1>8. WorkInv'
  <2> SUFFICES ASSUME NEW u \in Threads
               PROVE  WorkOf(u)'
    BY DEF WorkInv
  <2>1. WorkOf(u) /\ pc[t] = "close"
    BY DEF Close, IInv, WorkInv
  <2>2. pc'[u] \in {"close", "put", "index"} <=> pc[u] \in {"close", "put", "index"}
    BY <1>6, <2>1
  <2>3. \A v \in Threads \ {u} :
          pc'[u] \in {"close", "put", "index"} /\ pc'[v] \in {"close", "put", "index"} =>
            local'[u].new # local'[v].new
    BY <1>6, <1>7, <2>1 DEF WorkOf
  <2>4. QED
    BY <1>3, <1>4, <1>6, <1>7, <2>1, <2>2, <2>3 DEF WorkOf, Row
<1>9. ReadersFindChunks'
  BY <1>3, <1>4, <1>7 DEF IInv, ReadersFindChunks
<1>10. PastInv'
  BY <1>3, <1>4, <1>7, PastStays DEF IInv, PastInv
<1>11. QED
  BY <1>5, <1>7, <1>8, <1>9, <1>10 DEF IInv, IssuedInv

LEMMA PutInv == ASSUME IInv, NEW t \in Threads, Put(t) PROVE IInv'
<1> USE DEF Goto, At
<1> DEFINE n == local[t].new
           new == [ext |-> Row(t).ext, dated |-> Row(t).dated, closedBy |-> None]
<1>1. n \in ChunkIds /\ n \in ann /\ n \notin Stored
  BY DEF Put, IInv, WorkInv, WorkOf, TypeOK
<1>2. Row(t) \in Rows
  BY DEF Put, IInv, WorkInv, WorkOf, TypeOK, Locals, Row
<1>3. new \in Chunk
  BY <1>2 DEF Chunk, Rows
<1>4. \A c \in ChunkIds : chunks'[c] = IF c = n THEN new ELSE chunks[c]
  BY <1>1 DEF Put, IInv, TypeOK
<1>5. Stored' = Stored \cup {n}
  BY <1>1, <1>3, <1>4, NoChunkIsNone DEF Stored
<1>6. TypeOK'
  BY <1>1, <1>3 DEF Put, IInv, TypeOK, Steps, ghosts
<1>7. \A u \in Threads : pc'[u] = IF u = t THEN "index" ELSE pc[u]
  BY DEF Put, IInv, TypeOK
<1>8. UNCHANGED <<ann, external_index, disk, issued, local>>
  BY DEF Put
<1>9. WorkInv'
  BY <1>1, <1>4, <1>5, <1>7, <1>8 DEF Put, IInv, WorkInv, WorkOf, Row, TypeOK
<1>10. ReadersFindChunks'
  BY <1>1, <1>4, <1>5, <1>8 DEF IInv, ReadersFindChunks, Stored
<1>11. \A c \in Stored : c \in Stored' /\ chunks'[c] = chunks[c]
  BY <1>1, <1>4, <1>5 DEF Stored
<1>12. PastInv'
  BY <1>8, <1>11, PastStays DEF IInv, PastInv
<1>13. QED
  BY <1>6, <1>8, <1>9, <1>10, <1>12 DEF IInv, IssuedInv

LEMMA PutIndexInv == ASSUME IInv, NEW t \in Threads, PutIndex(t) PROVE IInv'
<1> USE DEF Goto, At
<1> DEFINE n == local[t].new
<1>1. local[t].rows # <<>> /\ n \in ann /\ n \in ChunkIds /\ chunks[n].ext = Row(t).ext
  BY DEF PutIndex, IInv, WorkInv, WorkOf, TypeOK
<1>2. Row(t).ext \in ExternalIds /\ Tail(local[t].rows) \in Seq(Rows)
  BY <1>1, RowType DEF IInv
<1>3. n \in Stored
  BY <1>1, <1>2 DEF Stored, NoChunk
<1>4. TypeOK'
  <2>1. local' \in [Threads -> Locals]
    <3>1. local[t] \in Locals
      BY DEF IInv, TypeOK
    <3>2. [local[t] EXCEPT !.rows = Tail(@)] \in Locals
      BY <1>2, <3>1 DEF Locals
    <3>3. QED
      BY <3>2 DEF PutIndex, IInv, TypeOK
  <2>2. QED
    BY <1>1, <2>1 DEF PutIndex, IInv, TypeOK, Steps, ghosts
<1>5. \A u \in Threads :
        /\ local'[u].new = local[u].new
        /\ local'[u].rows = IF u = t THEN Tail(local[t].rows) ELSE local[u].rows
        /\ local'[u].snap = local[u].snap /\ local'[u].content = local[u].content
        /\ pc'[u] = IF u = t THEN "document" ELSE pc[u]
  BY DEF PutIndex, IInv, TypeOK, Locals
<1>6. UNCHANGED <<chunks, ann, disk, issued>> /\ Stored' = Stored
  BY DEF PutIndex, Stored
<1>7. WorkInv'
  BY <1>5, <1>6 DEF IInv, WorkInv, WorkOf, Row
<1>8. \A e \in ExternalIds : external_index'[e] = IF e = Row(t).ext THEN n ELSE external_index[e]
  BY DEF PutIndex, IInv, TypeOK
<1>9. ReadersFindChunks'
  BY <1>1, <1>3, <1>6, <1>8 DEF IInv, ReadersFindChunks
<1>10. PastInv'
  BY <1>5, <1>6, SamePast DEF IInv, PastInv
<1>11. QED
  BY <1>4, <1>6, <1>7, <1>9, <1>10 DEF IInv, IssuedInv

----------------------------------------------------------------------------
(* The flush.                                                              *)

LEMMA StoredIsFinite == Cardinality(Stored) \in Nat
<1>1. IsFiniteSet(ChunkIds)
  BY FS_Interval DEF ChunkIds
<1>2. IsFiniteSet(Stored)
  BY <1>1, FS_Subset DEF Stored
<1>3. QED
  BY <1>2, FS_CardinalityType

LEMMA LeavingInv ==
  ASSUME IInv, NEW t \in Threads,
         \/ FlushNothing(t) \/ Clean(t)
         \/ EmbedRaises(t) \/ SnapshotRaises(t) \/ WriteRaises(t)
  PROVE  IInv'
<1>1. local[t].batch \subseteq ChunkIds /\ disk' \in {disk, Torn} /\ Leave(t)
  BY DEF FlushNothing, Clean, EmbedRaises, SnapshotRaises, WriteRaises, Return, Fail,
         IInv, TypeOK, Locals
<1>2. UNCHANGED <<store, issued, received, overlap, raced>> /\ dirty' \in BOOLEAN
  BY DEF FlushNothing, Clean, EmbedRaises, SnapshotRaises, WriteRaises, IInv, TypeOK
<1>3. returned' \in BOOLEAN /\ acked' \subseteq ChunkIds
  BY <1>1 DEF FlushNothing, Clean, EmbedRaises, SnapshotRaises, WriteRaises, Return, Fail,
              IInv, TypeOK
<1>4. QED
  BY <1>1, <1>2, <1>3, LeaveInv

\* Steps of the flush that read nothing.
LEMMA FlushBeginInv ==
  ASSUME IInv, NEW t \in Threads, FlushBegin(t) \/ SnapshotEnds(t)
  PROVE  IInv'
<1> USE DEF Goto, At
<1>1. TypeOK'
  BY DEF FlushBegin, SnapshotEnds, IInv, TypeOK, Steps, store, ghosts
<1>2. PastInv'
  BY SamePast DEF FlushBegin, SnapshotEnds, IInv, PastInv, store
<1>3. QED
  BY <1>1, <1>2, StillInv DEF FlushBegin, SnapshotEnds, IInv, TypeOK, WorkInv, WorkOf

LEMMA DocumentsReadInv == ASSUME IInv, NEW t \in Threads, DocumentsRead(t) PROVE IInv'
<1> USE DEF Goto, At
<1>1. local' \in [Threads -> Locals]
  <2>1. local[t] \in Locals
    BY DEF IInv, TypeOK
  <2>2. [local[t] EXCEPT !.grew = FALSE, !.size = Cardinality(Stored)] \in Locals
    BY <2>1, StoredIsFinite DEF Locals
  <2>3. QED
    BY <2>2 DEF DocumentsRead, IInv, TypeOK
<1>2. TypeOK'
  BY <1>1 DEF DocumentsRead, IInv, TypeOK, Steps, store, ghosts
<1>3. \A u \in Threads :
        /\ local'[u].snap = local[u].snap /\ local'[u].content = local[u].content
        /\ local'[u].rows = local[u].rows /\ local'[u].new = local[u].new
  BY DEF DocumentsRead, IInv, TypeOK, Locals
<1>4. PastInv'
  BY <1>3, SamePast DEF DocumentsRead, IInv, PastInv, store
<1>5. QED
  BY <1>2, <1>3, <1>4, StillInv DEF DocumentsRead, IInv, TypeOK, WorkInv, WorkOf

LEMMA SnapshotChunkInv == ASSUME IInv, NEW t \in Threads, SnapshotChunk(t) PROVE IInv'
<1> USE DEF Goto, At
<1>1. PICK c \in ChunkIds : local' = [local EXCEPT ![t].snap[c] = chunks[c]]
  BY DEF SnapshotChunk, Unread, Stored
<1>2. local' \in [Threads -> Locals]
  <2>1. local[t] \in Locals /\ chunks[c] \in Chunk \cup {NoChunk}
    BY DEF IInv, TypeOK
  <2>2. [local[t] EXCEPT !.snap[c] = chunks[c]] \in Locals
    BY <2>1 DEF Locals
  <2>3. QED
    BY <1>1, <2>2 DEF IInv, TypeOK
<1>3. TypeOK'
  BY <1>2 DEF SnapshotChunk, IInv, TypeOK, store, ghosts
<1>4. \A u \in Threads :
        /\ local'[u].content = local[u].content
        /\ local'[u].rows = local[u].rows /\ local'[u].new = local[u].new
        /\ u # t => local'[u].snap = local[u].snap
  BY <1>1 DEF IInv, TypeOK, Locals
<1>5. \A d \in ChunkIds : local'[t].snap[d] = IF d = c THEN chunks[d] ELSE local[t].snap[d]
  BY <1>1 DEF IInv, TypeOK, Locals
<1>6. UNCHANGED <<chunks, disk>> /\ Stored' = Stored
  BY DEF SnapshotChunk, store, Stored
<1>7. Past(local[t].snap)'
  BY <1>5, <1>6, MemoryIsPast DEF IInv, PastInv, Past
<1>8. PastInv'
  BY <1>4, <1>6, <1>7, SamePast DEF IInv, PastInv
<1>9. QED
  BY <1>3, <1>4, <1>8, StillInv DEF SnapshotChunk, IInv, TypeOK, WorkInv, WorkOf

LEMMA DumpInv == ASSUME IInv, NEW t \in Threads, Dump(t) PROVE IInv'
<1> USE DEF Goto, At
<1> DEFINE text == File(TRUE, local[t].snap, external_index)
<1>1. text \in Files /\ text.chunks = local[t].snap /\ text.index = external_index
  <2>1. local[t].snap \in [ChunkIds -> Chunk \cup {NoChunk}]
    BY DEF IInv, TypeOK, Locals
  <2>2. external_index \in [ExternalIds -> ChunkIds \cup {None}]
    BY DEF IInv, TypeOK
  <2>3. text.chunks = local[t].snap /\ text.index = external_index
    BY Zenon DEF File
  <2>4. text \in Files
    BY <2>1, <2>2 DEF File, Files
  <2>5. QED
    BY <2>3, <2>4
<1>2. local' \in [Threads -> Locals]
  <2>1. local[t] \in Locals
    BY DEF IInv, TypeOK
  <2>2. [local[t] EXCEPT !.content = text] \in Locals
    BY <1>1, <2>1 DEF Locals
  <2>3. QED
    BY <2>2 DEF Dump, IInv, TypeOK
<1>3. TypeOK'
  BY <1>2 DEF Dump, IInv, TypeOK, Steps, store, ghosts
<1>4. \A u \in Threads :
        /\ local'[u].rows = local[u].rows /\ local'[u].new = local[u].new
        /\ local'[u].snap = local[u].snap
        /\ local'[u].content = IF u = t THEN text ELSE local[u].content
  BY DEF Dump, IInv, TypeOK, Locals
<1>5. UNCHANGED <<chunks, disk>>
  BY DEF Dump, store
<1>6. PastFile(text)
  BY <1>1, MemoryIsPast DEF PastFile, IInv, PastInv
<1>7. PastInv'
  BY <1>4, <1>5, <1>6, SamePast DEF IInv, PastInv
<1>8. QED
  BY <1>3, <1>4, <1>7, StillInv DEF Dump, IInv, TypeOK, WorkInv, WorkOf

\* Opening the file only tells writes that overlap.
LEMMA TruncateLocals ==
  ASSUME TypeOK, NEW t \in Threads, Truncate(t), NEW u \in Threads
  PROVE  /\ local'[u] \in Locals
         /\ local'[u].rows = local[u].rows /\ local'[u].new = local[u].new
         /\ local'[u].snap = local[u].snap /\ local'[u].content = local[u].content
         /\ local'[u].grew = local[u].grew
<1>1. local[u] \in Locals
  BY DEF TypeOK
<1>2. PICK mixed \in BOOLEAN : local'[u] = [local[u] EXCEPT !.mixed = mixed]
  <2>1. (\E v \in Threads : At(v, "write")) \in BOOLEAN
    OBVIOUS
  <2>2. (local[u].mixed \/ At(u, "write")) \in BOOLEAN
    OBVIOUS
  <2>3. QED
    BY <2>1, <2>2 DEF Truncate
<1>3. QED
  BY <1>1, <1>2 DEF Locals

LEMMA TruncateInv == ASSUME IInv, NEW t \in Threads, Truncate(t) PROVE IInv'
<1> USE DEF Goto, At
<1>1. \A u \in Threads :
        /\ local'[u] \in Locals
        /\ local'[u].rows = local[u].rows /\ local'[u].new = local[u].new
        /\ local'[u].snap = local[u].snap /\ local'[u].content = local[u].content
  BY TruncateLocals DEF IInv
<1>2. TypeOK'
  <2>1. DOMAIN local' = Threads /\ local' = [u \in DOMAIN local' |-> local'[u]]
    BY DEF Truncate
  <2>2. local' \in [Threads -> Locals]
    BY <1>1, <2>1
  <2>3. QED
    BY <2>2, Blanks DEF Truncate, IInv, TypeOK, Steps, store, ghosts
<1>3. UNCHANGED chunks /\ disk' = Torn
  BY DEF Truncate, store
<1>4. PastInv'
  BY <1>1, <1>3, NothingIsPast, SamePast DEF IInv, PastInv
<1>5. QED
  BY <1>1, <1>2, <1>4, StillInv DEF Truncate, IInv, TypeOK, WorkInv, WorkOf

LEMMA WriteInv == ASSUME IInv, NEW t \in Threads, Write(t) PROVE IInv'
<1> USE DEF Goto, At
<1>1. disk' \in Files
  BY Blanks DEF Write, IInv, TypeOK, Locals
<1>2. TypeOK'
  BY <1>1 DEF Write, IInv, TypeOK, Steps, store, ghosts
<1>3. UNCHANGED <<chunks, local>>
  BY DEF Write, store
<1>4. PastFile(disk')
  BY NothingIsPast DEF Write, IInv, PastInv
<1>5. PastInv'
  BY <1>3, <1>4, SamePast DEF IInv, PastInv
<1>6. QED
  BY <1>2, <1>3, <1>5, StillInv DEF Write, IInv, TypeOK, WorkInv, WorkOf

----------------------------------------------------------------------------
LEMMA NextInv == IInv /\ [Next]_vars => IInv'
<1> SUFFICES ASSUME IInv, [Next]_vars
             PROVE  IInv'
  OBVIOUS
<1>1. ASSUME NEW t \in Threads, Receive(t) \/ Serve(t)
      PROVE  IInv'
  BY <1>1, RequestInv, EmbedInv, CloseInv, PutInv, PutIndexInv, LeavingInv, FlushBeginInv,
     DocumentsReadInv, SnapshotChunkInv, DumpInv, TruncateInv, WriteInv DEF Serve
<1>2. CASE UNCHANGED vars
  <2>1. UNCHANGED <<chunks, ann, external_index, dirty, disk, issued, received, pc, local,
                    received, acked, returned, overlap, raced>>
    BY <1>2 DEF vars, store, ghosts
  <2>2. TypeOK' /\ Stored' = Stored
    BY <2>1 DEF IInv, TypeOK, Stored
  <2>3. PastInv'
    BY <2>1, SamePast DEF IInv, PastInv
  <2>4. QED
    BY <2>1, <2>2, <2>3 DEF IInv, WorkInv, WorkOf, IssuedInv, ReadersFindChunks, At, Row
<1>3. QED
  BY <1>1, <1>2 DEF Next

THEOREM Invariance == Spec => []IInv
BY InitInv, NextInv, PTL DEF Spec

\* Every variable keeps its type, however the steps of the requests interleave.
THEOREM TypeCorrect == Spec => []TypeOK
<1>1. IInv => TypeOK
  BY DEF IInv
<1>2. QED
  BY <1>1, Invariance, PTL

\* Between any two steps of any number of requests, the chunk an external id
\* names is stored under it and every stored chunk has a vector (dao.py 87-97,
\* 138-140).
THEOREM ReadersAlwaysFindChunks == Spec => []ReadersFindChunks
<1>1. IInv => ReadersFindChunks
  BY DEF IInv
<1>2. QED
  BY <1>1, Invariance, PTL

\* What is on disk was in memory, whatever ran while it was written
\* (dao.py 191-199).
THEOREM SnapshotIsAlwaysPast == Spec => []SnapshotIsPast
<1>1. IInv => SnapshotIsPast
  BY DEF IInv, PastInv, PastFile, Past, PastIndex, SnapshotIsPast, StoredOn
<1>2. QED
  BY <1>1, Invariance, PTL

----------------------------------------------------------------------------
(* The versions of an external id, of which no two requests had rows at    *)
(* once.                                                                   *)

\* Requests that have rows of one external id race for it.
ApartInv ==
  \A t \in Threads : \A u \in Threads \ {t} :
    Named(local[t].rows) \cap Named(local[u].rows) \subseteq raced

\* c is closed by the version right after it, if that one has a tx window.
Followed(c, e) ==
  \E d \in Successors(c, e) :
    /\ \A b \in Successors(c, e) : d <= b
    /\ chunks[c].closedBy = IF chunks[d].dated THEN d ELSE None

\* tip is the newest version of e, and closed by by.
Lineage(e, tip, by) ==
  /\ tip = None => VersionsOf(e) = {}
  /\ tip # None => tip \in VersionsOf(e) /\ chunks[tip].closedBy = by
  /\ \A c \in VersionsOf(e) \ {tip} : c < tip /\ Followed(c, e)

\* Between the closing of the old version and the index entry of the new one.
Replacing(t, e) == pc[t] \in {"put", "index"} /\ Row(t).ext = e

\* The lineage of e at every step of the one request that extends it.
LineageOf(e) ==
  /\ (\A t \in Threads : ~ Replacing(t, e)) => Lineage(e, external_index[e], None)
  /\ \A t \in Threads : Row(t).ext = e =>
       /\ pc[t] = "put" =>
            Lineage(e, external_index[e], IF Row(t).dated THEN local[t].new ELSE None)
       /\ pc[t] = "index" => Lineage(e, local[t].new, None)
       /\ pc[t] \in {"close", "put"} => \A c \in VersionsOf(e) : c < local[t].new

LineageInv == \A e \in ExternalIds \ raced : LineageOf(e)

VersionInv == IInv /\ ApartInv /\ LineageInv

\* Two requests that store rows of one external id race for it.
LEMMA Alone ==
  ASSUME IInv, ApartInv, NEW t \in Threads, NEW u \in Threads,
         pc[t] \in {"embed", "close", "put", "index"},
         pc[u] \in {"embed", "close", "put", "index"},
         Row(t).ext = Row(u).ext, Row(t).ext \notin raced
  PROVE  t = u
<1>1. \A v \in {t, u} : local[v].rows \in Seq(Rows) /\ local[v].rows # <<>>
  BY RowType DEF IInv, WorkInv, WorkOf
<1>2. \A v \in {t, u} : Row(v).ext \in Named(local[v].rows)
  <2>1. \A v \in {t, u} : 1 \in DOMAIN local[v].rows /\ Row(v) = local[v].rows[1]
    BY <1>1 DEF Row
  <2>2. QED
    BY <2>1 DEF Named
<1>3. QED
  BY <1>2 DEF ApartInv

\* A step keeps the rows a request still has, takes one off, or receives more.
LEMMA ApartStays ==
  ASSUME IInv, ApartInv, NEW t \in Threads, Receive(t) \/ Serve(t)
  PROVE  ApartInv'
<1>1. \A u \in Threads : local[u] \in Locals /\ local[u].rows \in Seq(Rows)
  BY RowType DEF IInv
<1>2. ASSUME raced' = raced,
             \A u \in Threads : Named(local'[u].rows) \subseteq Named(local[u].rows)
      PROVE  ApartInv'
  BY <1>2 DEF ApartInv, Named
<1>3. CASE Receive(t)
  <2>1. PICK request \in Requests[t] :
          /\ local' = [local EXCEPT ![t].rows = request]
          /\ raced' = raced \cup
               (Named(request) \cap UNION {Named(local[u].rows) : u \in Threads \ {t}})
    BY <1>3 DEF Receive
  <2>2. \A u \in Threads : local'[u].rows = IF u = t THEN request ELSE local[u].rows
    BY <1>1, <2>1 DEF Locals, IInv, TypeOK
  <2>3. \A u \in Threads :
          Named(local'[u].rows) = IF u = t THEN Named(request) ELSE Named(local[u].rows)
    BY <2>2
  <2>4. QED
    BY <2>1, <2>3 DEF ApartInv, Named
<1>4. CASE PutIndex(t)
  <2>1. \A u \in Threads :
          local'[u].rows = IF u = t THEN Tail(local[t].rows) ELSE local[u].rows
    BY <1>1, <1>4 DEF PutIndex, Locals, IInv, TypeOK
  <2>2. local[t].rows # <<>>
    BY <1>4 DEF PutIndex, IInv, WorkInv, WorkOf, At
  <2>3. \A i \in DOMAIN Tail(local[t].rows) :
          i + 1 \in DOMAIN local[t].rows /\ Tail(local[t].rows)[i] = local[t].rows[i + 1]
    BY <1>1, <2>2
  <2>4. Named(Tail(local[t].rows)) \subseteq Named(local[t].rows)
    BY <2>3 DEF Named
  <2>5. QED
    BY <1>2, <1>4, <2>1, <2>4 DEF PutIndex, ghosts
<1>5. CASE Leave(t) /\ UNCHANGED raced
  <2>1. \A u \in Threads : local'[u].rows = IF u = t THEN <<>> ELSE local[u].rows
    BY <1>5 DEF Leave, NoLocals, IInv, TypeOK
  <2>2. Named(<<>>) = {}
    BY DEF Named
  <2>3. QED
    BY <1>2, <1>5, <2>1, <2>2
<1>6. CASE /\ UNCHANGED raced
           /\ \A u \in Threads : local'[u].rows = local[u].rows
  BY <1>2, <1>6
<1>7. CASE Document(t)
  BY <1>6, <1>7, DocumentLocals DEF Document, ghosts, IInv
<1>8. CASE Truncate(t)
  BY <1>6, <1>8, TruncateLocals DEF Truncate, ghosts, IInv
<1>9. CASE RowsDone(t) \/ Close(t) \/ Put(t) \/ FlushBegin(t) \/ SnapshotEnds(t) \/ Write(t)
  BY <1>6, <1>9 DEF RowsDone, Close, Put, FlushBegin, SnapshotEnds, Write, ghosts
<1>10. CASE Embed(t) \/ DocumentsRead(t) \/ SnapshotChunk(t) \/ Dump(t)
  <2>1. CASE Embed(t)
    BY <1>1, <1>6, <2>1 DEF Embed, Locals, IInv, TypeOK, ghosts
  <2>2. CASE DocumentsRead(t)
    BY <1>1, <1>6, <2>2 DEF DocumentsRead, Locals, IInv, TypeOK, ghosts
  <2>3. CASE SnapshotChunk(t)
    BY <1>1, <1>6, <2>3 DEF SnapshotChunk, Locals, IInv, TypeOK, ghosts
  <2>4. CASE Dump(t)
    BY <1>1, <1>6, <2>4 DEF Dump, Locals, IInv, TypeOK, ghosts
  <2>5. QED
    BY <1>10, <2>1, <2>2, <2>3, <2>4
<1>11. CASE \/ FlushNothing(t) \/ Clean(t)
            \/ EmbedRaises(t) \/ SnapshotRaises(t) \/ WriteRaises(t)
  BY <1>5, <1>11 DEF FlushNothing, Clean, EmbedRaises, SnapshotRaises, WriteRaises, Return, Fail
<1>12. QED
  BY <1>3, <1>4, <1>7, <1>8, <1>9, <1>10, <1>11 DEF Serve

\* The lineage of an external id is that of its versions.
LEMMA SameLineage ==
  ASSUME NEW e \in ExternalIds, VersionsOf(e)' = VersionsOf(e),
         \A c \in VersionsOf(e) : chunks'[c] = chunks[c]
  PROVE  \A tip, by : Lineage(e, tip, by) => Lineage(e, tip, by)'
<1>1. \A c : Successors(c, e)' = Successors(c, e) /\ Successors(c, e) \subseteq VersionsOf(e)
  BY DEF Successors
<1>2. \A c \in VersionsOf(e) : Followed(c, e) => Followed(c, e)'
  BY <1>1 DEF Followed
<1>3. QED
  BY <1>2 DEF Lineage

\* A step that extends no version of e and neither begins nor ends a replacement.
LEMMA LineageStays ==
  ASSUME NEW e \in ExternalIds, LineageOf(e), VersionsOf(e)' = VersionsOf(e),
         \A c \in VersionsOf(e) : chunks'[c] = chunks[c],
         external_index'[e] = external_index[e],
         \A u \in Threads :
           \/ pc[u] \notin {"put", "index"} /\ pc'[u] \notin {"close", "put", "index"}
           \/ pc'[u] = pc[u] /\ local'[u].rows = local[u].rows /\ local'[u].new = local[u].new
           \/ /\ pc[u] \in {"close", "put", "index"} => Row(u).ext # e
              /\ pc'[u] \in {"close", "put", "index"} => Row(u)'.ext # e
  PROVE  LineageOf(e)'
<1>1. \A tip, by : Lineage(e, tip, by) => Lineage(e, tip, by)'
  BY SameLineage
<1>2. \A u \in Threads : Replacing(u, e)' <=> Replacing(u, e)
  BY DEF Replacing, Row
<1>3. (\A u \in Threads : ~ Replacing(u, e)') => Lineage(e, external_index[e], None)'
  BY <1>1, <1>2 DEF LineageOf
<1>4. ASSUME NEW u \in Threads, Row(u)'.ext = e, pc'[u] \in {"close", "put", "index"}
      PROVE  /\ pc[u] = pc'[u] /\ local'[u].new = local[u].new /\ Row(u)' = Row(u)
             /\ Row(u).ext = e
  BY <1>4 DEF Row
<1>5. ASSUME NEW u \in Threads, Row(u)'.ext = e, pc'[u] \in {"close", "put", "index"}
      PROVE  /\ pc'[u] = "put" =>
                  Lineage(e, external_index[e], IF Row(u).dated THEN local[u].new ELSE None)'
             /\ pc'[u] = "index" => Lineage(e, local[u].new, None)'
             /\ pc'[u] \in {"close", "put"} => \A c \in VersionsOf(e)' : c < local'[u].new
  BY <1>1, <1>4, <1>5 DEF LineageOf
<1>6. QED
  BY <1>3, <1>5 DEF LineageOf

LEMMA EmbedLineage ==
  ASSUME VersionInv, NEW t \in Threads, Embed(t)
  PROVE  LineageInv'
<1> USE DEF Goto, At
<1> SUFFICES ASSUME NEW e \in ExternalIds \ raced'
             PROVE  LineageOf(e)'
  BY DEF LineageInv
<1>1. UNCHANGED <<chunks, external_index, raced>> /\ VersionsOf(e)' = VersionsOf(e)
  BY DEF Embed, ghosts, VersionsOf, Stored
<1>2. LineageOf(e)
  BY <1>1 DEF VersionInv, LineageInv
<1>3. \A u \in Threads :
        /\ local'[u].rows = local[u].rows
        /\ local'[u].new = IF u = t THEN issued + 1 ELSE local[u].new
        /\ pc'[u] = IF u = t THEN "close" ELSE pc[u]
  BY DEF Embed, VersionInv, IInv, TypeOK, Locals
<1>4. pc[t] = "embed"
  BY DEF Embed
<1>5. CASE Row(t).ext # e
  <2>1. Row(t)'.ext # e
    BY <1>3, <1>5 DEF Row
  <2>2. QED
    BY <1>1, <1>2, <1>3, <1>4, <1>5, <2>1, LineageStays
<1>6. CASE Row(t).ext = e
  <2>1. \A c \in VersionsOf(e) : c < issued + 1
    BY DEF VersionInv, IInv, IssuedInv, ReadersFindChunks, VersionsOf, TypeOK, Stored, ChunkIds
  <2>2. \A tip, by : Lineage(e, tip, by) => Lineage(e, tip, by)'
    BY <1>1, SameLineage
  <2>3. \A u \in Threads : pc[u] \in {"close", "put", "index"} => Row(u).ext # e
    BY <1>1, <1>4, <1>6, Alone DEF VersionInv
  <2>4. \A u \in Threads : ~ Replacing(u, e)
    BY <2>3 DEF Replacing
  <2>5. Lineage(e, external_index[e], None)'
    BY <1>1, <1>2, <2>2, <2>4 DEF LineageOf
  <2>6. \A u \in Threads : u # t => (pc'[u] \in {"close", "put", "index"} => Row(u)'.ext # e)
    BY <1>3, <2>3 DEF Row
  <2>7. QED
    BY <1>1, <1>3, <2>1, <2>5, <2>6 DEF LineageOf
<1>7. QED
  BY <1>5, <1>6

\* What closing a chunk does to it.
LEMMA ClosingChunk ==
  ASSUME NEW ch \in Chunk, NEW n \in ChunkIds
  PROVE  /\ [ch EXCEPT !.closedBy = n] # NoChunk
         /\ [ch EXCEPT !.closedBy = n].ext = ch.ext
         /\ [ch EXCEPT !.closedBy = n].dated = ch.dated
         /\ [ch EXCEPT !.closedBy = n].closedBy = n
<1>1. [ch EXCEPT !.closedBy = n] \in Chunk
  BY DEF Chunk
<1>2. QED
  BY <1>1, NoChunkIsNone DEF Chunk

LEMMA CloseLineage ==
  ASSUME VersionInv, NEW t \in Threads, Close(t)
  PROVE  LineageInv'
<1> USE DEF Goto, At
<1> SUFFICES ASSUME NEW e \in ExternalIds \ raced'
             PROVE  LineageOf(e)'
  BY DEF LineageInv
<1> DEFINE n   == local[t].new
           tip == external_index[Row(t).ext]
           by  == IF Row(t).dated THEN n ELSE None
<1>1. UNCHANGED <<external_index, local, raced>>
  BY DEF Close, ghosts
<1>2. LineageOf(e)
  BY <1>1 DEF VersionInv, LineageInv
<1>3. pc[t] = "close" /\ \A u \in Threads : pc'[u] = IF u = t THEN "put" ELSE pc[u]
  BY DEF Close, VersionInv, IInv, TypeOK
<1>4. n \in ChunkIds /\ n # None /\ Row(t).ext \in ExternalIds
  BY <1>3, RowType DEF VersionInv, IInv, WorkInv, WorkOf, TypeOK
<1>5. \A c \in ChunkIds :
        /\ c \in Stored => chunks[c] \in Chunk
        /\ chunks'[c] = IF Row(t).dated /\ c = tip /\ c \in Stored
                        THEN [chunks[c] EXCEPT !.closedBy = n] ELSE chunks[c]
  BY DEF Close, Closed, VersionInv, IInv, TypeOK, Stored
<1>6. \A c \in Stored :
        /\ chunks'[c] # NoChunk /\ chunks'[c].ext = chunks[c].ext
        /\ chunks'[c].dated = chunks[c].dated
        /\ chunks'[c].closedBy = IF Row(t).dated /\ c = tip THEN n ELSE chunks[c].closedBy
        /\ c # tip => chunks'[c] = chunks[c]
  <2> SUFFICES ASSUME NEW c \in Stored
               PROVE  /\ chunks'[c] # NoChunk /\ chunks'[c].ext = chunks[c].ext
                      /\ chunks'[c].dated = chunks[c].dated
                      /\ chunks'[c].closedBy = IF Row(t).dated /\ c = tip THEN n ELSE chunks[c].closedBy
                      /\ c # tip => chunks'[c] = chunks[c]
    BY Zenon
  <2>1. c \in ChunkIds /\ chunks[c] # NoChunk /\ chunks[c] \in Chunk
    BY <1>5 DEF Stored
  <2>2. CASE Row(t).dated /\ c = tip
    <3>1. chunks'[c] = [chunks[c] EXCEPT !.closedBy = n]
      BY <1>5, <2>1, <2>2
    <3>2. QED
      BY <1>4, <2>1, <2>2, <3>1, ClosingChunk
  <2>3. CASE ~ (Row(t).dated /\ c = tip)
    <3>1. chunks'[c] = chunks[c]
      BY <1>5, <2>1, <2>3, Zenon
    <3>2. QED
      BY <2>1, <2>3, <3>1, Zenon
  <2>4. QED
    BY <2>2, <2>3
<1>7. VersionsOf(e)' = VersionsOf(e) /\ VersionsOf(e) \subseteq Stored
  <2>1. Stored' = Stored
    <3>1. \A c \in ChunkIds : chunks'[c] # NoChunk <=> chunks[c] # NoChunk
      BY <1>5, <1>6 DEF Stored
    <3>2. QED
      BY <3>1, Zenon DEF Stored
  <2>2. QED
    BY <1>6, <2>1 DEF VersionsOf
<1>8. tip # None => tip \in Stored /\ chunks[tip].ext = Row(t).ext
  BY <1>4 DEF VersionInv, IInv, ReadersFindChunks
<1>9. CASE Row(t).ext # e
  <2>1. \A c \in VersionsOf(e) : c # tip
    <3>1. \A c \in VersionsOf(e) : c # None /\ chunks[c].ext = e
      BY NoneIsNoChunk DEF VersionsOf, Stored
    <3>2. QED
      BY <1>8, <1>9, <3>1
  <2>2. \A c \in VersionsOf(e) : chunks'[c] = chunks[c]
    BY <1>6, <1>7, <2>1
  <2>3. Row(t)'.ext # e
    BY <1>1, <1>9 DEF Row
  <2>4. QED
    BY <1>1, <1>2, <1>3, <1>7, <1>9, <2>2, <2>3, LineageStays
<1>10. CASE Row(t).ext = e
  <2>1. \A u \in Threads : pc[u] \in {"close", "put", "index"} /\ Row(u).ext = e => u = t
    BY <1>1, <1>3, <1>10, Alone DEF VersionInv
  <2>2. Lineage(e, tip, None) /\ \A c \in VersionsOf(e) : c < n
    BY <1>2, <1>3, <1>10, <2>1 DEF LineageOf, Replacing
  <2>3. Lineage(e, tip, by)'
    <3>1. \A c \in VersionsOf(e) :
            Successors(c, e)' = Successors(c, e) /\ Successors(c, e) \subseteq VersionsOf(e)
      BY <1>7 DEF Successors
    <3>2. \A c \in VersionsOf(e) \ {tip} : Followed(c, e) => Followed(c, e)'
      BY <1>6, <1>7, <3>1 DEF Followed
    <3>3. tip' = tip /\ by' = by
      BY <1>1 DEF Row
    <3>4. tip # None => chunks'[tip].closedBy = by
      BY <1>6, <1>7, <2>2 DEF Lineage
    <3>5. QED
      BY <1>7, <2>2, <3>2, <3>3, <3>4 DEF Lineage
  <2>4. \A u \in Threads : pc'[u] \in {"close", "put", "index"} /\ Row(u)'.ext = e => u = t
    BY <1>1, <1>3, <2>1 DEF Row
  <2>5. Replacing(t, e)'
    BY <1>1, <1>3, <1>10 DEF Replacing, Row
  <2>6. \A c \in VersionsOf(e)' : c < n'
    BY <1>1, <1>7, <2>2
  <2>7. QED
    BY <1>3, <1>10, <1>1, <2>3, <2>4, <2>5, <2>6 DEF LineageOf, Row
<1>11. QED
  BY <1>9, <1>10

LEMMA PutLineage ==
  ASSUME VersionInv, NEW t \in Threads, Put(t)
  PROVE  LineageInv'
<1> USE DEF Goto, At
<1> SUFFICES ASSUME NEW e \in ExternalIds \ raced'
             PROVE  LineageOf(e)'
  BY DEF LineageInv
<1> DEFINE n   == local[t].new
           new == [ext |-> Row(t).ext, dated |-> Row(t).dated, closedBy |-> None]
           tip == external_index[e]
<1>1. UNCHANGED <<external_index, local, raced>>
  BY DEF Put, ghosts
<1>2. LineageOf(e)
  BY <1>1 DEF VersionInv, LineageInv
<1>3. pc[t] = "put" /\ \A u \in Threads : pc'[u] = IF u = t THEN "index" ELSE pc[u]
  BY DEF Put, VersionInv, IInv, TypeOK
<1>4. n \in ChunkIds /\ n # None /\ n \notin Stored /\ Row(t).ext \in ExternalIds
  BY <1>3, RowType DEF VersionInv, IInv, WorkInv, WorkOf, TypeOK
<1>5. \A c \in ChunkIds : chunks'[c] = IF c = n THEN new ELSE chunks[c]
  BY <1>4 DEF Put, VersionInv, IInv, TypeOK
<1>6. new # NoChunk
  BY <1>4 DEF NoChunk
<1>7. VersionsOf(e)' = VersionsOf(e) \cup (IF Row(t).ext = e THEN {n} ELSE {})
  BY <1>4, <1>5, <1>6 DEF VersionsOf, Stored
<1>8. \A c \in VersionsOf(e) : c # n /\ c \in ChunkIds /\ chunks'[c] = chunks[c]
  BY <1>4, <1>5 DEF VersionsOf, Stored
<1>9. CASE Row(t).ext # e
  <2>1. Row(t)'.ext # e
    BY <1>1, <1>9 DEF Row
  <2>2. QED
    BY <1>1, <1>2, <1>3, <1>7, <1>8, <1>9, <2>1, LineageStays
<1>10. CASE Row(t).ext = e
  <2>1. \A u \in Threads : pc[u] \in {"close", "put", "index"} /\ Row(u).ext = e => u = t
    BY <1>1, <1>3, <1>10, Alone DEF VersionInv
  <2>2. /\ Lineage(e, tip, IF Row(t).dated THEN n ELSE None)
        /\ \A c \in VersionsOf(e) : c < n
    BY <1>2, <1>3, <1>10 DEF LineageOf
  <2>3. Lineage(e, n, None)'
    <3>1. VersionsOf(e)' = VersionsOf(e) \cup {n}
      BY <1>7, <1>10
    <3>2. \A c \in VersionsOf(e) :
            /\ Successors(c, e)' = Successors(c, e) \cup {n}
            /\ Successors(c, e) \subseteq VersionsOf(e)
      BY <2>2, <3>1 DEF Successors
    <3>3. ASSUME NEW c \in VersionsOf(e), c # tip
          PROVE  Followed(c, e)'
      <4>1. PICK d \in Successors(c, e) :
              /\ \A b \in Successors(c, e) : d <= b
              /\ chunks[c].closedBy = IF chunks[d].dated THEN d ELSE None
        BY <2>2, <3>3 DEF Lineage, Followed
      <4>2. d \in VersionsOf(e) /\ d <= n
        BY <1>4, <1>8, <2>2, <3>2 DEF ChunkIds
      <4>3. QED
        BY <1>8, <3>2, <4>1, <4>2 DEF Followed
    <3>4. tip \in VersionsOf(e) => Followed(tip, e)'
      <4> SUFFICES ASSUME tip \in VersionsOf(e)
                   PROVE  Followed(tip, e)'
        OBVIOUS
      <4>1. tip \in ChunkIds /\ tip # None /\ chunks'[tip] = chunks[tip]
        BY <1>8, NoneIsNoChunk
      <4>2. Successors(tip, e) = {}
        BY <1>8, <2>2, <4>1 DEF Lineage, Successors, ChunkIds
      <4>3. Successors(tip, e)' = {n}
        BY <1>1, <3>2, <4>2
      <4>4. chunks'[tip].closedBy = IF chunks'[n].dated THEN n ELSE None
        BY <1>4, <1>5, <2>2, <4>1 DEF Lineage
      <4>5. n <= n
        BY <1>4 DEF ChunkIds
      <4>6. QED
        BY <1>1, <4>3, <4>4, <4>5 DEF Followed
    <3>5. \A c \in VersionsOf(e)' \ {n} : c < n /\ Followed(c, e)'
      <4>1. \A c \in VersionsOf(e) : c < n
        BY <2>2
      <4>2. tip' = tip
        BY <1>1
      <4>3. \A c \in VersionsOf(e) : c # tip => Followed(c, e)'
        BY <3>3
      <4>4. QED
        BY <3>1, <3>4, <4>1, <4>2, <4>3
    <3>6. n \in VersionsOf(e)' /\ chunks'[n].closedBy = None
      BY <1>4, <1>5, <3>1
    <3>7. QED
      BY <1>1, <1>4, <3>5, <3>6 DEF Lineage
  <2>4. \A u \in Threads : pc'[u] \in {"close", "put", "index"} /\ Row(u)'.ext = e => u = t
    BY <1>1, <1>3, <2>1 DEF Row
  <2>5. Replacing(t, e)'
    BY <1>1, <1>3, <1>10 DEF Replacing, Row
  <2>6. QED
    BY <1>1, <1>3, <1>10, <2>3, <2>4, <2>5 DEF LineageOf, Row
<1>11. QED
  BY <1>9, <1>10

LEMMA PutIndexLineage ==
  ASSUME VersionInv, NEW t \in Threads, PutIndex(t)
  PROVE  LineageInv'
<1> USE DEF Goto, At
<1> SUFFICES ASSUME NEW e \in ExternalIds \ raced'
             PROVE  LineageOf(e)'
  BY DEF LineageInv
<1> DEFINE n == local[t].new
<1>1. UNCHANGED <<chunks, raced>>
  BY DEF PutIndex, ghosts
<1>2. LineageOf(e)
  BY <1>1 DEF VersionInv, LineageInv
<1>3. /\ pc[t] = "index" /\ pc'[t] = "document"
      /\ \A u \in Threads : u # t => pc'[u] = pc[u] /\ local'[u] = local[u]
  BY DEF PutIndex, VersionInv, IInv, TypeOK
<1>4. Row(t).ext \in ExternalIds
  BY <1>3, RowType DEF VersionInv, IInv, WorkInv, WorkOf
<1>5. external_index'[e] = IF e = Row(t).ext THEN n ELSE external_index[e]
  BY <1>4 DEF PutIndex, VersionInv, IInv, TypeOK
<1>6. VersionsOf(e)' = VersionsOf(e)
  BY <1>1 DEF VersionsOf, Stored
<1>7. CASE Row(t).ext # e
  BY <1>1, <1>2, <1>3, <1>5, <1>6, <1>7, LineageStays
<1>8. CASE Row(t).ext = e
  <2>1. \A u \in Threads : pc[u] \in {"close", "put", "index"} /\ Row(u).ext = e => u = t
    BY <1>1, <1>3, <1>8, Alone DEF VersionInv
  <2>2. Lineage(e, n, None)
    BY <1>2, <1>3, <1>8 DEF LineageOf
  <2>3. \A tip, by : Lineage(e, tip, by) => Lineage(e, tip, by)'
    BY <1>1, <1>6, SameLineage
  <2>4. Lineage(e, external_index[e], None)'
    BY <1>5, <1>8, <2>2, <2>3
  <2>5. \A u \in Threads : pc'[u] \in {"close", "put", "index"} => Row(u)'.ext # e
    BY <1>3, <2>1 DEF Row
  <2>6. QED
    BY <2>4, <2>5 DEF LineageOf
<1>9. QED
  BY <1>7, <1>8

LEMMA LineageKept ==
  ASSUME VersionInv, NEW t \in Threads, Receive(t) \/ Serve(t)
  PROVE  LineageInv'
<1> USE DEF Goto, At
<1>1. \A u \in Threads : local[u] \in Locals
  BY DEF VersionInv, IInv, TypeOK
<1>2. ASSUME UNCHANGED <<chunks, external_index>>, raced \subseteq raced',
             pc[t] \notin {"put", "index"}, pc'[t] \notin {"close", "put", "index"},
             \A u \in Threads \ {t} :
               /\ pc'[u] = pc[u]
               /\ local'[u].rows = local[u].rows /\ local'[u].new = local[u].new
      PROVE  LineageInv'
  <2> SUFFICES ASSUME NEW e \in ExternalIds \ raced'
               PROVE  LineageOf(e)'
    BY DEF LineageInv
  <2>1. LineageOf(e)
    BY <1>2 DEF VersionInv, LineageInv
  <2>2. VersionsOf(e)' = VersionsOf(e)
    BY <1>2 DEF VersionsOf, Stored
  <2>3. QED
    BY <1>2, <2>1, <2>2, LineageStays
<1>3. CASE Receive(t)
  BY <1>1, <1>2, <1>3, RacedType DEF Receive, store, VersionInv, IInv, TypeOK, Locals
<1>4. CASE Document(t)
  BY <1>2, <1>4, DocumentLocals DEF Document, store, ghosts, VersionInv, IInv, TypeOK
<1>5. CASE Truncate(t)
  BY <1>2, <1>5, TruncateLocals DEF Truncate, store, ghosts, VersionInv, IInv, TypeOK
<1>6. CASE RowsDone(t) \/ FlushBegin(t) \/ SnapshotEnds(t) \/ Write(t)
  BY <1>1, <1>2, <1>6
  DEF RowsDone, FlushBegin, SnapshotEnds, Write, store, ghosts, VersionInv, IInv, TypeOK
<1>7. CASE DocumentsRead(t) \/ SnapshotChunk(t) \/ Dump(t)
  BY <1>1, <1>2, <1>7
  DEF DocumentsRead, SnapshotChunk, Dump, store, ghosts, VersionInv, IInv, TypeOK
<1>8. CASE \/ FlushNothing(t) \/ Clean(t)
           \/ EmbedRaises(t) \/ SnapshotRaises(t) \/ WriteRaises(t)
  BY <1>1, <1>2, <1>8
  DEF FlushNothing, Clean, EmbedRaises, SnapshotRaises, WriteRaises, Return, Fail, Leave,
      store, VersionInv, IInv, TypeOK
<1>9. QED
  BY <1>3, <1>4, <1>5, <1>6, <1>7, <1>8, EmbedLineage, CloseLineage, PutLineage,
     PutIndexLineage DEF Serve

LEMMA InitVersions == Init => VersionInv
<1> SUFFICES ASSUME Init
             PROVE  VersionInv
  OBVIOUS
<1>1. ApartInv
  BY DEF Init, ApartInv, NoLocals, Named
<1>2. LineageInv
  BY DEF Init, LineageInv, LineageOf, Lineage, VersionsOf, Stored, NoChunks, NoIndex
<1>3. QED
  BY <1>1, <1>2, InitInv DEF VersionInv

LEMMA NextVersions == VersionInv /\ [Next]_vars => VersionInv'
<1> SUFFICES ASSUME VersionInv, [Next]_vars
             PROVE  VersionInv'
  OBVIOUS
<1>1. IInv'
  BY NextInv DEF VersionInv
<1>2. ASSUME NEW t \in Threads, Receive(t) \/ Serve(t)
      PROVE  VersionInv'
  BY <1>1, <1>2, ApartStays, LineageKept DEF VersionInv
<1>3. CASE UNCHANGED vars
  <2>1. UNCHANGED <<chunks, external_index, pc, local, raced>>
    BY <1>3 DEF vars, store, ghosts
  <2>2. ApartInv'
    BY <2>1 DEF VersionInv, ApartInv
  <2>3. LineageInv'
    <3> SUFFICES ASSUME NEW e \in ExternalIds \ raced
                 PROVE  LineageOf(e)'
      BY <2>1 DEF LineageInv
    <3>1. VersionsOf(e)' = VersionsOf(e)
      BY <2>1 DEF VersionsOf, Stored
    <3>2. QED
      BY <2>1, <3>1, LineageStays DEF VersionInv, LineageInv
  <2>4. QED
    BY <1>1, <2>2, <2>3 DEF VersionInv
<1>4. QED
  BY <1>2, <1>3 DEF Next

\* At rest, every version of an external id is closed by the one right after it
\* if that one has a tx window and is open otherwise, the newest is open and the
\* one the index names, as long as no two requests had rows of the id at once
\* (dao.py 99-140).
THEOREM LineageHolds == Spec => []LineageHoldsUnlessRaced
<1>1. VersionInv => LineageHoldsUnlessRaced
  <2> SUFFICES ASSUME VersionInv, AllIdle, NEW e \in ExternalIds \ raced
               PROVE  /\ external_index[e] = None => VersionsOf(e) = {}
                      /\ \A c \in VersionsOf(e) :
                           IF Successors(c, e) = {}
                           THEN external_index[e] = c /\ chunks[c].closedBy = None
                           ELSE Followed(c, e)
    BY DEF LineageHoldsUnlessRaced, Followed
  <2>1. Lineage(e, external_index[e], None)
    BY DEF VersionInv, LineageInv, LineageOf, AllIdle, At, Replacing
  <2>2. \A c \in VersionsOf(e) : c \in ChunkIds
    BY DEF VersionsOf, Stored
  <2>3. \A c \in VersionsOf(e) : c # external_index[e] => Successors(c, e) # {} /\ Followed(c, e)
    BY <2>1 DEF Lineage, Followed
  <2>4. ASSUME NEW c \in VersionsOf(e), c = external_index[e]
        PROVE  Successors(c, e) = {} /\ chunks[c].closedBy = None
    <3>1. c # None
      BY <2>2, NoneIsNoChunk
    <3>2. QED
      BY <2>1, <2>2, <2>4, <3>1 DEF Lineage, Successors, ChunkIds
  <2>5. QED
    BY <2>1, <2>3, <2>4 DEF Lineage
<1>2. QED
  BY <1>1, InitVersions, NextVersions, PTL DEF Spec

----------------------------------------------------------------------------
(* Requests that are never in progress together: the dirty mark, the       *)
(* snapshot and the write of one request add up to a file that equals      *)
(* memory, and whatever raises on the way leaves the mark behind.          *)

Memory == File(TRUE, chunks, external_index)

Unsaved == {"embed", "close", "put", "index", "documents", "snapshot", "dump", "open",
            "write"}

\* How far the one request in progress has come.
Progress(t) ==
  /\ pc[t] \in {"document", "flush"} => dirty \/ disk = Memory
  /\ pc[t] \in Unsaved => dirty
  /\ pc[t] \in {"document", "embed", "close", "put", "index", "flush", "documents"} =>
       local[t].snap = NoChunks
  /\ pc[t] = "snapshot" => \A c \in ChunkIds : local[t].snap[c] \in {NoChunk, chunks[c]}
  /\ pc[t] = "dump" => local[t].snap = chunks
  /\ pc[t] \in {"open", "write"} => local[t].content = Memory
  /\ pc[t] = "write" => ~ local[t].mixed
  /\ pc[t] = "clean" => disk = Memory

Saved == (returned => ~ dirty) /\ (dirty \/ disk = Memory)

SerialWork ==
  /\ \A t, u \in Threads : pc[t] # "idle" /\ pc[u] # "idle" => t = u
  /\ \A t \in Threads : pc[t] = "idle" => local[t] = NoLocals
  /\ \A t \in Threads : Progress(t)
  /\ AllIdle => Saved

SerialInv == IInv /\ (~ overlap => SerialWork)

----------------------------------------------------------------------------
LEMMA InitSerial == Init => SerialInv
<1> SUFFICES ASSUME Init
             PROVE  SerialInv
  OBVIOUS
<1>1. SerialWork
  BY DEF Init, SerialWork, Saved, Memory, Progress, Unsaved
<1>2. QED
  BY <1>1, InitInv DEF SerialInv

\* The request of thread t goes on, or ends as it should; the others have none.
LEMMA GoesOn ==
  ASSUME IInv, SerialWork, NEW t \in Threads, pc[t] # "idle",
         \A u \in Threads \ {t} :
           pc'[u] = pc[u] /\ (local[u] = NoLocals => local'[u] = NoLocals),
         \/ pc'[t] # "idle" /\ Progress(t)'
         \/ pc'[t] = "idle" /\ local'[t] = NoLocals /\ Saved'
  PROVE  SerialWork'
<1>1. \A u \in Threads \ {t} : pc[u] = "idle" /\ pc'[u] = "idle" /\ local'[u] = NoLocals
  BY DEF SerialWork
<1>2. \A u \in Threads : pc'[u] = "idle" => Progress(u)'
  BY DEF Progress, Unsaved
<1>3. QED
  BY <1>1, <1>2 DEF SerialWork, AllIdle, At

LEMMA ReceiveSerial ==
  ASSUME IInv, SerialWork, NEW t \in Threads, Receive(t), ~ overlap'
  PROVE  SerialWork'
<1> USE DEF Goto, At
<1>1. PICK request \in Requests[t] : local' = [local EXCEPT ![t].rows = request]
  BY DEF Receive
<1>2. \A u \in Threads : pc[u] = "idle" /\ local[u] = NoLocals
  BY DEF Receive, SerialWork
<1>3. Saved /\ UNCHANGED <<chunks, external_index, dirty, disk>>
  BY <1>2 DEF Receive, SerialWork, AllIdle, store
<1>4. \A u \in Threads :
        /\ pc'[u] = IF u = t THEN "document" ELSE "idle"
        /\ local'[u] = IF u = t THEN [NoLocals EXCEPT !.rows = request] ELSE NoLocals
  BY <1>1, <1>2 DEF Receive, IInv, TypeOK
<1>5. local'[t].snap = NoChunks
  BY <1>4 DEF NoLocals
<1>6. \A u \in Threads : Progress(u)'
  BY <1>3, <1>4, <1>5 DEF Progress, Saved, Memory, Unsaved
<1>7. QED
  BY <1>4, <1>6 DEF SerialWork, AllIdle

\* The steps that ingest the rows.
LEMMA RowsSerial ==
  ASSUME IInv, SerialWork, NEW t \in Threads,
         Document(t) \/ RowsDone(t) \/ Embed(t) \/ Close(t) \/ Put(t) \/ PutIndex(t)
  PROVE  SerialWork'
<1> USE DEF Goto, At
<1>1. Progress(t) /\ local[t] \in Locals
  BY DEF SerialWork, IInv, TypeOK
<1>2. CASE Document(t)
  <2>1. \A u \in Threads : pc[u] # "documents" => local'[u] = local[u]
    BY <1>2, DocumentLocals DEF IInv
  <2>2. pc[t] = "document" /\ pc'[t] = "embed" /\ dirty'
    BY <1>2 DEF Document, IInv, TypeOK
  <2>3. \A u \in Threads \ {t} : pc'[u] = pc[u] /\ pc[u] = "idle"
    BY <1>2, <2>2 DEF Document, SerialWork, IInv, TypeOK
  <2>4. Progress(t)'
    BY <1>1, <2>1, <2>2 DEF Progress, Unsaved
  <2>5. QED
    BY <2>1, <2>2, <2>3, <2>4, GoesOn
<1>3. CASE RowsDone(t)
  <2>1. UNCHANGED <<chunks, external_index, dirty, disk, local>>
    BY <1>3 DEF RowsDone, store
  <2>2. /\ pc[t] = "document" /\ pc'[t] = "flush"
        /\ \A u \in Threads \ {t} : pc'[u] = pc[u]
    BY <1>3 DEF RowsDone, IInv, TypeOK
  <2>3. Progress(t)'
    BY <1>1, <2>1, <2>2 DEF Progress, Memory, Unsaved
  <2>4. QED
    BY <2>1, <2>2, <2>3, GoesOn
<1>4. CASE Embed(t) \/ Close(t) \/ Put(t) \/ PutIndex(t)
  <2>1. pc[t] \in {"embed", "close", "put", "index"} /\ dirty /\ dirty'
    BY <1>1, <1>4 DEF Embed, Close, Put, PutIndex, Progress, Unsaved
  <2>2. /\ pc'[t] \in {"close", "put", "index", "document"}
        /\ \A u \in Threads \ {t} : pc'[u] = pc[u] /\ local'[u] = local[u]
    BY <1>4 DEF Embed, Close, Put, PutIndex, IInv, TypeOK
  <2>3. local'[t].snap = local[t].snap
    BY <1>1, <1>4 DEF Embed, Close, Put, PutIndex, Locals, IInv, TypeOK
  <2>4. Progress(t)'
    BY <1>1, <2>1, <2>2, <2>3 DEF Progress
  <2>5. QED
    BY <2>1, <2>2, <2>4, GoesOn
<1>5. QED
  BY <1>2, <1>3, <1>4

\* The steps that write the file.
LEMMA FlushSerial ==
  ASSUME IInv, SerialWork, NEW t \in Threads,
         \/ FlushBegin(t) \/ DocumentsRead(t) \/ SnapshotChunk(t) \/ SnapshotEnds(t)
         \/ Dump(t) \/ Truncate(t) \/ Write(t)
  PROVE  SerialWork'
<1> USE DEF Goto, At
<1>1. Progress(t) /\ local[t] \in Locals
  BY DEF SerialWork, IInv, TypeOK
<1>2. UNCHANGED <<chunks, external_index, dirty>> /\ Memory' = Memory
  BY DEF FlushBegin, DocumentsRead, SnapshotChunk, SnapshotEnds, Dump, Truncate, Write,
         store, Memory
<1>3. pc[t] # "idle" /\ pc'[t] # "idle" /\ \A u \in Threads \ {t} : pc'[u] = pc[u]
  BY DEF FlushBegin, DocumentsRead, SnapshotChunk, SnapshotEnds, Dump, Truncate, Write,
         IInv, TypeOK
<1>4. dirty
  BY <1>1 DEF FlushBegin, DocumentsRead, SnapshotChunk, SnapshotEnds, Dump, Truncate, Write,
              Progress, Unsaved
<1>5. CASE FlushBegin(t) \/ SnapshotEnds(t) \/ Write(t)
  <2>1. local' = local
    BY <1>5 DEF FlushBegin, SnapshotEnds, Write
  <2>2. CASE FlushBegin(t)
    <3>1. pc[t] = "flush" /\ pc'[t] = "documents"
      BY <2>2 DEF FlushBegin, IInv, TypeOK
    <3>2. Progress(t)'
      BY <1>1, <1>2, <1>4, <2>1, <3>1 DEF Progress
    <3>3. QED
      BY <1>3, <2>1, <3>2, GoesOn
  <2>3. CASE SnapshotEnds(t)
    <3>1. pc[t] = "snapshot" /\ pc'[t] = "dump"
      BY <2>3 DEF SnapshotEnds, IInv, TypeOK
    <3>2. local[t].snap = chunks
      <4>1. \A c \in ChunkIds : local[t].snap[c] = chunks[c]
        BY <1>1, <2>3, <3>1 DEF SnapshotEnds, Unread, Progress, Stored
      <4>2. QED
        BY <1>1, <4>1 DEF Locals, IInv, TypeOK
    <3>3. Progress(t)'
      BY <1>1, <1>2, <1>4, <2>1, <3>1, <3>2 DEF Progress
    <3>4. QED
      BY <1>3, <2>1, <3>3, GoesOn
  <2>4. CASE Write(t)
    <3>1. pc[t] = "write" /\ pc'[t] = "clean"
      BY <2>4 DEF Write, IInv, TypeOK
    <3>2. disk' = Memory
      BY <1>1, <2>4, <3>1 DEF Write, Progress
    <3>3. Progress(t)'
      BY <1>1, <1>2, <1>4, <2>1, <3>1, <3>2 DEF Progress, Unsaved
    <3>4. QED
      BY <1>3, <2>1, <3>3, GoesOn
  <2>5. QED
    BY <1>5, <2>2, <2>3, <2>4
<1>6. CASE DocumentsRead(t)
  <2>1. /\ local'[t].snap = local[t].snap
        /\ \A u \in Threads \ {t} : local'[u] = local[u]
    BY <1>1, <1>6 DEF DocumentsRead, Locals, IInv, TypeOK
  <2>2. pc[t] = "documents" /\ pc'[t] = "snapshot"
    BY <1>6 DEF DocumentsRead, IInv, TypeOK
  <2>3. Progress(t)'
    BY <1>1, <1>2, <1>4, <2>1, <2>2 DEF Progress, NoChunks
  <2>4. QED
    BY <1>3, <2>1, <2>3, GoesOn
<1>7. CASE SnapshotChunk(t)
  <2>1. PICK c \in ChunkIds : local' = [local EXCEPT ![t].snap[c] = chunks[c]]
    BY <1>7 DEF SnapshotChunk, Unread, Stored
  <2>2. \A d \in ChunkIds :
          local'[t].snap[d] = IF d = c THEN chunks[c] ELSE local[t].snap[d]
    BY <1>1, <2>1 DEF IInv, TypeOK, Locals
  <2>3. pc[t] = "snapshot" /\ pc' = pc
    BY <1>7 DEF SnapshotChunk
  <2>4. Progress(t)'
    BY <1>1, <1>2, <1>4, <2>2, <2>3 DEF Progress
  <2>5. QED
    BY <1>3, <2>1, <2>4, GoesOn DEF IInv, TypeOK
<1>8. CASE Dump(t)
  <2>1. pc[t] = "dump" /\ pc'[t] = "open"
    BY <1>8 DEF Dump, IInv, TypeOK
  <2>2. /\ local'[t].content = Memory
        /\ \A u \in Threads \ {t} : local'[u] = local[u]
    BY <1>1, <1>8, <2>1 DEF Dump, Progress, Memory, Locals, IInv, TypeOK
  <2>3. Progress(t)'
    BY <1>2, <1>4, <2>1, <2>2 DEF Progress
  <2>4. QED
    BY <1>3, <2>2, <2>3, GoesOn
<1>9. CASE Truncate(t)
  <2>1. pc[t] = "open" /\ pc'[t] = "write"
    BY <1>9 DEF Truncate, IInv, TypeOK
  <2>2. \A u \in Threads \ {t} : pc[u] = "idle"
    BY <2>1 DEF SerialWork
  <2>3. ~ \E v \in Threads : pc[v] = "write"
    BY <2>1, <2>2
  <2>4. local'[t].content = Memory /\ ~ local'[t].mixed
    BY <1>1, <1>9, <2>1, <2>3 DEF Truncate, Locals, Progress
  <2>5. Progress(t)'
    BY <1>2, <1>4, <2>1, <2>4 DEF Progress
  <2>6. \A u \in Threads \ {t} : local[u] = NoLocals => local'[u] = NoLocals
    <3> SUFFICES ASSUME NEW u \in Threads \ {t}, local[u] = NoLocals
                 PROVE  local'[u] = NoLocals
      OBVIOUS
    <3>1. local'[u] = [local[u] EXCEPT !.mixed = local[u].mixed \/ pc[u] = "write"]
      BY <1>9 DEF Truncate
    <3>2. (local[u].mixed \/ pc[u] = "write") = FALSE
      BY <2>2 DEF NoLocals
    <3>3. [NoLocals EXCEPT !.mixed = FALSE] = NoLocals
      <4>1. NoLocals \in Locals /\ NoLocals.mixed = FALSE
        BY Blanks DEF NoLocals
      <4>2. \A l \in Locals : l.mixed = FALSE => [l EXCEPT !.mixed = FALSE] = l
        BY DEF Locals
      <4>3. QED
        BY <4>1, <4>2
    <3>4. QED
      BY <3>1, <3>2, <3>3
  <2>7. QED
    BY <1>3, <2>5, <2>6, GoesOn
<1>10. QED
  BY <1>5, <1>6, <1>7, <1>8, <1>9

\* The steps that end a request, well or with an exception.
LEMMA LeaveSerial ==
  ASSUME IInv, SerialWork, NEW t \in Threads,
         \/ FlushNothing(t) \/ Clean(t)
         \/ EmbedRaises(t) \/ SnapshotRaises(t) \/ WriteRaises(t)
  PROVE  SerialWork'
<1> USE DEF Goto, At
<1>1. Progress(t)
  BY DEF SerialWork
<1>2. Leave(t) /\ pc[t] # "idle" /\ Memory' = Memory
  BY DEF FlushNothing, Clean, EmbedRaises, SnapshotRaises, WriteRaises, Return, Fail,
         Memory, store
<1>3. Saved'
  <2>1. CASE FlushNothing(t) \/ Clean(t)
    BY <1>1, <1>2, <2>1 DEF FlushNothing, Clean, Saved, Progress
  <2>2. CASE EmbedRaises(t) \/ SnapshotRaises(t) \/ WriteRaises(t)
    BY <1>1, <2>2 DEF EmbedRaises, SnapshotRaises, WriteRaises, Fail, Saved, Progress, Unsaved
  <2>3. QED
    BY <2>1, <2>2
<1>4. /\ pc'[t] = "idle" /\ local'[t] = NoLocals
      /\ \A u \in Threads \ {t} : pc'[u] = pc[u] /\ local'[u] = local[u]
  BY <1>2 DEF Leave, IInv, TypeOK
<1>5. QED
  BY <1>2, <1>3, <1>4, GoesOn

LEMMA NextSerial == SerialInv /\ [Next]_vars => SerialInv'
<1> SUFFICES ASSUME SerialInv, [Next]_vars
             PROVE  SerialInv'
  OBVIOUS
<1>1. IInv /\ IInv'
  BY NextInv DEF SerialInv
<1>2. SUFFICES ASSUME ~ overlap'
               PROVE  SerialWork'
  BY <1>1 DEF SerialInv
<1>3. ASSUME NEW t \in Threads, Receive(t)
      PROVE  SerialWork'
  <2>1. ~ overlap
    BY <1>2, <1>3 DEF Receive
  <2>2. QED
    BY <1>1, <1>2, <1>3, <2>1, ReceiveSerial DEF SerialInv
<1>4. ASSUME NEW t \in Threads, Serve(t)
      PROVE  SerialWork'
  <2>1. ~ overlap
    BY <1>2, <1>4
    DEF Serve, Document, RowsDone, Embed, EmbedRaises, Close, Put, PutIndex, FlushNothing,
        FlushBegin, DocumentsRead, SnapshotChunk, SnapshotRaises, SnapshotEnds, Dump,
        Truncate, Write, WriteRaises, Clean, ghosts
  <2>2. QED
    BY <1>1, <1>4, <2>1, RowsSerial, FlushSerial, LeaveSerial DEF Serve, SerialInv
<1>5. CASE UNCHANGED vars
  <2>1. UNCHANGED <<chunks, external_index, dirty, disk, pc, local, returned, overlap>>
    BY <1>5 DEF vars, store, ghosts
  <2>2. SerialWork
    BY <1>2, <2>1 DEF SerialInv
  <2>3. QED
    BY <2>1, <2>2 DEF SerialWork, Progress, Saved, Memory, AllIdle, At
<1>6. QED
  BY <1>3, <1>4, <1>5 DEF Next

\* Requests that were never in progress together: one that returned has left file
\* and memory equal, and one that raised, wherever it did, has left the store
\* dirty or as the file has it (ingest_service.py 121-148, dao.py 87-97, 186-200).
THEOREM SerialRequestsAreAlwaysSaved == Spec => []SerialRequestsAreSaved
<1>1. SerialInv => SerialRequestsAreSaved
  BY DEF SerialInv, SerialWork, Saved, Memory, SerialRequestsAreSaved
<1>2. QED
  BY <1>1, InitSerial, NextSerial, PTL DEF Spec

=============================================================================
