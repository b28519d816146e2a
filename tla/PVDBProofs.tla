----------------------------- MODULE PVDBProofs -----------------------------
(***************************************************************************)
(* What PVDB guarantees for every set of rows, ids and embeddings and every *)
(* number of chunks.                                                        *)
(***************************************************************************)
EXTENDS PVDB, TLAPS

USE PVDBAssumption, HorizonAssumption DEF ChunkIds

----------------------------------------------------------------------------
(* Types.                                                                  *)

\* The later of two instants is an instant, and no earlier than either.
LEMMA LaterIsAnInstant ==
  ASSUME NEW a \in Instants, NEW b \in Instants
  PROVE  /\ Later(a, b) \in Instants
         /\ a <= Later(a, b)
         /\ b <= Later(a, b)
BY DEF Later, Instants

\* A start and a later end make a window.
LEMMA SpanIsAWindow ==
  ASSUME NEW s \in Instants, NEW e \in Instants, s <= e
  PROVE  /\ Span(s, e) \in Window
         /\ Span(s, e).start = s
         /\ Span(s, e).end = e
BY DEF Span, Window, RawWindow

\* A predecessor always has an instant to close from.
LEMMA TxStartIsAnInstant ==
  ASSUME NEW ch \in Chunk
  PROVE  TxStart(ch) \in Instants
BY DEF TxStart, Chunk, OptWindow, Window, RawWindow, Row

\* Closing never inverts a tx window.
LEMMA ClosedTxType ==
  ASSUME NEW ch \in Chunk, NEW row \in Rows
  PROVE  ClosedTx(ch, row) \in OptWindow
<1>1. CASE row.tx = NoWindow
  BY <1>1 DEF ClosedTx, Chunk
<1>2. CASE row.tx # NoWindow
  <2>1. row.tx.start \in Instants
    BY <1>2 DEF Row, OptWindow, Window, RawWindow
  <2>2. TxStart(ch) \in Instants
    BY TxStartIsAnInstant
  <2>3. QED
    BY <1>2, <2>1, <2>2, LaterIsAnInstant, SpanIsAWindow DEF ClosedTx, OptWindow
<1>3. QED
  BY <1>1, <1>2

\* A closed chunk is a chunk with the same row.
LEMMA ClosedType ==
  ASSUME NEW ch \in Chunk, NEW row \in Rows
  PROVE  /\ Closed(ch, row) \in Chunk
         /\ Closed(ch, row).row = ch.row
         /\ Closed(ch, row).tx = ClosedTx(ch, row)
BY ClosedTxType DEF Closed, Chunk, Row, OptVersion

\* A fresh chunk is a chunk with its row and the tx window of its row.
LEMMA FreshType ==
  ASSUME NEW row \in Rows
  PROVE  /\ Fresh(row) \in Chunk
         /\ Fresh(row).row = row
         /\ Fresh(row).tx = row.tx
BY DEF Fresh, Chunk, Row

\* No chunk is the absent one.
LEMMA ChunkIsNotNoChunk ==
  ASSUME NEW ch \in Chunk
  PROVE  ch # NoChunk
BY DEF Chunk

\* An empty store has the types of a store.
LEMMA EmptyStoreType == NoChunks \in Chunks /\ NoIndex \in Index
BY DEF NoChunks, NoIndex, Chunks, Index

\* An ingested row leaves chunks behind.
LEMMA WithRowType ==
  ASSUME NEW row \in Rows, NEW n \in ChunkIds, chunks \in Chunks
  PROVE  WithRow(row, n) \in Chunks
<1> SUFFICES ASSUME NEW c \in ChunkIds
             PROVE  WithRow(row, n)[c] \in Chunk \cup {NoChunk}
  BY DEF WithRow, Chunks
<1>1. CASE c = n
  BY <1>1, FreshType DEF WithRow
<1>2. CASE c # n /\ Supersedes(row, c)
  <2>1. chunks[c] \in Chunk
    BY <1>2 DEF Supersedes, Chunks
  <2>2. QED
    BY <1>2, <2>1, ClosedType DEF WithRow
<1>3. CASE c # n /\ ~ Supersedes(row, c)
  BY <1>3 DEF WithRow, Chunks
<1>4. QED
  BY <1>1, <1>2, <1>3

\* What a flush, a purge or a failed write leaves on disk is a file.
LEMMA FileType ==
  ASSUME TypeOK
  PROVE  /\ Snapshot \in File
         /\ EmptyFile("snapshot", encoder) \in File
         /\ AfterFailedWrite \subseteq File
BY EmptyStoreType DEF TypeOK, Snapshot, EmptyFile, AfterFailedWrite, File

\* The types hold when the store is new.
LEMMA InitType == Init => TypeOK
<1> SUFFICES ASSUME Init PROVE TypeOK
  OBVIOUS
<1>1. disk \in File
  BY EmptyStoreType DEF Init, EmptyFile, File
<1>2. dirty \in BOOLEAN /\ status \in {"down", "up", "refused"}
  BY DEF Init
<1>3. issued \in 0..MaxChunks /\ encoder \in Embeddings /\ embedder \in [ChunkIds -> Embeddings]
  BY DEF Init
<1>4. documents \subseteq DocIds /\ ann \subseteq ChunkIds
  BY DEF Init
<1>5. chunks \in Chunks /\ external_index \in Index
  BY EmptyStoreType DEF Init
<1>6. QED
  BY <1>1, <1>2, <1>3, <1>4, <1>5 DEF TypeOK

\* Every step keeps the types.
LEMMA NextType == TypeOK /\ [Next]_vars => TypeOK'
<1> SUFFICES ASSUME TypeOK, [Next]_vars PROVE TypeOK'
  OBVIOUS
<1>1. ASSUME NEW emb \in Embeddings, Start(emb) PROVE TypeOK'
  BY <1>1 DEF Start, TypeOK, File, RebuiltVectors, StoredIn, ids
<1>2. ASSUME NEW emb \in Embeddings, StartRefused(emb) PROVE TypeOK'
  BY <1>2 DEF StartRefused, TypeOK, memory, ids
<1>3. CASE Stop
  BY <1>3, EmptyStoreType DEF Stop, EmptyMemory, TypeOK, ids
<1>4. ASSUME NEW row \in Rows, IngestDocument(row) PROVE TypeOK'
  <2>1. issued + 1 \in ChunkIds
    BY <1>4 DEF IngestDocument, TypeOK
  <2>2. WithRow(row, issued + 1) \in Chunks
    BY <2>1, WithRowType DEF TypeOK
  <2>3. IndexWith(row, issued + 1) \in Index
    BY <2>1 DEF IndexWith, Index, TypeOK
  <2>4. documents \cup {row.doc} \subseteq DocIds
    BY DEF TypeOK, Row
  <2>5. embedder' \in [ChunkIds -> Embeddings]
    BY <1>4, <2>1 DEF IngestDocument, TypeOK
  <2>6. QED
    BY <1>4, <2>1, <2>2, <2>3, <2>4, <2>5 DEF IngestDocument, TypeOK
<1>5. ASSUME NEW row \in Rows, IngestFails(row) PROVE TypeOK'
  BY <1>5 DEF IngestFails, TypeOK, Row, ids
<1>6. ASSUME NEW d \in DocIds, UpsertDocumentMetadata(d) PROVE TypeOK'
  BY <1>6 DEF UpsertDocumentMetadata, TypeOK, ids
<1>7. CASE Flush
  BY <1>7, FileType DEF Flush, TypeOK, ids
<1>8. CASE FlushFails
  BY <1>8, FileType DEF FlushFails, TypeOK, memory, ids
<1>9. CASE Clear
  BY <1>9, FileType, EmptyStoreType DEF Clear, EmptyMemory, TypeOK, ids
<1>10. CASE ClearFails
  BY <1>10, FileType, EmptyStoreType DEF ClearFails, EmptyMemory, TypeOK, ids
<1>11. CASE UNCHANGED vars
  BY <1>11 DEF vars, memory, ids, TypeOK
<1>12. ASSUME NEW emb \in Embeddings, StartUnread(emb) PROVE TypeOK'
  BY <1>12, EmptyStoreType DEF StartUnread, EmptyMemory, TypeOK, ids
<1>13. QED
  BY <1>1, <1>2, <1>3, <1>4, <1>5, <1>6, <1>7, <1>8, <1>9, <1>10, <1>11, <1>12 DEF Next

\* The state keeps its types; in particular no tx window is ever inverted.
THEOREM TypeCorrect == Spec => []TypeOK
<1>1. QED
  BY InitType, NextType, PTL DEF Spec

----------------------------------------------------------------------------
(* One ingested row.                                                       *)

\* Chunks are stored under chunk ids.
LEMMA StoredAreIds ==
  \A ch : StoredIn(ch) \subseteq ChunkIds
BY DEF StoredIn

\* What IngestDocument does, chunk by chunk: a fresh chunk n that is newer than
\* every other, the tip of its external id closed, the others as they were.
LEMMA IngestEffect ==
  ASSUME TypeOK, Sound(documents, chunks, external_index),
         NEW row \in Rows, IngestDocument(row),
         NEW n, n = issued + 1
  PROVE  /\ n \in ChunkIds /\ n \notin StoredIn(chunks)
         /\ StoredIn(chunks') = StoredIn(chunks) \cup {n}
         /\ chunks'[n] \in Chunk /\ chunks'[n].row = row /\ chunks'[n].tx = row.tx
         /\ \A c \in StoredIn(chunks) :
              /\ c < n
              /\ chunks[c] \in Chunk /\ chunks'[c] \in Chunk
              /\ chunks'[c].row = chunks[c].row
              /\ Supersedes(row, c) => chunks'[c].tx = ClosedTx(chunks[c], row)
              /\ ~ Supersedes(row, c) => chunks'[c] = chunks[c]
<1>1. n \in ChunkIds /\ n \notin StoredIn(chunks)
  BY DEF IngestDocument, TypeOK, Sound
<1>2. chunks' = WithRow(row, n) /\ chunks' \in Chunks
  BY <1>1, WithRowType DEF IngestDocument, TypeOK
<1>3. chunks'[n] = Fresh(row)
  BY <1>1, <1>2 DEF WithRow
<1>4. ASSUME NEW c \in StoredIn(chunks)
      PROVE  /\ c < n
             /\ chunks[c] \in Chunk /\ chunks'[c] \in Chunk
             /\ chunks'[c].row = chunks[c].row
             /\ Supersedes(row, c) => chunks'[c].tx = ClosedTx(chunks[c], row)
             /\ ~ Supersedes(row, c) => chunks'[c] = chunks[c]
  <2>1. c \in ChunkIds /\ c # n /\ chunks[c] \in Chunk /\ c < n
    BY <1>1, <1>4 DEF StoredIn, TypeOK, Chunks, Sound
  <2>2. CASE Supersedes(row, c)
    BY <1>2, <2>1, <2>2, ClosedType DEF WithRow
  <2>3. CASE ~ Supersedes(row, c)
    BY <1>2, <2>1, <2>3 DEF WithRow
  <2>4. QED
    BY <2>1, <2>2, <2>3
<1>5. ASSUME NEW c \in ChunkIds, c # n, c \notin StoredIn(chunks)
      PROVE  chunks'[c] = NoChunk
  BY <1>2, <1>5 DEF WithRow, Supersedes, StoredIn
<1>6. StoredIn(chunks') = StoredIn(chunks) \cup {n}
  BY <1>1, <1>3, <1>4, <1>5, FreshType, ChunkIsNotNoChunk DEF StoredIn
<1>7. QED
  BY <1>1, <1>3, <1>4, <1>6, FreshType

\* The chunk that is closed is the newest version of the row's external id.
LEMMA SupersedesTheTip ==
  ASSUME TypeOK, Sound(documents, chunks, external_index), NEW row \in Rows
  PROVE  /\ \A c \in VersionsOf(row.ext, chunks) : row.ext # NoId =>
              \E t \in VersionsOf(row.ext, chunks) : Supersedes(row, t) /\ c <= t
         /\ \A t \in ChunkIds : Supersedes(row, t) =>
              /\ row.ext \in ExternalIds
              /\ t \in VersionsOf(row.ext, chunks)
              /\ \A c \in VersionsOf(row.ext, chunks) : c <= t
<1>1. row.ext # NoId => row.ext \in ExternalIds
  BY DEF Row
<1>2. IndexIsTip(chunks, external_index)
  BY DEF Sound
<1>3. ASSUME row.ext # NoId, NEW c \in VersionsOf(row.ext, chunks)
      PROVE  \E t \in VersionsOf(row.ext, chunks) : Supersedes(row, t) /\ c <= t
  <2>1. external_index[row.ext] # NoChunk
    BY <1>1, <1>2, <1>3 DEF IndexIsTip
  <2>2. external_index[row.ext] \in VersionsOf(row.ext, chunks) /\ c <= external_index[row.ext]
    BY <1>1, <1>2, <1>3, <2>1 DEF IndexIsTip
  <2>3. Supersedes(row, external_index[row.ext])
    BY <1>3, <2>2 DEF Supersedes, VersionsOf, StoredIn
  <2>4. QED
    BY <2>2, <2>3
<1>4. ASSUME NEW t \in ChunkIds, Supersedes(row, t)
      PROVE  /\ row.ext \in ExternalIds
             /\ t \in VersionsOf(row.ext, chunks)
             /\ \A c \in VersionsOf(row.ext, chunks) : c <= t
  BY <1>1, <1>2, <1>4 DEF Supersedes, IndexIsTip
<1>5. QED
  BY <1>3, <1>4

\* After a row the index still names the newest version of every external id.
LEMMA IngestIndexIsTip ==
  ASSUME TypeOK, Sound(documents, chunks, external_index),
         NEW row \in Rows, IngestDocument(row)
  PROVE  IndexIsTip(chunks', external_index')
<1> DEFINE n == issued + 1
<1>1. /\ n \in ChunkIds
      /\ StoredIn(chunks') = StoredIn(chunks) \cup {n}
      /\ chunks'[n].row = row
      /\ \A c \in StoredIn(chunks) : c < n /\ chunks'[c].row = chunks[c].row
  BY IngestEffect
<1>2. IndexIsTip(chunks, external_index)
  BY DEF Sound
<1> SUFFICES ASSUME NEW e \in ExternalIds
             PROVE  IF external_index'[e] = NoChunk
                    THEN VersionsOf(e, chunks') = {}
                    ELSE /\ external_index'[e] \in VersionsOf(e, chunks')
                         /\ \A c \in VersionsOf(e, chunks') : c <= external_index'[e]
  BY DEF IndexIsTip
<1>3. CASE e = row.ext
  <2>1. external_index'[e] = n
    BY <1>3 DEF IngestDocument, IndexWith
  <2>2. n \in VersionsOf(e, chunks') /\ \A c \in VersionsOf(e, chunks') : c <= n
    BY <1>1, <1>3, StoredAreIds DEF VersionsOf
  <2>3. n # NoChunk
    BY <1>1
  <2>4. QED
    BY <2>1, <2>2, <2>3
<1>4. CASE e # row.ext
  <2>1. external_index'[e] = external_index[e]
    BY <1>4 DEF IngestDocument, IndexWith
  <2>2. VersionsOf(e, chunks') = VersionsOf(e, chunks)
    BY <1>1, <1>4 DEF VersionsOf
  <2>3. QED
    BY <1>2, <2>1, <2>2 DEF IndexIsTip
<1>5. QED
  BY <1>3, <1>4

\* Closing keeps the start of a window that was given, and ends it at the start
\* of the successor or, for a late row, at its own.
LEMMA ClosedTxBounds ==
  ASSUME NEW ch \in Chunk, NEW row \in Rows, row.tx # NoWindow
  PROVE  /\ ClosedTx(ch, row) # NoWindow
         /\ ClosedTx(ch, row).start = TxStart(ch)
         /\ ClosedTx(ch, row).end = Later(row.tx.start, TxStart(ch))
<1>1. row.tx.start \in Instants /\ TxStart(ch) \in Instants
  BY TxStartIsAnInstant DEF Row, OptWindow, Window, RawWindow
<1>2. ClosedTx(ch, row) = Span(TxStart(ch), Later(row.tx.start, TxStart(ch)))
  BY DEF ClosedTx
<1>3. ClosedTx(ch, row) \in Window
  BY <1>1, <1>2, LaterIsAnInstant, SpanIsAWindow
<1>4. QED
  BY <1>2, <1>3 DEF Span

\* After a row every chunk still starts where its own row said.
LEMMA IngestStartIsKept ==
  ASSUME TypeOK, Sound(documents, chunks, external_index),
         NEW row \in Rows, IngestDocument(row)
  PROVE  StartIsKept(chunks')
<1> DEFINE n == issued + 1
<1>1. /\ StoredIn(chunks') = StoredIn(chunks) \cup {n}
      /\ chunks'[n].row = row /\ chunks'[n].tx = row.tx
      /\ \A c \in StoredIn(chunks) :
           /\ chunks[c] \in Chunk
           /\ chunks'[c].row = chunks[c].row
           /\ Supersedes(row, c) => chunks'[c].tx = ClosedTx(chunks[c], row)
           /\ ~ Supersedes(row, c) => chunks'[c] = chunks[c]
  BY IngestEffect
<1>2. StartIsKept(chunks)
  BY DEF Sound
<1> SUFFICES ASSUME NEW c \in StoredIn(chunks'), chunks'[c].row.tx # NoWindow
             PROVE  /\ chunks'[c].tx # NoWindow
                    /\ chunks'[c].tx.start = chunks'[c].row.tx.start
  BY DEF StartIsKept
<1>3. CASE c = n
  BY <1>1, <1>3
<1>4. CASE c # n
  <2>1. c \in StoredIn(chunks) /\ chunks'[c].row = chunks[c].row /\ chunks[c] \in Chunk
    BY <1>1, <1>4
  <2>2. chunks[c].tx # NoWindow /\ chunks[c].tx.start = chunks[c].row.tx.start
    BY <1>2, <2>1 DEF StartIsKept
  <2>3. CASE Supersedes(row, c) /\ row.tx # NoWindow
    <3>1. chunks'[c].tx # NoWindow /\ chunks'[c].tx.start = TxStart(chunks[c])
      BY <1>1, <2>1, <2>3, ClosedTxBounds
    <3>2. QED
      BY <2>1, <2>2, <3>1 DEF TxStart
  <2>4. CASE Supersedes(row, c) /\ row.tx = NoWindow
    BY <1>1, <2>1, <2>2, <2>4 DEF ClosedTx
  <2>5. CASE ~ Supersedes(row, c)
    BY <1>1, <2>1, <2>2, <2>5
  <2>6. QED
    BY <2>3, <2>4, <2>5
<1>5. QED
  BY <1>3, <1>4

\* A version that already has a successor is not the tip, so the row leaves it
\* alone.
LEMMA OnlyTheTipIsSuperseded ==
  ASSUME TypeOK, Sound(documents, chunks, external_index),
         NEW row \in Rows, IngestDocument(row),
         NEW c \in StoredIn(chunks), NEW d \in StoredIn(chunks),
         c < d, chunks[c].row.ext = chunks[d].row.ext
  PROVE  chunks'[c] = chunks[c]
<1>1. ~ Supersedes(row, c)
  <2> SUFFICES ASSUME Supersedes(row, c) PROVE FALSE
    OBVIOUS
  <2>1. c \in VersionsOf(row.ext, chunks) /\ \A b \in VersionsOf(row.ext, chunks) : b <= c
    BY SupersedesTheTip, StoredAreIds
  <2>2. d \in VersionsOf(row.ext, chunks)
    BY <2>1 DEF VersionsOf
  <2>3. QED
    BY <2>1, <2>2, StoredAreIds
<1>2. QED
  BY <1>1, IngestEffect

\* After a row every version followed by a dated one is closed at its start.
LEMMA IngestPredecessorsClosed ==
  ASSUME TypeOK, Sound(documents, chunks, external_index),
         NEW row \in Rows, IngestDocument(row)
  PROVE  PredecessorsClosed(chunks')
<1> DEFINE n == issued + 1
<1>1. /\ n \in ChunkIds /\ n \notin StoredIn(chunks)
      /\ StoredIn(chunks') = StoredIn(chunks) \cup {n}
      /\ chunks'[n].row = row
      /\ \A c \in StoredIn(chunks) :
           /\ c < n
           /\ chunks[c] \in Chunk
           /\ chunks'[c].row = chunks[c].row
           /\ Supersedes(row, c) => chunks'[c].tx = ClosedTx(chunks[c], row)
           /\ ~ Supersedes(row, c) => chunks'[c] = chunks[c]
  BY IngestEffect
<1>2. PredecessorsClosed(chunks)
  BY DEF Sound
<1> SUFFICES ASSUME NEW c \in ChunkIds, NEW d \in ChunkIds,
                    FollowsDirectly(c, d, chunks'), chunks'[d].row.tx # NoWindow
             PROVE  /\ chunks'[c].tx # NoWindow
                    /\ chunks'[c].tx.end = Later(chunks'[d].row.tx.start, chunks'[c].tx.start)
  BY DEF PredecessorsClosed
<1>3. /\ c < d
      /\ c \in StoredIn(chunks') /\ d \in StoredIn(chunks')
      /\ chunks'[c].row.ext # NoId
      /\ chunks'[c].row.ext = chunks'[d].row.ext
  BY DEF FollowsDirectly, Follows, StoredIn
<1>4. c \in StoredIn(chunks)
  BY <1>1, <1>3, StoredAreIds
<1>5. CASE d = n
  <2>1. c \in VersionsOf(row.ext, chunks) /\ row.ext # NoId
    BY <1>1, <1>3, <1>4, <1>5 DEF VersionsOf
  <2>2. PICK t \in VersionsOf(row.ext, chunks) : Supersedes(row, t) /\ c <= t
    BY <2>1, SupersedesTheTip
  <2>3. t \in StoredIn(chunks) /\ t \in ChunkIds /\ chunks[t].row.ext = row.ext
    BY <2>2, StoredAreIds DEF VersionsOf
  <2>4. t = c
    <3> SUFFICES ASSUME c < t PROVE FALSE
      BY <2>2, <2>3
    <3>1. chunks'[c].row.ext = chunks'[t].row.ext
      BY <1>1, <1>4, <2>1, <2>3 DEF VersionsOf
    <3>2. t < n /\ t \in StoredIn(chunks')
      BY <1>1, <2>3
    <3>3. Follows(c, t, chunks') /\ Follows(t, n, chunks')
      BY <1>1, <1>3, <1>5, <3>1, <3>2 DEF Follows, StoredIn
    <3>4. QED
      BY <1>5, <2>3, <3>3 DEF FollowsDirectly
  <2>5. chunks[c] \in Chunk /\ row.tx # NoWindow /\ chunks'[c].tx = ClosedTx(chunks[c], row)
    BY <1>1, <1>4, <1>5, <2>2, <2>4
  <2>6. QED
    BY <1>1, <1>5, <2>5, ClosedTxBounds
<1>6. CASE d # n
  <2>1. d \in StoredIn(chunks) /\ chunks'[d].row = chunks[d].row /\ chunks'[c].row = chunks[c].row
    BY <1>1, <1>3, <1>4, <1>6
  <2>2. chunks'[c] = chunks[c]
    BY <1>3, <1>4, <2>1, OnlyTheTipIsSuperseded
  <2>3. FollowsDirectly(c, d, chunks)
    <3>1. Follows(c, d, chunks)
      BY <1>3, <1>4, <2>1 DEF Follows, StoredIn
    <3>2. ASSUME NEW b \in ChunkIds, Follows(c, b, chunks), Follows(b, d, chunks)
          PROVE  FALSE
      <4>1. b \in StoredIn(chunks) /\ chunks'[b].row = chunks[b].row /\ b \in StoredIn(chunks')
        BY <1>1, <3>2 DEF Follows, StoredIn
      <4>2. Follows(c, b, chunks') /\ Follows(b, d, chunks')
        BY <1>3, <2>1, <3>2, <4>1 DEF Follows, StoredIn
      <4>3. QED
        BY <4>2 DEF FollowsDirectly
    <3>3. QED
      BY <3>1, <3>2 DEF FollowsDirectly
  <2>4. QED
    BY <1>2, <2>1, <2>2, <2>3 DEF PredecessorsClosed
<1>7. QED
  BY <1>5, <1>6

\* A tx window that a row gives starts at an instant.
LEMMA RowStart ==
  ASSUME NEW row \in Rows, row.tx # NoWindow
  PROVE  row.tx.start \in Instants
BY DEF Row, OptWindow, Window, RawWindow

\* After a row, versions that came in order still end before any later one starts.
LEMMA IngestClosedInOrder ==
  ASSUME TypeOK, Sound(documents, chunks, external_index),
         NEW row \in Rows, IngestDocument(row)
  PROVE  ClosedInOrder(chunks')
<1> DEFINE n == issued + 1
<1>1. /\ n \in ChunkIds /\ n \notin StoredIn(chunks)
      /\ StoredIn(chunks') = StoredIn(chunks) \cup {n}
      /\ chunks'[n].row = row
      /\ \A c \in StoredIn(chunks) :
           /\ c < n
           /\ chunks[c] \in Chunk
           /\ chunks'[c].row = chunks[c].row
           /\ Supersedes(row, c) => chunks'[c].tx = ClosedTx(chunks[c], row)
           /\ ~ Supersedes(row, c) => chunks'[c] = chunks[c]
  BY IngestEffect
<1>2. ClosedInOrder(chunks) /\ StartIsKept(chunks)
  BY DEF Sound
<1> SUFFICES ASSUME NEW e \in ExternalIds, InOrder(e, chunks'),
                    NEW c \in VersionsOf(e, chunks'), NEW d \in VersionsOf(e, chunks'),
                    c < d
             PROVE  chunks'[c].tx.end <= chunks'[d].row.tx.start
  BY DEF ClosedInOrder
<1>3. /\ c \in StoredIn(chunks') /\ d \in StoredIn(chunks')
      /\ chunks'[c].row.ext = e /\ chunks'[d].row.ext = e
      /\ c \in ChunkIds /\ d \in ChunkIds
  BY StoredAreIds DEF VersionsOf
<1>4. c \in StoredIn(chunks) /\ c \in VersionsOf(e, chunks)
  BY <1>1, <1>3, StoredAreIds DEF VersionsOf
<1>5. VersionsOf(e, chunks) \subseteq VersionsOf(e, chunks')
  BY <1>1 DEF VersionsOf
<1>6. \A b \in VersionsOf(e, chunks) : b \in StoredIn(chunks) /\ chunks'[b].row = chunks[b].row
  BY <1>1 DEF VersionsOf
<1>7. InOrder(e, chunks)
  BY <1>5, <1>6 DEF InOrder
<1>8. CASE d # n
  <2>1. d \in StoredIn(chunks) /\ d \in VersionsOf(e, chunks)
    BY <1>1, <1>3, <1>8 DEF VersionsOf
  <2>2. chunks[c].tx.end <= chunks[d].row.tx.start
    BY <1>2, <1>4, <1>7, <2>1 DEF ClosedInOrder
  <2>3. chunks[c].row.ext = chunks[d].row.ext
    BY <1>4, <2>1 DEF VersionsOf
  <2>4. QED
    BY <1>4, <1>6, <2>1, <2>2, <2>3, OnlyTheTipIsSuperseded
<1>9. CASE d = n
  <2>1. row.ext = e /\ row.tx # NoWindow
    BY <1>1, <1>3, <1>9 DEF InOrder
  <2>2. row.ext # NoId
    BY <2>1
  <2>3. chunks[c] \in Chunk /\ chunks[c].row.tx # NoWindow /\ chunks[c].row \in Rows
    BY <1>1, <1>4, <1>7 DEF InOrder, Chunk
  <2>4. chunks[c].row.tx.start <= row.tx.start
    BY <1>1, <1>3, <1>4, <1>6, <1>9 DEF InOrder
  <2>5. chunks[c].tx # NoWindow /\ chunks[c].tx.start = chunks[c].row.tx.start
    BY <1>2, <1>4, <2>3 DEF StartIsKept
  <2>6. CASE Supersedes(row, c)
    <3>1. chunks'[c].tx.end = Later(row.tx.start, TxStart(chunks[c]))
      BY <1>1, <1>4, <2>1, <2>3, <2>6, ClosedTxBounds
    <3>2. TxStart(chunks[c]) = chunks[c].row.tx.start
      BY <2>5 DEF TxStart
    <3>3. row.tx.start \in Int /\ chunks[c].row.tx.start \in Int
      BY <2>1, <2>3, RowStart DEF Instants
    <3>4. Later(row.tx.start, TxStart(chunks[c])) = row.tx.start
      BY <2>4, <3>2, <3>3 DEF Later
    <3>5. chunks'[c].tx.end = row.tx.start /\ chunks'[d].row = row
      BY <1>1, <1>9, <3>1, <3>4
    <3>6. QED
      BY <3>3, <3>5
  <2>7. CASE ~ Supersedes(row, c)
    <3>1. PICK t \in VersionsOf(e, chunks) : Supersedes(row, t) /\ c <= t
      BY <1>4, <2>1, <2>2, SupersedesTheTip
    <3>2. c < t /\ t \in StoredIn(chunks)
      BY <1>3, <1>6, <2>7, <3>1, StoredAreIds
    <3>3. chunks[c].tx.end <= chunks[t].row.tx.start
      BY <1>2, <1>4, <1>7, <3>1, <3>2 DEF ClosedInOrder
    <3>4. chunks[t].row.tx.start <= row.tx.start
      BY <1>1, <1>3, <1>5, <1>6, <1>9, <3>1, <3>2 DEF InOrder
    <3>5. chunks[t] \in Chunk /\ chunks[t].row.tx # NoWindow /\ chunks[t].row \in Rows
      BY <1>1, <1>7, <3>1, <3>2 DEF InOrder, Chunk
    <3>6. row.tx.start \in Int /\ chunks[t].row.tx.start \in Int
      BY <2>1, <3>5, RowStart DEF Instants
    <3>7. chunks[c].tx.end \in Int
      BY <2>3, <2>5 DEF Chunk, OptWindow, Window, RawWindow, Instants
    <3>8. chunks'[c].tx.end = chunks[c].tx.end
      BY <1>1, <1>4, <2>7
    <3>9. chunks[c].tx.end <= row.tx.start
      BY <3>3, <3>4, <3>6, <3>7
    <3>10. QED
      BY <1>1, <1>9, <3>8, <3>9
  <2>8. QED
    BY <2>6, <2>7
<1>10. QED
  BY <1>8, <1>9

\* An ingested row leaves a sound store sound.
LEMMA IngestSound ==
  ASSUME TypeOK, Sound(documents, chunks, external_index),
         NEW row \in Rows, IngestDocument(row)
  PROVE  Sound(documents, chunks, external_index)'
<1>1. ASSUME NEW c \in StoredIn(chunks')
      PROVE  c <= issued' /\ chunks'[c].row.doc \in documents'
  <2> DEFINE n == issued + 1
  <2>1. /\ StoredIn(chunks') = StoredIn(chunks) \cup {n}
        /\ chunks'[n].row = row
        /\ \A b \in StoredIn(chunks) : b < n /\ chunks'[b].row = chunks[b].row
    BY IngestEffect
  <2>2. issued' = n /\ documents' = documents \cup {row.doc} /\ issued \in Int
    BY DEF IngestDocument, TypeOK
  <2>3. CASE c = n
    BY <2>1, <2>2, <2>3
  <2>4. CASE c # n
    BY <2>1, <2>2, <2>4, StoredAreIds DEF Sound
  <2>5. QED
    BY <2>3, <2>4
<1>2. QED
  BY <1>1, IngestIndexIsTip, IngestStartIsKept, IngestPredecessorsClosed,
     IngestClosedInOrder DEF Sound

----------------------------------------------------------------------------
(* Every step.                                                             *)

\* An empty store is sound.
LEMMA EmptyIsSound ==
  Sound({}, NoChunks, NoIndex)
<1>1. StoredIn(NoChunks) = {}
  BY DEF StoredIn, NoChunks
<1>2. \A e : VersionsOf(e, NoChunks) = {}
  BY <1>1 DEF VersionsOf
<1>3. IndexIsTip(NoChunks, NoIndex)
  BY <1>2 DEF IndexIsTip, NoIndex
<1>4. PredecessorsClosed(NoChunks)
  BY DEF PredecessorsClosed, FollowsDirectly, Follows, NoChunks
<1>5. StartIsKept(NoChunks) /\ ClosedInOrder(NoChunks)
  BY <1>1, <1>2 DEF StartIsKept, ClosedInOrder
<1>6. QED
  BY <1>1, <1>3, <1>4, <1>5 DEF Sound

\* Registering a document or issuing a chunk id leaves a sound store sound.
LEMMA SoundGrows ==
  ASSUME NEW docs, NEW ch, NEW ix, NEW more,
         Sound(docs, ch, ix), docs \subseteq more,
         issued \in Int, issued' \in Int, issued <= issued'
  PROVE  Sound(more, ch, ix)'
BY StoredAreIds DEF Sound, IndexIsTip, StartIsKept, PredecessorsClosed, ClosedInOrder

\* The inductive invariant holds when the store is new.
LEMMA InitInv == Init => IInv
<1> SUFFICES ASSUME Init PROVE IInv
  OBVIOUS
<1>1. TypeOK
  BY InitType
<1>2. /\ documents = {} /\ chunks = NoChunks /\ external_index = NoIndex
      /\ disk.documents = {} /\ disk.chunks = NoChunks /\ disk.external_index = NoIndex
      /\ disk.kind = "absent" /\ ann = {} /\ status = "down"
  BY DEF Init, EmptyFile
<1>3. StoredIn(chunks) = ann
  BY <1>2 DEF StoredIn, NoChunks
<1>4. EmbeddedOnce /\ OnlySnapshotsHold
  BY <1>2 DEF EmbeddedOnce, OnlySnapshotsHold, StoredIn, NoChunks
<1>5. QED
  BY <1>1, <1>2, <1>3, <1>4, EmptyIsSound DEF IInv, CleanMeansSaved

\* A memory that was emptied is sound and has no vector left.
LEMMA EmptyMemorySound ==
  ASSUME IInv, EmptyMemory, UNCHANGED issued
  PROVE  /\ Sound(documents, chunks, external_index)'
         /\ StoredIn(chunks') = ann'
<1>1. documents' = {} /\ chunks' = NoChunks /\ external_index' = NoIndex /\ ann' = {}
  BY DEF EmptyMemory
<1>2. Sound({}, NoChunks, NoIndex)'
  BY EmptyIsSound, SoundGrows DEF IInv, TypeOK
<1>3. StoredIn(NoChunks) = {}
  BY DEF StoredIn, NoChunks
<1>4. QED
  BY <1>1, <1>2, <1>3

\* A chunk stays under its embedding, and what is not a snapshot stays empty.
LEMMA NextEmbedded ==
  IInv /\ [Next]_vars => EmbeddedOnce' /\ OnlySnapshotsHold'
<1> SUFFICES ASSUME IInv, [Next]_vars PROVE EmbeddedOnce' /\ OnlySnapshotsHold'
  OBVIOUS
<1> USE DEF EmbeddedOnce, OnlySnapshotsHold, ids
<1>1. /\ TypeOK /\ EmbeddedOnce /\ OnlySnapshotsHold
      /\ StoredIn(NoChunks) = {}
      /\ status # "up" => chunks = NoChunks
  BY DEF IInv, StoredIn, NoChunks
<1>2. CASE UNCHANGED <<chunks, encoder, disk, embedder>>
  BY <1>1, <1>2
<1>3. ASSUME NEW emb \in Embeddings, Start(emb)
      PROVE  EmbeddedOnce' /\ OnlySnapshotsHold'
  <2>1. chunks' = disk.chunks /\ encoder' = emb /\ UNCHANGED <<disk, embedder>>
    BY <1>3 DEF Start
  <2>2. StoredIn(disk.chunks) # {} => disk.embedding = emb
    BY <1>1, <1>3 DEF Start, Readable
  <2>3. QED
    BY <1>1, <2>1, <2>2
<1>4. ASSUME chunks' = NoChunks, UNCHANGED <<disk, embedder>>
      PROVE  EmbeddedOnce' /\ OnlySnapshotsHold'
  BY <1>1, <1>4
<1>5. ASSUME NEW row \in Rows, IngestDocument(row)
      PROVE  EmbeddedOnce' /\ OnlySnapshotsHold'
  <2> DEFINE n == issued + 1
  <2>1. Sound(documents, chunks, external_index)
    BY DEF IInv
  <2>2. /\ n \in ChunkIds /\ n \notin StoredIn(chunks)
        /\ StoredIn(chunks') = StoredIn(chunks) \cup {n}
    BY <1>1, <1>5, <2>1, IngestEffect
  <2>3. /\ embedder' = [embedder EXCEPT ![n] = encoder]
        /\ UNCHANGED <<encoder, disk>>
    BY <1>5 DEF IngestDocument
  <2>4. n \notin StoredIn(disk.chunks)
    BY <1>1 DEF IInv, Sound, TypeOK
  <2>5. \A c \in StoredIn(chunks') : embedder'[c] = encoder'
    BY <1>1, <2>2, <2>3, StoredAreIds DEF TypeOK
  <2>6. \A c \in StoredIn(disk.chunks) : embedder'[c] = disk.embedding
    BY <1>1, <2>3, <2>4, StoredAreIds DEF TypeOK
  <2>7. QED
    BY <1>1, <2>3, <2>5, <2>6
<1>6. CASE Flush
  <2>1. /\ disk'.chunks = chunks /\ disk'.embedding = encoder /\ disk'.kind = "snapshot"
        /\ UNCHANGED <<chunks, encoder, embedder>>
    BY <1>6 DEF Flush, Snapshot
  <2>2. QED
    BY <1>1, <2>1
<1>7. disk' \in AfterFailedWrite => disk' = disk \/ disk'.chunks = NoChunks
  BY DEF AfterFailedWrite, EmptyFile
<1>8. CASE FlushFails
  <2>1. UNCHANGED <<chunks, encoder, embedder>> /\ disk' \in AfterFailedWrite
    BY <1>8 DEF FlushFails, memory
  <2>2. QED
    BY <1>1, <1>7, <2>1
<1>9. CASE Clear
  <2>1. chunks' = NoChunks /\ disk'.chunks = NoChunks
    BY <1>9 DEF Clear, EmptyMemory, EmptyFile
  <2>2. QED
    BY <1>1, <2>1
<1>10. CASE ClearFails
  <2>1. chunks' = NoChunks /\ UNCHANGED embedder /\ disk' \in AfterFailedWrite
    BY <1>10 DEF ClearFails, EmptyMemory
  <2>2. QED
    BY <1>1, <1>7, <2>1
<1>11. ASSUME NEW emb \in Embeddings, StartRefused(emb)
       PROVE  EmbeddedOnce' /\ OnlySnapshotsHold'
  BY <1>1, <1>4, <1>11 DEF StartRefused, memory
<1>12. ASSUME NEW emb \in Embeddings, StartUnread(emb)
       PROVE  EmbeddedOnce' /\ OnlySnapshotsHold'
  BY <1>4, <1>12 DEF StartUnread, EmptyMemory
<1>13. CASE Stop
  BY <1>4, <1>13 DEF Stop, EmptyMemory
<1>14. \/ UNCHANGED <<chunks, encoder, disk, embedder>>
       \/ \E emb \in Embeddings : Start(emb) \/ StartRefused(emb) \/ StartUnread(emb)
       \/ \E row \in Rows : IngestDocument(row)
       \/ Flush \/ FlushFails \/ Stop \/ Clear \/ ClearFails
  BY DEF Next, vars, memory, IngestFails, UpsertDocumentMetadata
<1>15. QED
  BY <1>2, <1>3, <1>5, <1>6, <1>8, <1>9, <1>10, <1>11, <1>12, <1>13, <1>14

\* Every step keeps the inductive invariant.
LEMMA NextInv == IInv /\ [Next]_vars => IInv'
<1> SUFFICES ASSUME IInv, [Next]_vars PROVE IInv'
  OBVIOUS
<1> USE DEF CleanMeansSaved
<1>1. /\ TypeOK /\ TypeOK' /\ issued \in Int /\ issued' \in Int
      /\ EmbeddedOnce' /\ OnlySnapshotsHold'
  BY NextType, NextEmbedded DEF IInv, TypeOK
<1>2. /\ Sound(documents, chunks, external_index)
      /\ Sound(disk.documents, disk.chunks, disk.external_index)
      /\ StoredIn(chunks) = ann
  BY DEF IInv
<1>3. ASSUME NEW emb \in Embeddings, Start(emb) PROVE IInv'
  <2>1. /\ documents' = disk.documents /\ chunks' = disk.chunks
        /\ external_index' = disk.external_index /\ disk' = disk
        /\ issued' = issued /\ status' = "up" /\ encoder' = emb
        /\ ann' = StoredIn(disk.chunks)
    BY <1>3 DEF Start, RebuiltVectors, ids
  <2>2. Sound(disk.documents, disk.chunks, disk.external_index)'
    BY <1>1, <1>2, <2>1, SoundGrows
  <2>3. Sound(documents, chunks, external_index)'
    BY <2>1, <2>2
  <2>4. QED
    BY <1>1, <2>1, <2>2, <2>3 DEF IInv
<1>4. ASSUME NEW emb \in Embeddings, StartRefused(emb) PROVE IInv'
  <2>1. UNCHANGED <<documents, chunks, external_index, ann, disk, issued>>
    BY <1>4 DEF StartRefused, memory, ids
  <2>2. Sound(disk.documents, disk.chunks, disk.external_index)'
    BY <1>1, <1>2, <2>1, SoundGrows
  <2>3. Sound(documents, chunks, external_index)'
    BY <1>1, <1>2, <2>1, SoundGrows
  <2>4. status # "up" /\ status' # "up"
    BY <1>4 DEF StartRefused
  <2>5. QED
    BY <1>1, <1>2, <2>1, <2>2, <2>3, <2>4 DEF IInv
<1>5. CASE Stop
  <2>1. EmptyMemory /\ disk' = disk /\ issued' = issued /\ status' = "down"
    BY <1>5 DEF Stop, ids
  <2>2. Sound(disk.documents, disk.chunks, disk.external_index)'
    BY <1>1, <1>2, <2>1, SoundGrows
  <2>3. QED
    BY <1>1, <2>1, <2>2, EmptyMemorySound DEF IInv, EmptyMemory
<1>6. ASSUME NEW row \in Rows, IngestDocument(row) PROVE IInv'
  <2>1. /\ disk' = disk /\ issued <= issued' /\ dirty' = TRUE
        /\ status = "up" /\ status' = status /\ encoder' = encoder
        /\ ann' = ann \cup {issued + 1}
    BY <1>1, <1>6 DEF IngestDocument
  <2>2. Sound(disk.documents, disk.chunks, disk.external_index)'
    BY <1>1, <1>2, <2>1, SoundGrows
  <2>3. Sound(documents, chunks, external_index)'
    BY <1>1, <1>2, <1>6, IngestSound
  <2>4. StoredIn(chunks') = StoredIn(chunks) \cup {issued + 1}
    BY <1>1, <1>2, <1>6, IngestEffect
  <2>5. QED
    BY <1>1, <1>2, <2>1, <2>2, <2>3, <2>4 DEF IInv
<1>7. ASSUME NEW d \in DocIds, status = "up", documents' = documents \cup {d}, dirty' = TRUE,
             UNCHANGED <<status, encoder, chunks, ann, external_index, disk, issued>>
      PROVE  IInv'
  <2>1. Sound(disk.documents, disk.chunks, disk.external_index)'
    BY <1>1, <1>2, <1>7, SoundGrows
  <2>2. Sound(documents, chunks, external_index)'
    BY <1>1, <1>2, <1>7, SoundGrows
  <2>3. QED
    BY <1>1, <1>2, <1>7, <2>1, <2>2 DEF IInv
<1>8. ASSUME NEW row \in Rows, IngestFails(row) PROVE IInv'
  BY <1>7, <1>8 DEF IngestFails, Row, ids
<1>9. ASSUME NEW d \in DocIds, UpsertDocumentMetadata(d) PROVE IInv'
  BY <1>7, <1>9 DEF UpsertDocumentMetadata, ids
<1>10. CASE Flush
  <2>1. /\ status = "up" /\ disk' = Snapshot
        /\ UNCHANGED <<status, encoder, documents, chunks, ann, external_index, issued>>
    BY <1>10 DEF Flush, ids
  <2>2. Sound(documents, chunks, external_index)'
    BY <1>1, <1>2, <2>1, SoundGrows
  <2>3. /\ disk'.documents = documents' /\ disk'.chunks = chunks'
        /\ disk'.external_index = external_index'
    BY <2>1 DEF Snapshot
  <2>4. Sound(disk.documents, disk.chunks, disk.external_index)'
    BY <2>2, <2>3
  <2>5. QED
    BY <1>1, <1>2, <2>1, <2>2, <2>3, <2>4 DEF IInv
<1>11. ASSUME disk' \in AfterFailedWrite, UNCHANGED issued
       PROVE  Sound(disk.documents, disk.chunks, disk.external_index)'
  <2>1. CASE disk' = disk
    BY <1>1, <1>2, <1>11, <2>1, SoundGrows
  <2>2. CASE disk' = EmptyFile("torn", encoder)
    <3>1. /\ disk'.documents = {} /\ disk'.chunks = NoChunks
          /\ disk'.external_index = NoIndex /\ disk'.kind = "torn"
      BY <2>2 DEF EmptyFile
    <3>2. Sound({}, NoChunks, NoIndex)'
      BY <1>1, <1>11, EmptyIsSound, SoundGrows
    <3>3. QED
      BY <3>1, <3>2
  <2>3. QED
    BY <1>11, <2>1, <2>2 DEF AfterFailedWrite
<1>12. CASE FlushFails
  <2>1. /\ status = "up" /\ dirty /\ disk' \in AfterFailedWrite
        /\ UNCHANGED <<status, encoder, documents, chunks, ann, external_index, dirty, issued>>
    BY <1>12 DEF FlushFails, memory, ids
  <2>2. Sound(documents, chunks, external_index)'
    BY <1>1, <1>2, <2>1, SoundGrows
  <2>3. QED
    BY <1>1, <1>2, <1>11, <2>1, <2>2 DEF IInv
<1>13. CASE Clear
  <2>1. /\ EmptyMemory /\ status = "up" /\ disk' = EmptyFile("snapshot", encoder)
        /\ UNCHANGED <<status, encoder, issued>>
    BY <1>13 DEF Clear, ids
  <2>2. /\ disk'.documents = documents' /\ disk'.chunks = chunks'
        /\ disk'.external_index = external_index'
    BY <2>1 DEF EmptyFile, EmptyMemory
  <2>3. Sound(documents, chunks, external_index)' /\ StoredIn(chunks') = ann'
    BY <2>1, EmptyMemorySound
  <2>4. Sound(disk.documents, disk.chunks, disk.external_index)'
    BY <2>2, <2>3
  <2>5. QED
    BY <1>1, <2>1, <2>2, <2>3, <2>4 DEF IInv
<1>14. CASE ClearFails
  <2>1. /\ EmptyMemory /\ status = "up" /\ disk' \in AfterFailedWrite /\ dirty' = TRUE
        /\ UNCHANGED <<status, encoder, issued>>
    BY <1>14 DEF ClearFails, ids
  <2>2. QED
    BY <1>1, <1>11, <2>1, EmptyMemorySound DEF IInv
<1>15. CASE UNCHANGED vars
  <2>1. UNCHANGED <<status, encoder, documents, chunks, ann, external_index, dirty, disk, issued>>
    BY <1>15 DEF vars, memory, ids
  <2>2. /\ Sound(documents, chunks, external_index)'
        /\ Sound(disk.documents, disk.chunks, disk.external_index)'
    BY <1>1, <1>2, <2>1, SoundGrows
  <2>3. QED
    BY <1>1, <2>1, <2>2 DEF IInv
<1>16. ASSUME NEW emb \in Embeddings, StartUnread(emb) PROVE IInv'
  <2>1. EmptyMemory /\ disk' = disk /\ issued' = issued /\ status' = "up"
    BY <1>16 DEF StartUnread, ids
  <2>2. Sound(disk.documents, disk.chunks, disk.external_index)'
    BY <1>1, <1>2, <2>1, SoundGrows
  <2>3. QED
    BY <1>1, <2>1, <2>2, EmptyMemorySound DEF IInv, EmptyMemory
<1>17. QED
  BY <1>16, <1>3, <1>4, <1>5, <1>6, <1>8, <1>9, <1>10, <1>12, <1>13, <1>14, <1>15 DEF Next

\* The inductive invariant holds in every state of the store.
THEOREM Invariance == Spec => []IInv
<1>1. QED
  BY InitInv, NextInv, PTL DEF Spec

----------------------------------------------------------------------------
(* What follows from it.                                                   *)

\* The external index always names the newest version of each external id, in
\* memory and in what a restart reads back.
THEOREM TipIsNamed == Spec => []IndexNamesTheTip
<1>1. IInv => IndexNamesTheTip
  BY DEF IInv, Sound, IndexNamesTheTip
<1>2. QED
  BY <1>1, Invariance, PTL

\* A version followed by one with a tx window is closed at its start.
THEOREM SupersededVersionsAreClosed == Spec => []SupersededIsClosed
<1>1. IInv => SupersededIsClosed
  BY DEF IInv, Sound, SupersededIsClosed
<1>2. QED
  BY <1>1, Invariance, PTL

\* In a sound store, versions that came in order are disjoint.
LEMMA SoundIsDisjoint ==
  ASSUME NEW docs, NEW ch \in Chunks, NEW ix, Sound(docs, ch, ix)
  PROVE  OneVersionAtATime(ch)
<1> SUFFICES ASSUME NEW e \in ExternalIds, InOrder(e, ch),
                    NEW c \in VersionsOf(e, ch), NEW d \in VersionsOf(e, ch), c # d
             PROVE  ~ Intersects(ch[c].tx, ch[d].tx)
  BY DEF OneVersionAtATime
<1>1. ASSUME NEW a \in VersionsOf(e, ch), NEW b \in VersionsOf(e, ch), a < b
      PROVE  ch[a].tx.end <= ch[b].tx.start
  <2>1. ch[a].tx.end <= ch[b].row.tx.start
    BY <1>1 DEF Sound, ClosedInOrder
  <2>2. ch[b].tx.start = ch[b].row.tx.start
    BY DEF Sound, StartIsKept, InOrder, VersionsOf
  <2>3. QED
    BY <2>1, <2>2
<1>2. c \in ChunkIds /\ d \in ChunkIds
  BY StoredAreIds DEF VersionsOf
<1>3. c < d \/ d < c
  BY <1>2
<1>4. QED
  BY <1>1, <1>3 DEF Intersects

\* Revisions that arrive in order never leave two versions of an external id
\* current at the same transaction time.
THEOREM VersionsNeverOverlap == Spec => []VersionsAreDisjoint
<1>1. IInv => VersionsAreDisjoint
  BY SoundIsDisjoint DEF IInv, TypeOK, File, VersionsAreDisjoint
<1>2. QED
  BY <1>1, Invariance, PTL

\* A store that is not dirty is what is on disk, or holds nothing that a flush
\* could save.
THEOREM CleanStoreIsSaved == Spec => []CleanMeansSaved
<1>1. IInv => CleanMeansSaved
  BY DEF IInv
<1>2. QED
  BY <1>1, Invariance, PTL

\* Every chunk has its vector and its document.
THEOREM EveryChunkIsSearchable == Spec => []ChunksAreSearchable
<1>1. IInv => ChunksAreSearchable
  BY DEF IInv, Sound, ChunksAreSearchable
<1>2. QED
  BY <1>1, Invariance, PTL

\* No chunk is ever held under an embedding it was not ingested under.
THEOREM NoMixedEmbeddings == Spec => []EmbeddedOnce
<1>1. IInv => EmbeddedOnce
  BY DEF IInv
<1>2. QED
  BY <1>1, Invariance, PTL

\* A row changes no stored chunk but the tip of its external id.
LEMMA IngestKeepsHistory ==
  ASSUME IInv, NEW row \in Rows, IngestDocument(row)
  PROVE  OnlyTheTipChanges
<1> SUFFICES ASSUME NEW c \in StoredIn(chunks), chunks'[c] # chunks[c]
             PROVE  /\ chunks'[c].row = chunks[c].row
                    /\ chunks[c].version # NoId => chunks'[c].version = chunks[c].version
                    /\ \E e \in ExternalIds : /\ external_index[e] = c
                                              /\ external_index'[e] = issued'
                                              /\ issued' = issued + 1
  BY DEF OnlyTheTipChanges
<1>1. TypeOK /\ Sound(documents, chunks, external_index)
  BY DEF IInv
<1>2. Supersedes(row, c) /\ chunks'[c].row = chunks[c].row /\ c \in ChunkIds /\ c < issued + 1
  BY <1>1, IngestEffect, StoredAreIds
<1>3. chunks'[c] = Closed(chunks[c], row)
  <2>1. chunks' = WithRow(row, issued + 1)
    BY DEF IngestDocument
  <2>2. c # issued + 1
    BY <1>1, <1>2 DEF TypeOK
  <2>3. QED
    BY <1>2, <2>1, <2>2 DEF WithRow
<1>4. chunks[c].version # NoId => chunks'[c].version = chunks[c].version
  BY <1>3 DEF Closed
<1>5. row.ext \in ExternalIds /\ external_index[row.ext] = c
  BY <1>1, <1>2, SupersedesTheTip DEF Supersedes
<1>6. issued' = issued + 1 /\ external_index'[row.ext] = issued'
  BY <1>5 DEF IngestDocument, IndexWith
<1>7. QED
  BY <1>2, <1>4, <1>5, <1>6

\* No other step changes a stored chunk.
LEMMA NextKeepsHistory == IInv /\ [Next]_vars => [OnlyTheTipChanges]_vars
<1> SUFFICES ASSUME IInv, Next PROVE OnlyTheTipChanges
  BY DEF vars, memory
<1>1. CASE UNCHANGED chunks
  BY <1>1 DEF OnlyTheTipChanges
<1>2. CASE \E row \in Rows : IngestDocument(row)
  BY <1>2, IngestKeepsHistory
<1>3. CASE \A c \in ChunkIds : chunks'[c] = NoChunk
  BY <1>3, StoredAreIds DEF OnlyTheTipChanges
<1>4. CASE StoredIn(chunks) = {}
  BY <1>4 DEF OnlyTheTipChanges
<1>5. (\E emb \in Embeddings : Start(emb) \/ StartUnread(emb)) => StoredIn(chunks) = {}
  BY DEF Start, StartUnread, IInv, StoredIn, NoChunks
<1>6. Stop \/ Clear \/ ClearFails => \A c \in ChunkIds : chunks'[c] = NoChunk
  BY DEF Stop, Clear, ClearFails, EmptyMemory, NoChunks
<1>7. \/ UNCHANGED chunks
      \/ \E row \in Rows : IngestDocument(row)
      \/ Stop \/ Clear \/ ClearFails
      \/ \E emb \in Embeddings : Start(emb) \/ StartUnread(emb)
  BY DEF Next, StartRefused, memory, IngestFails, UpsertDocumentMetadata, Flush, FlushFails
<1>8. QED
  BY <1>1, <1>2, <1>3, <1>4, <1>5, <1>6, <1>7

\* A stored chunk is only ever closed, and only when its external id moves on.
THEOREM ChunksAreOnlyClosed == Spec => HistoryIsKept
<1>1. QED
  BY Invariance, NextKeepsHistory, PTL DEF Spec, HistoryIsKept

----------------------------------------------------------------------------
(* The refinement of VersionLog.                                           *)

\* An empty store is an empty log.
LEMMA EmptyLog ==
  /\ StoredIn(NoChunks) = {}
  /\ NoIndex = Log!NoTip
BY DEF StoredIn, NoChunks, NoIndex, Log!NoTip

\* A new store is a new log.
LEMMA InitRefines == Init => Log!Init
BY EmptyLog DEF Init, EmptyFile, Log!Init

\* An ingested row appends its chunk to the log.
LEMMA IngestRefines ==
  ASSUME IInv, NEW row \in Rows, IngestDocument(row)
  PROVE  Log!Append(issued + 1)
<1>1. TypeOK /\ Sound(documents, chunks, external_index)
      /\ Sound(disk.documents, disk.chunks, disk.external_index)
  BY DEF IInv
<1>2. StoredIn(chunks') = StoredIn(chunks) \cup {issued + 1} /\ disk' = disk
  BY <1>1, IngestEffect DEF IngestDocument
<1>3. \A b \in StoredIn(chunks) \cup StoredIn(disk.chunks) : b < issued + 1
  BY <1>1, StoredAreIds DEF Sound, TypeOK
<1>4. external_index' = IndexWith(row, issued + 1) /\ external_index \in Index
  BY <1>1 DEF IngestDocument, TypeOK
<1>5. CASE row.ext \in ExternalIds
  <2>1. external_index' = [external_index EXCEPT ![row.ext] = issued + 1]
    BY <1>4, <1>5 DEF IndexWith, Index
  <2>2. QED
    BY <1>2, <1>3, <1>5, <2>1 DEF Log!Append
<1>6. CASE row.ext \notin ExternalIds
  <2>1. external_index' = external_index
    BY <1>4, <1>6 DEF IndexWith, Index
  <2>2. QED
    BY <1>2, <1>3, <2>1 DEF Log!Append
<1>7. QED
  BY <1>5, <1>6

\* Every step of the store is a step of the log or leaves it as it is.
LEMMA NextRefines == IInv /\ [Next]_vars => [Log!Next]_(Log!vars)
<1> SUFFICES ASSUME IInv, [Next]_vars PROVE [Log!Next]_(Log!vars)
  OBVIOUS
<1>1. CASE UNCHANGED <<chunks, external_index, disk>>
  BY <1>1 DEF Log!vars
<1>2. ASSUME NEW emb \in Embeddings, Start(emb) PROVE Log!Next
  BY <1>2, EmptyLog DEF Start, IInv, Log!Next, Log!Recover
<1>3. ASSUME NEW row \in Rows, IngestDocument(row) PROVE Log!Next
  <2>1. issued + 1 \in ChunkIds
    BY <1>3 DEF IngestDocument, IInv, TypeOK
  <2>2. QED
    BY <1>3, <2>1, IngestRefines DEF Log!Next
<1>4. CASE Flush
  BY <1>4 DEF Flush, Snapshot, Log!Next, Log!Save
<1>5. disk' \in AfterFailedWrite =>
        UNCHANGED disk \/ (Log!NothingSaved)
  BY EmptyLog DEF AfterFailedWrite, EmptyFile, Log!NothingSaved
<1>6. CASE FlushFails
  BY <1>5, <1>6 DEF FlushFails, memory, Log!Next, Log!LoseSaved, Log!vars
<1>7. EmptyMemory => Log!Nothing
  BY EmptyLog DEF EmptyMemory, Log!Nothing
<1>8. CASE Stop
  BY <1>7, <1>8 DEF Stop, Log!Next, Log!Purge
<1>9. CASE Clear
  BY <1>7, <1>9, EmptyLog DEF Clear, EmptyFile, Log!Next, Log!Purge, Log!NothingSaved
<1>10. CASE ClearFails
  BY <1>5, <1>7, <1>10 DEF ClearFails, Log!Next, Log!Purge
<1>11. \/ UNCHANGED <<chunks, external_index, disk>>
       \/ \E emb \in Embeddings : Start(emb) \/ StartUnread(emb)
       \/ \E row \in Rows : IngestDocument(row)
       \/ Flush \/ FlushFails \/ Stop \/ Clear \/ ClearFails
  BY DEF Next, vars, memory, StartRefused, IngestFails, UpsertDocumentMetadata
<1>12. ASSUME NEW emb \in Embeddings, StartUnread(emb)
       PROVE  UNCHANGED <<chunks, external_index, disk>>
  BY <1>12 DEF StartUnread, EmptyMemory, IInv
<1>13. QED
  BY <1>1, <1>2, <1>3, <1>4, <1>6, <1>8, <1>9, <1>10, <1>11, <1>12

\* The store implements VersionLog.
THEOREM Refinement == Spec => ImplementsVersionLog
<1>1. QED
  BY InitRefines, Invariance, NextRefines, PTL DEF Spec, ImplementsVersionLog, Log!Spec

=============================================================================
