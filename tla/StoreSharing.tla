---------------------------- MODULE StoreSharing ----------------------------
(***************************************************************************)
(* Several PVDB objects over the one file storage/pvdb/persisted.json: the *)
(* server, every command of the CLI (howtorunme.md runs both at once), and *)
(* the second AppState that two first requests build when they miss the    *)
(* cache of get_app_state together.  Each loads the whole file once and    *)
(* from then on writes its own memory over it.                             *)
(*                                                                         *)
(* A command is one step here, that returns or raises; PVDBThreads takes   *)
(* an ingest apart.                                                        *)
(***************************************************************************)
EXTENDS Naturals, FiniteSets

CONSTANTS
  Stores,      \* PVDB objects that may exist
  MaxChunks    \* bound: chunks that are ingested in all

ASSUME SharingAssumption == MaxChunks \in Nat

ChunkIds == 1..MaxChunks

VARIABLES
  open,         \* stores that exist
  mem,          \* chunks of each store
  dirty,        \* stores whose _dirty is set
  disk,         \* the file: whether it parses, and its chunks
  issued,       \* chunk ids issued so far
  acked,        \* ghost: chunks whose ingest returned, since the last purge
  purged,       \* ghost: chunks that were there when a purge returned
  blind,        \* ghost: stores that could not read the file, or that have not
                \* seen what another one wrote to it since
  overwritten   \* ghost: a blind store has written the file

sharingVars ==
  <<open, mem, dirty, disk, issued, acked, purged, blind, overwritten>>

Holding(chunks) == [ok |-> TRUE, chunks |-> chunks]
Torn == [ok |-> FALSE, chunks |-> {}]

SharingInit ==
  /\ open = {} /\ dirty = {}
  /\ mem = [s \in Stores |-> {}]
  /\ disk = Holding({})
  /\ issued = 0
  /\ acked = {} /\ purged = {} /\ blind = {} /\ overwritten = FALSE

\* get_app_state on its first call: _load_from_disk.  Whatever the reading or
\* parsing of the file raises, the store is empty and not dirty.
Load(s) ==
  \E read \in BOOLEAN :
    LET seen == read /\ disk.ok IN
    /\ s \notin open
    /\ open' = open \cup {s}
    /\ mem' = [mem EXCEPT ![s] = IF seen THEN disk.chunks ELSE {}]
    /\ blind' = IF seen THEN blind ELSE blind \cup {s}
    /\ UNCHANGED <<dirty, disk, issued, acked, purged, overwritten>>

\* The whole memory of the store is written over the file.
Written(s) ==
  /\ disk' = Holding(mem'[s])
  /\ dirty' = dirty \ {s}
  /\ blind' = open \ {s}
  /\ overwritten' = (overwritten \/ s \in blind)

\* The file cannot be opened, or is opened and a part of the text is written.
WriteFails(s) ==
  /\ disk' \in {disk, Torn}
  /\ dirty' = dirty \cup {s}
  /\ UNCHANGED <<blind, overwritten>>

\* The chunk of an ingest is in memory.
Added(s) ==
  /\ s \in open
  /\ issued < MaxChunks
  /\ issued' = issued + 1
  /\ mem' = [mem EXCEPT ![s] = @ \cup {issued'}]
  /\ UNCHANGED <<open, purged>>

\* The rows are stored and the store is flushed.
Ingest(s) ==
  /\ Added(s)
  /\ Written(s)
  /\ acked' = acked \cup {issued'}

\* The encoder raises at a later row, or the write does.
IngestRaises(s) ==
  /\ Added(s)
  /\ WriteFails(s)
  /\ UNCHANGED acked

\* An ingest that finds no row writes what an earlier one left behind.
Flush(s) ==
  /\ s \in open /\ s \in dirty
  /\ UNCHANGED <<open, mem, issued, acked, purged>>
  /\ Written(s) \/ WriteFails(s)

\* clear, before its write.
Cleared(s) ==
  /\ s \in open
  /\ mem' = [mem EXCEPT ![s] = {}]
  /\ acked' = {}
  /\ UNCHANGED <<open, issued>>

\* Mutant: a purge leaves the file to the next flush.
PurgeMemory(s) ==
  /\ Cleared(s)
  /\ dirty' = dirty \cup {s}
  /\ purged' = 1..issued
  /\ UNCHANGED <<disk, blind, overwritten>>

\* purge_system: the store empties its memory, then the file.
Purge(s) ==
  /\ Cleared(s)
  /\ Written(s)
  /\ purged' = 1..issued

PurgeRaises(s) ==
  /\ Cleared(s)
  /\ WriteFails(s)
  /\ UNCHANGED purged

\* The process of the store ends.
Exit(s) ==
  /\ s \in open
  /\ open' = open \ {s}
  /\ mem' = [mem EXCEPT ![s] = {}]
  /\ dirty' = dirty \ {s} /\ blind' = blind \ {s}
  /\ UNCHANGED <<disk, issued, acked, purged, overwritten>>

SharingNext ==
  \E s \in Stores :
    \/ Load(s) \/ Ingest(s) \/ IngestRaises(s) \/ Flush(s)
    \/ Purge(s) \/ PurgeRaises(s) \/ Exit(s)

SharingSpec == SharingInit /\ [][SharingNext]_sharingVars

----------------------------------------------------------------------------
(* Properties.                                                             *)

Seeing == open \ blind

\* Chunks are lost, and purged ones come back, in no other way than that a store
\* writes the file that could not read it or has not seen the last write: until
\* then every store that has seen it, and the file unless a write tore it, holds
\* each chunk whose ingest returned and none that a purge removed; a store that
\* is not dirty is what the file was last written from (deps.py 61-85, dao.py
\* 33-40, 186-209).
OnlyBlindWritesLose ==
  ~ overwritten =>
    /\ \A s \in Seeing : acked \subseteq mem[s] /\ mem[s] \cap purged = {}
    /\ disk.ok => acked \subseteq disk.chunks /\ disk.chunks \cap purged = {}
    /\ disk.ok => \A s \in Seeing \ dirty : mem[s] = disk.chunks

=============================================================================
