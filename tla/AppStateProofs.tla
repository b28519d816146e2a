--------------------------- MODULE AppStateProofs ---------------------------
(***************************************************************************)
(* What holds of the two halves of an AppState (deps.py 45-58): of its     *)
(* policy, as modelled in Policy, for any number of threads, sections,     *)
(* keys and patches, and of its store, as modelled in StoreSharing, for    *)
(* any number of stores and chunks.                                        *)
(***************************************************************************)
EXTENDS Policy, StoreSharing, TLAPS

USE PolicyAssumption

Steps ==
  {"idle", "check", "key", "update", "version", "record", "stamp", "copy", "read", "reply"}

Patching == {"check", "key", "update", "version", "record", "stamp"}

Locals ==
  [request : Patches \cup {NoPatch}, version : Versions, copied : [Sections -> Versions]]

TypeInv ==
  /\ policy_cfg \in [Sections -> Versions]
  /\ policy_version \in Versions /\ in_force \in Versions
  /\ policy_applied_keys \subseteq Keys
  /\ pc \in [Threads -> Steps]
  /\ local \in [Threads -> Locals]
  /\ \A t \in Threads : pc[t] \in Patching => local[t].request \in Patches
  /\ received \in Nat
  /\ applied \in [Keys -> Nat]
  /\ overlap \in BOOLEAN

Applied == {k \in Keys : applied[k] = 1}

\* At most one thread serves a request.
Alone == \A t, u \in Threads : ~ At(t, "idle") /\ ~ At(u, "idle") => t = u

\* A key is recorded exactly when its patch has been applied, except between the
\* two writes; the patch that is about to be applied has an unknown key.
KeysInv ==
  /\ \A k \in Keys : applied[k] <= 1
  /\ \A t \in Threads : At(t, "update") => Key(t) \notin policy_applied_keys
  /\ (\A t \in Threads : pc[t] \notin {"version", "record"}) => policy_applied_keys = Applied
  /\ \A t \in Threads : pc[t] \in {"version", "record"} =>
       policy_applied_keys \cup ({Key(t)} \ {NoKey}) = Applied

\* The version is that of the last changes, except before it is written; a GET
\* has read what is there.
VersionInv ==
  /\ (\A t \in Threads : ~ At(t, "version")) => policy_version = in_force
  /\ \A t \in Threads : At(t, "version") => local[t].request.version = in_force
  /\ \A t \in Threads : pc[t] \in {"read", "reply"} => local[t].copied = policy_cfg
  /\ \A t \in Threads : At(t, "reply") => local[t].version = in_force

IInv == TypeInv /\ (~ overlap => Alone /\ KeysInv /\ VersionInv)

----------------------------------------------------------------------------
\* A server that has just started satisfies the invariant.
LEMMA FreshInv ==
  ASSUME NEW v \in Bundles, Fresh(v, policy_cfg, policy_version, policy_applied_keys, pc, local),
         in_force = v, received \in Nat, applied = NoHistory, overlap = FALSE
  PROVE  IInv
<1>1. v \in Versions /\ NoLocals(v) \in Locals
  BY DEF NoLocals, Locals
<1>2. TypeInv
  BY <1>1 DEF TypeInv, Fresh, NoHistory, Steps, Patching
<1>3. Alone
  BY DEF Alone, Fresh, At
<1>4. KeysInv
  BY DEF KeysInv, Fresh, At, Applied, NoHistory
<1>5. VersionInv
  BY DEF VersionInv, Fresh, At
<1>6. QED
  BY <1>2, <1>3, <1>4, <1>5 DEF IInv

\* A request that is received is that of a thread that was idle; beside another
\* one it is an overlap.
LEMMA ReceiveInv ==
  ASSUME IInv, NEW t \in Threads, NEW request, NEW step,
         \/ request \in Patches /\ step = "check"
         \/ request = NoPatch /\ step = "copy",
         Receive(t, request, step)
  PROVE  IInv'
<1> USE DEF IInv, Receive, At, Goto
<1>1. [NoLocals(policy_version) EXCEPT !.request = request] \in Locals
  BY DEF NoLocals, Locals, TypeInv
<1>2. TypeInv'
  BY <1>1 DEF TypeInv, Steps, Patching, policy, Locals
<1>3. ASSUME ~ overlap'
      PROVE  ~ overlap /\ \A u \in Threads : At(u, "idle")
  BY <1>3
<1>4. ASSUME ~ overlap'
      PROVE  Alone' /\ KeysInv' /\ VersionInv'
  BY <1>3, <1>4 DEF TypeInv, Alone, KeysInv, VersionInv, Applied, Key, policy
<1>5. QED
  BY <1>2, <1>4

\* The writes of a patch keep keys and applications together.
LEMMA PatchInv ==
  ASSUME IInv, NEW t \in Threads,
         CheckVersion(t) \/ CheckKey(t) \/ UpdateCfg(t) \/ SetVersion(t) \/ RecordKey(t) \/ Stamp(t)
  PROVE  IInv'
<1> USE DEF IInv, At, Goto
<1>1. CASE CheckVersion(t)
  BY <1>1 DEF CheckVersion, TypeInv, Alone, KeysInv, VersionInv, Applied, Key, Steps, Patching, policy, ghosts
<1>2. CASE CheckKey(t)
  BY <1>2 DEF CheckKey, TypeInv, Alone, KeysInv, VersionInv, Applied, Key, Steps, Patching, policy, ghosts
<1>3. CASE UpdateCfg(t)
  <2>1. local[t].request \in Patch
    BY <1>3 DEF UpdateCfg, TypeInv, Patching
  <2>2. Key(t) \in Keys \cup {NoKey} /\ local[t].request.version \in Versions
    BY <2>1 DEF Patch, Key
  <2>3. TypeInv'
    BY <1>3, <2>2 DEF UpdateCfg, TypeInv, Steps, Patching
  <2>4. ASSUME ~ overlap
        PROVE  Alone' /\ VersionInv'
    BY <1>3, <2>4 DEF UpdateCfg, TypeInv, Alone, VersionInv
  <2>5. ASSUME ~ overlap
        PROVE  KeysInv'
    <3>1. policy_applied_keys = Applied /\ Key(t) \notin Applied
      BY <1>3, <2>5 DEF UpdateCfg, TypeInv, Alone, KeysInv
    <3>2. \A k \in Keys : applied'[k] = IF k = Key(t) THEN applied[k] + 1 ELSE applied[k]
      BY <1>3 DEF UpdateCfg
    <3>3. Key(t) \in Keys => applied[Key(t)] = 0
      BY <2>5, <3>1 DEF KeysInv, Applied, TypeInv
    <3>4. \A k \in Keys : applied'[k] <= 1
      BY <2>5, <3>2, <3>3 DEF KeysInv, TypeInv
    <3>5. Applied' = Applied \cup ({Key(t)} \ {NoKey})
      BY <2>2, <3>2, <3>3 DEF Applied, TypeInv
    <3>6. QED
      BY <1>3, <2>5, <3>1, <3>4, <3>5 DEF UpdateCfg, TypeInv, Alone, KeysInv, Key
  <2>6. QED
    BY <1>3, <2>3, <2>4, <2>5 DEF UpdateCfg
<1>4. CASE SetVersion(t)
  <2>1. local[t].request \in Patch
    BY <1>4 DEF SetVersion, TypeInv, Patching
  <2>2. TypeInv'
    BY <1>4, <2>1 DEF SetVersion, TypeInv, Steps, Patching, Patch, ghosts
  <2>3. QED
    BY <1>4, <2>2 DEF SetVersion, TypeInv, Alone, KeysInv, VersionInv, Applied, Key, ghosts
<1>5. CASE RecordKey(t)
  <2>1. local[t].request \in Patch
    BY <1>5 DEF RecordKey, TypeInv, Patching
  <2>2. TypeInv'
    BY <1>5, <2>1 DEF RecordKey, TypeInv, Steps, Patching, Patch, Key, ghosts
  <2>3. QED
    BY <1>5, <2>2 DEF RecordKey, TypeInv, Alone, KeysInv, VersionInv, Applied, Key, ghosts
<1>6. CASE Stamp(t)
  BY <1>6 DEF Stamp, TypeInv, Alone, KeysInv, VersionInv, Applied, Key, Steps, Patching, policy, ghosts
<1>7. QED
  BY <1>1, <1>2, <1>3, <1>4, <1>5, <1>6

\* The reads of a GET.
LEMMA GetInv ==
  ASSUME IInv, NEW t \in Threads, CopyCfg(t) \/ ReadVersion(t) \/ Reply(t)
  PROVE  IInv'
<1> USE DEF IInv, At, Goto
<1>1. CASE CopyCfg(t)
  <2>1. TypeInv'
    BY <1>1 DEF CopyCfg, TypeInv, Locals, Steps, Patching, policy, ghosts
  <2>2. QED
    BY <1>1, <2>1 DEF CopyCfg, TypeInv, Locals, Alone, KeysInv, VersionInv, Applied, Key, policy, ghosts
<1>2. CASE ReadVersion(t)
  <2>1. TypeInv'
    BY <1>2 DEF ReadVersion, TypeInv, Locals, Steps, Patching, policy, ghosts
  <2>2. /\ \A u \in Threads : pc'[u] = IF u = t THEN "reply" ELSE pc[u]
        /\ \A u \in Threads : local'[u].request = local[u].request /\ local'[u].copied = local[u].copied
        /\ \A u \in Threads : local'[u].version = IF u = t THEN policy_version ELSE local[u].version
        /\ pc[t] = "read" /\ UNCHANGED <<policy, ghosts>>
    BY <1>2 DEF ReadVersion, TypeInv, Locals
  <2>3. Alone => Alone'
    BY <2>2 DEF Alone
  <2>4. KeysInv => KeysInv'
    BY <2>2 DEF KeysInv, Applied, Key, policy, ghosts
  <2>5. Alone /\ VersionInv => VersionInv'
    BY <2>2 DEF Alone, VersionInv, policy, ghosts
  <2>6. QED
    BY <2>1, <2>2, <2>3, <2>4, <2>5 DEF ghosts
<1>3. CASE Reply(t)
  BY <1>3 DEF Reply, TypeInv, Alone, KeysInv, VersionInv, Applied, Key, Steps, Patching, policy, ghosts
<1>4. QED
  BY <1>1, <1>2, <1>3

LEMMA NextInv == IInv /\ [Next]_vars => IInv'
<1> SUFFICES ASSUME IInv, [Next]_vars
             PROVE  IInv'
  OBVIOUS
<1>1. ASSUME NEW t \in Threads, ApplyPolicy(t) \/ GetPolicy(t)
      PROVE  IInv'
  BY <1>1, ReceiveInv DEF ApplyPolicy, GetPolicy
<1>2. CASE Restart
  <2>1. received' \in Nat
    BY <1>2 DEF Restart, IInv, TypeInv
  <2>2. PICK v \in Bundles :
          /\ Fresh(v, policy_cfg', policy_version', policy_applied_keys', pc', local')
          /\ in_force' = v
    BY <1>2 DEF Restart
  <2>3. v \in Versions /\ NoLocals(v) \in Locals
    BY DEF NoLocals, Locals
  <2>4. applied' = NoHistory /\ overlap' = FALSE
    BY <1>2 DEF Restart
  <2>5. TypeInv'
    BY <2>1, <2>2, <2>3, <2>4 DEF TypeInv, Fresh, NoHistory, Steps, Patching
  <2>6. Alone' /\ KeysInv' /\ VersionInv'
    BY <2>2, <2>4 DEF Alone, KeysInv, VersionInv, Fresh, At, Applied, NoHistory
  <2>7. QED
    BY <2>5, <2>6 DEF IInv
<1>3. CASE UNCHANGED vars
  BY <1>3 DEF vars, policy, ghosts, IInv, TypeInv, Alone, KeysInv, VersionInv, Applied, At, Key
<1>4. QED
  BY <1>1, <1>2, <1>3, PatchInv, GetInv DEF Next

LEMMA Invariance == Spec => []IInv
<1>1. ASSUME Init
      PROVE  IInv
  <2>1. PICK v \in Bundles :
          /\ Fresh(v, policy_cfg, policy_version, policy_applied_keys, pc, local)
          /\ in_force = v
    BY <1>1 DEF Init
  <2>2. received \in Nat /\ applied = NoHistory /\ overlap = FALSE
    BY <1>1 DEF Init
  <2>3. QED
    BY <2>1, <2>2, FreshInv
<1>2. QED
  BY <1>1, NextInv, PTL DEF Spec

----------------------------------------------------------------------------
\* Patches that are applied one at a time change the configuration once per key,
\* and a key is recorded exactly when its patch has (deps.py 96-103).
THEOREM SerialPatchesApplyOnce == Spec => []SerialKeysApplyOnce
<1>1. IInv => SerialKeysApplyOnce
  BY DEF IInv, KeysInv, SerialKeysApplyOnce, AllIdle, At, Applied
<1>2. QED
  BY <1>1, Invariance, PTL

\* Requests one at a time leave the version of the changes made last, and a GET
\* shows that version with its configuration (policy_service.py 16-20).
THEOREM SerialVersions == Spec => []SerialVersionIsInForce
<1>1. IInv => SerialVersionIsInForce
  BY DEF IInv, VersionInv, SerialVersionIsInForce, AllIdle, At
<1>2. QED
  BY <1>1, Invariance, PTL

----------------------------------------------------------------------------
(* Several stores over the file.                                           *)

Issued == 1..issued

SharingInv ==
  /\ issued \in Nat
  /\ open \subseteq Stores /\ dirty \subseteq open /\ blind \subseteq open
  /\ mem \in [Stores -> SUBSET Issued]
  /\ disk \in [ok : BOOLEAN, chunks : SUBSET Issued]
  /\ acked \subseteq Issued /\ purged \subseteq Issued
  /\ OnlyBlindWritesLose

\* A chunk that is added is new, and what was issued before stays issued.
LEMMA AddedChunk ==
  ASSUME SharingInv, NEW s \in Stores, Added(s)
  PROVE  /\ issued' \in Nat /\ Issued \subseteq Issued' /\ issued' \in Issued' \ Issued
         /\ mem' \in [Stores -> SUBSET Issued']
         /\ \A u \in Stores : mem'[u] = IF u = s THEN mem[s] \cup {issued'} ELSE mem[u]
<1>1. issued' = issued + 1 /\ issued' \in Nat
  BY DEF Added, SharingInv
<1>2. Issued \subseteq Issued' /\ issued' \in Issued' \ Issued
  BY <1>1 DEF Issued, SharingInv
<1>3. \A u \in Stores : mem'[u] = IF u = s THEN mem[s] \cup {issued'} ELSE mem[u]
  BY DEF Added, SharingInv
<1>4. DOMAIN mem' = Stores /\ mem' = [u \in Stores |-> mem'[u]]
  BY DEF Added, SharingInv
<1>5. \A u \in Stores : mem'[u] \in SUBSET Issued'
  BY <1>2, <1>3 DEF SharingInv
<1>6. QED
  BY <1>1, <1>2, <1>3, <1>4, <1>5

\* A file that was written holds the memory of its store, and parses.
LEMMA HoldingFile ==
  ASSUME NEW chunks
  PROVE  /\ Holding(chunks).ok /\ Holding(chunks).chunks = chunks
         /\ ~ Torn.ok /\ Torn.chunks = {}
         /\ \A ids : chunks \subseteq ids =>
              Holding(chunks) \in [ok : BOOLEAN, chunks : SUBSET ids]
         /\ \A ids : Torn \in [ok : BOOLEAN, chunks : SUBSET ids]
BY DEF Holding, Torn

LEMMA LoadSharing ==
  ASSUME SharingInv, NEW s \in Stores, Load(s)
  PROVE  SharingInv'
<1>1. PICK read \in BOOLEAN :
        LET seen == read /\ disk.ok IN
        /\ mem' = [mem EXCEPT ![s] = IF seen THEN disk.chunks ELSE {}]
        /\ blind' = IF seen THEN blind ELSE blind \cup {s}
  BY DEF Load
<1>2. /\ s \notin open /\ open' = open \cup {s}
      /\ UNCHANGED <<dirty, disk, issued, acked, purged, overwritten>> /\ Issued' = Issued
  BY DEF Load, Issued
<1>3. CASE read /\ disk.ok
  BY <1>1, <1>2, <1>3 DEF SharingInv, OnlyBlindWritesLose, Seeing
<1>4. CASE ~ (read /\ disk.ok)
  BY <1>1, <1>2, <1>4 DEF SharingInv, OnlyBlindWritesLose, Seeing
<1>5. QED
  BY <1>3, <1>4

LEMMA IngestSharing ==
  ASSUME SharingInv, NEW s \in Stores, Ingest(s) \/ IngestRaises(s)
  PROVE  SharingInv'
<1>1. Added(s)
  BY DEF Ingest, IngestRaises
<1>2. /\ issued' \in Nat /\ Issued \subseteq Issued' /\ issued' \in Issued' \ Issued
      /\ mem' \in [Stores -> SUBSET Issued']
      /\ \A u \in Stores : mem'[u] = IF u = s THEN mem[s] \cup {issued'} ELSE mem[u]
  BY <1>1, AddedChunk
<1>3. s \in open /\ UNCHANGED <<open, purged>>
  BY <1>1 DEF Added
<1>4. CASE Ingest(s)
  <2>1. /\ disk' = Holding(mem'[s]) /\ dirty' = dirty \ {s} /\ blind' = open \ {s}
        /\ overwritten' = (overwritten \/ s \in blind) /\ acked' = acked \cup {issued'}
    BY <1>4 DEF Ingest, Written
  <2>2. disk'.ok /\ disk'.chunks = mem'[s] /\ disk' \in [ok : BOOLEAN, chunks : SUBSET Issued']
    BY <1>2, <2>1, HoldingFile
  <2>3. ASSUME ~ overwritten'
        PROVE  s \in Seeing /\ acked \subseteq mem[s] /\ mem[s] \cap purged = {}
    BY <1>3, <2>1, <2>3 DEF Seeing, SharingInv, OnlyBlindWritesLose
  <2>4. Seeing' = {s}
    BY <1>3, <2>1 DEF Seeing, SharingInv
  <2>5. ASSUME ~ overwritten'
        PROVE  acked' \subseteq mem'[s] /\ mem'[s] \cap purged' = {}
    BY <1>2, <1>3, <2>1, <2>3, <2>5 DEF SharingInv
  <2>6. OnlyBlindWritesLose'
    BY <2>2, <2>4, <2>5 DEF OnlyBlindWritesLose
  <2>7. QED
    BY <1>2, <1>3, <2>1, <2>2, <2>6 DEF SharingInv
<1>5. CASE IngestRaises(s)
  <2>1. /\ disk' \in {disk, Torn} /\ dirty' = dirty \cup {s}
        /\ UNCHANGED <<blind, overwritten, acked>>
    BY <1>5 DEF IngestRaises, WriteFails
  <2>2. disk' \in [ok : BOOLEAN, chunks : SUBSET Issued'] /\ (disk'.ok => disk' = disk)
    BY <1>2, <2>1, HoldingFile DEF SharingInv
  <2>3. OnlyBlindWritesLose'
    BY <1>2, <1>3, <2>1, <2>2 DEF OnlyBlindWritesLose, Seeing, SharingInv
  <2>4. QED
    BY <1>2, <1>3, <2>1, <2>2, <2>3 DEF SharingInv
<1>6. QED
  BY <1>4, <1>5

LEMMA FlushSharing ==
  ASSUME SharingInv, NEW s \in Stores, Flush(s)
  PROVE  SharingInv'
<1>1. s \in open /\ UNCHANGED <<open, mem, issued, acked, purged>> /\ Issued' = Issued
  BY DEF Flush, Issued
<1>2. CASE Written(s)
  <2>1. /\ disk' = Holding(mem[s]) /\ dirty' = dirty \ {s} /\ blind' = open \ {s}
        /\ overwritten' = (overwritten \/ s \in blind)
    BY <1>1, <1>2 DEF Written
  <2>2. disk'.ok /\ disk'.chunks = mem[s] /\ disk' \in [ok : BOOLEAN, chunks : SUBSET Issued]
    BY <2>1, HoldingFile DEF SharingInv
  <2>3. Seeing' = {s}
    BY <1>1, <2>1 DEF Seeing, SharingInv
  <2>4. ~ overwritten' => acked \subseteq mem[s] /\ mem[s] \cap purged = {}
    BY <1>1, <2>1 DEF Seeing, SharingInv, OnlyBlindWritesLose
  <2>5. OnlyBlindWritesLose'
    BY <1>1, <2>2, <2>3, <2>4 DEF OnlyBlindWritesLose
  <2>6. QED
    BY <1>1, <2>1, <2>2, <2>5 DEF SharingInv
<1>3. CASE WriteFails(s)
  <2>1. disk' \in [ok : BOOLEAN, chunks : SUBSET Issued] /\ (disk'.ok => disk' = disk)
    BY <1>3, HoldingFile DEF WriteFails, SharingInv
  <2>2. QED
    BY <1>1, <1>3, <2>1 DEF WriteFails, SharingInv, OnlyBlindWritesLose, Seeing
<1>4. QED
  BY <1>2, <1>3 DEF Flush

LEMMA PurgeSharing ==
  ASSUME SharingInv, NEW s \in Stores, Purge(s) \/ PurgeRaises(s)
  PROVE  SharingInv'
<1>1. /\ s \in open /\ acked' = {} /\ UNCHANGED <<open, issued>> /\ Issued' = Issued
      /\ mem' = [mem EXCEPT ![s] = {}]
  BY DEF Purge, PurgeRaises, Cleared, Issued
<1>2. mem' \in [Stores -> SUBSET Issued]
      /\ \A u \in Stores : mem'[u] = IF u = s THEN {} ELSE mem[u]
  BY <1>1 DEF SharingInv
<1>3. CASE Purge(s)
  <2>1. disk' = Holding({}) /\ dirty' = dirty \ {s} /\ blind' = open \ {s} /\ purged' = Issued
    BY <1>2, <1>3 DEF Purge, Written, Issued
  <2>2. disk'.ok /\ disk'.chunks = {} /\ disk' \in [ok : BOOLEAN, chunks : SUBSET Issued]
    BY <2>1, HoldingFile
  <2>3. Seeing' = {s}
    BY <1>1, <2>1 DEF Seeing, SharingInv
  <2>4. OnlyBlindWritesLose'
    BY <1>1, <1>2, <2>2, <2>3 DEF OnlyBlindWritesLose
  <2>5. QED
    BY <1>1, <1>2, <2>1, <2>2, <2>4 DEF SharingInv
<1>4. CASE PurgeRaises(s)
  <2>1. disk' \in [ok : BOOLEAN, chunks : SUBSET Issued] /\ (disk'.ok => disk' = disk)
    BY <1>4, HoldingFile DEF PurgeRaises, WriteFails, SharingInv
  <2>2. dirty' = dirty \cup {s} /\ UNCHANGED <<blind, overwritten, purged>>
    BY <1>4 DEF PurgeRaises, WriteFails
  <2>3. OnlyBlindWritesLose'
    BY <1>1, <1>2, <2>1, <2>2 DEF OnlyBlindWritesLose, Seeing, SharingInv
  <2>4. QED
    BY <1>1, <1>2, <2>1, <2>2, <2>3 DEF SharingInv
<1>5. QED
  BY <1>3, <1>4

LEMMA ExitSharing ==
  ASSUME SharingInv, NEW s \in Stores, Exit(s)
  PROVE  SharingInv'
<1>1. /\ open' = open \ {s} /\ dirty' = dirty \ {s} /\ blind' = blind \ {s}
      /\ mem' = [mem EXCEPT ![s] = {}] /\ Issued' = Issued
      /\ UNCHANGED <<disk, issued, acked, purged, overwritten>>
  BY DEF Exit, Issued
<1>2. \A u \in Seeing' : u \in Seeing /\ mem'[u] = mem[u] /\ (u \notin dirty' => u \notin dirty)
  BY <1>1 DEF Seeing, SharingInv
<1>3. OnlyBlindWritesLose'
  BY <1>1, <1>2 DEF OnlyBlindWritesLose, SharingInv
<1>4. mem' \in [Stores -> SUBSET Issued]
  BY <1>1 DEF SharingInv
<1>5. QED
  BY <1>1, <1>3, <1>4 DEF SharingInv

LEMMA NextSharing == SharingInv /\ [SharingNext]_sharingVars => SharingInv'
<1> SUFFICES ASSUME SharingInv, [SharingNext]_sharingVars
             PROVE  SharingInv'
  OBVIOUS
<1>1. CASE UNCHANGED sharingVars
  BY <1>1 DEF sharingVars, SharingInv, Issued, OnlyBlindWritesLose, Seeing
<1>2. QED
  BY <1>1, LoadSharing, IngestSharing, FlushSharing, PurgeSharing, ExitSharing DEF SharingNext

\* Of any number of stores over one file, through failed reads and writes: no
\* chunk whose ingest returned is lost, and none that a purge removed comes back,
\* before a store writes the file that could not read it or has not seen the last
\* write (deps.py 61-85, dao.py 33-40, 186-209).
THEOREM LossNeedsABlindWrite == SharingSpec => []OnlyBlindWritesLose
<1>1. SharingInit => SharingInv
  BY HoldingFile DEF SharingInit, SharingInv, Issued, OnlyBlindWritesLose, Seeing
<1>2. SharingInv => OnlyBlindWritesLose
  BY DEF SharingInv
<1>3. QED
  BY <1>1, <1>2, NextSharing, PTL DEF SharingSpec

=============================================================================
