------------------------------- MODULE Policy -------------------------------
(***************************************************************************)
(* The runtime policy: POST /policy/apply and GET /policy in the threads   *)
(* of one server (policy_service.py, deps.py).  Nothing locks the AppState; *)
(* a thread may be suspended between any two accesses to it.                *)
(*                                                                         *)
(* What a section of the policy holds is named by the version that set it. *)
(***************************************************************************)
EXTENDS Naturals

CONSTANTS
  Threads,
  Sections,      \* top-level keys of the policy
  Versions,
  Keys,          \* idempotency keys
  NoKey,
  Bundles,       \* versions config/polar.yaml may hold at a start
  Patches,       \* requests of an administrator: [version, key, changes]
  NoPatch,       \* a request that is not a patch
  MaxRequests    \* bound: requests received in all

\* changes: the sections a patch replaces.
Patch == [version : Versions, key : Keys \cup {NoKey}, changes : SUBSET Sections]

ASSUME PolicyAssumption ==
  /\ Bundles \subseteq Versions
  /\ Patches \subseteq Patch
  /\ NoKey \notin Keys
  /\ NoPatch \notin Patch
  /\ MaxRequests \in Nat

VARIABLES
  policy_cfg,           \* AppState.policy_cfg, its sections to versions
  policy_version,       \* AppState.policy_version
  policy_applied_keys,  \* AppState.policy_applied_keys
  pc,                   \* where each thread is
  local,                \* the local variables of each thread's request
  received,             \* requests received, against MaxRequests
  in_force,             \* ghost: version of the changes that were made last
  applied,              \* ghost: how often the changes of a key were made
  overlap               \* ghost: two requests have been in progress at once

policy == <<policy_cfg, policy_version, policy_applied_keys>>
ghosts == <<in_force, applied, overlap>>
vars   == <<policy, pc, local, received, ghosts>>

\* version, copied: what a GET has read.
NoLocals(v) ==
  [request |-> NoPatch, version |-> v,
   copied |-> [s \in Sections |-> v]]

\* The state of a server that has just read a bundle: no key is applied, no
\* thread serves a request.
Fresh(v, cfg, version, keys, steps, locals) ==
  /\ cfg = [s \in Sections |-> v]
  /\ version = v
  /\ keys = {}
  /\ steps = [t \in Threads |-> "idle"]
  /\ locals = [t \in Threads |-> NoLocals(v)]

NoHistory == [k \in Keys |-> 0]

Init ==
  /\ \E v \in Bundles :
       /\ Fresh(v, policy_cfg, policy_version, policy_applied_keys, pc, local)
       /\ in_force = v
  /\ received = 0 /\ applied = NoHistory /\ overlap = FALSE

Goto(t, step) == pc' = [pc EXCEPT ![t] = step]
At(t, step)   == pc[t] = step

Receive(t, request, step) ==
  /\ At(t, "idle")
  /\ received < MaxRequests
  /\ received' = received + 1
  /\ local' = [local EXCEPT ![t] = [NoLocals(policy_version) EXCEPT !.request = request]]
  /\ Goto(t, step)
  /\ overlap' = (overlap \/ \E u \in Threads \ {t} : ~ At(u, "idle"))
  /\ UNCHANGED <<policy, in_force, applied>>

Key(t) == local[t].request.key

----------------------------------------------------------------------------
(* apply_policy                                                            *)

ApplyPolicy(t) == \E patch \in Patches : Receive(t, patch, "check")

\* A patch with a key whose version is the current one is not accepted.
CheckVersion(t) ==
  /\ At(t, "check")
  /\ Goto(t, IF local[t].request.version = policy_version /\ Key(t) # NoKey
             THEN "idle" ELSE "key")
  /\ UNCHANGED <<policy, local, received, ghosts>>

\* Mutant: the keys are not looked up.
CheckNoKey(t) ==
  /\ At(t, "key")
  /\ Goto(t, "update")
  /\ UNCHANGED <<policy, local, received, ghosts>>

\* set_policy_cfg returns at once for a key it knows; the answer still says
\* accepted.
CheckKey(t) ==
  /\ At(t, "key")
  /\ Goto(t, IF Key(t) \in policy_applied_keys THEN "stamp" ELSE "update")
  /\ UNCHANGED <<policy, local, received, ghosts>>

UpdateCfg(t) ==
  LET patch == local[t].request IN
  /\ At(t, "update")
  /\ policy_cfg' = [s \in Sections |->
       IF s \in patch.changes THEN patch.version ELSE policy_cfg[s]]
  /\ Goto(t, "version")
  /\ in_force' = patch.version
  /\ applied' = [k \in Keys |-> IF k = Key(t) THEN applied[k] + 1 ELSE applied[k]]
  /\ UNCHANGED <<policy_version, policy_applied_keys, local, received, overlap>>

\* Mutant: the version stays.
KeepVersion(t) ==
  /\ At(t, "version")
  /\ Goto(t, "record")
  /\ UNCHANGED <<policy, local, received, ghosts>>

SetVersion(t) ==
  /\ At(t, "version")
  /\ policy_version' = local[t].request.version
  /\ Goto(t, "record")
  /\ UNCHANGED <<policy_cfg, policy_applied_keys, local, received, ghosts>>

RecordKey(t) ==
  /\ At(t, "record")
  /\ policy_applied_keys' = policy_applied_keys \cup ({Key(t)} \ {NoKey})
  /\ Goto(t, "stamp")
  /\ UNCHANGED <<policy_cfg, policy_version, local, received, ghosts>>

\* The time of the request is noted, for a skipped patch too, and the answer is
\* sent.
Stamp(t) ==
  /\ At(t, "stamp")
  /\ Goto(t, "idle")
  /\ UNCHANGED <<policy, local, received, ghosts>>

----------------------------------------------------------------------------
(* get_policy: the configuration is copied, then the version is read.      *)

GetPolicy(t) == Receive(t, NoPatch, "copy")

CopyCfg(t) ==
  /\ At(t, "copy")
  /\ local' = [local EXCEPT ![t].copied = policy_cfg]
  /\ Goto(t, "read")
  /\ UNCHANGED <<policy, received, ghosts>>

ReadVersion(t) ==
  /\ At(t, "read")
  /\ local' = [local EXCEPT ![t].version = policy_version]
  /\ Goto(t, "reply")
  /\ UNCHANGED <<policy, received, ghosts>>

Reply(t) ==
  /\ At(t, "reply")
  /\ Goto(t, "idle")
  /\ UNCHANGED <<policy, local, received, ghosts>>

\* The server stops, whatever its threads were doing, and starts again with the
\* policy the file then holds.
Restart ==
  /\ \E v \in Bundles :
       /\ Fresh(v, policy_cfg', policy_version', policy_applied_keys', pc', local')
       /\ in_force' = v
  /\ applied' = NoHistory /\ overlap' = FALSE
  /\ UNCHANGED received

Next ==
  \/ \E t \in Threads :
       \/ ApplyPolicy(t) \/ CheckVersion(t) \/ CheckKey(t) \/ UpdateCfg(t)
       \/ SetVersion(t) \/ RecordKey(t) \/ Stamp(t)
       \/ GetPolicy(t) \/ CopyCfg(t) \/ ReadVersion(t) \/ Reply(t)
  \/ Restart

Spec == Init /\ [][Next]_vars

----------------------------------------------------------------------------
(* Properties.                                                             *)

AllIdle == \A t \in Threads : At(t, "idle")

TypeOK ==
  /\ policy_cfg \in [Sections -> Versions]
  /\ policy_version \in Versions /\ in_force \in Versions
  /\ policy_applied_keys \subseteq Keys
  /\ \A t \in Threads : local[t].request \in Patches \cup {NoPatch}
  /\ received \in 0..MaxRequests
  /\ \A k \in Keys : applied[k] <= received

\* Patches that are applied one at a time change the configuration once per
\* key, and a key is recorded exactly when its patch has
\* (policy_service.py 34-38, deps.py 96-103).
SerialKeysApplyOnce ==
  ~ overlap =>
    /\ \A k \in Keys : applied[k] <= 1
    /\ AllIdle => policy_applied_keys = {k \in Keys : applied[k] = 1}

\* Requests that come one at a time leave the version of the changes that were
\* made last, and a GET among them shows that version with the configuration it
\* belongs to (policy_service.py 16-20, deps.py 100-101).
SerialVersionIsInForce ==
  ~ overlap =>
    /\ AllIdle => policy_version = in_force
    /\ \A t \in Threads : At(t, "reply") =>
         local[t].version = in_force /\ local[t].copied = policy_cfg

=============================================================================
