----------------------------- MODULE VersionLog -----------------------------
(***************************************************************************)
(* What the store promises, without windows, documents, vectors or marks:  *)
(* a log of versions that only grows, the tip of every external id, and    *)
(* one saved copy of both.  A save takes the whole of what is current, a   *)
(* recovery the whole of what is saved, and a write that fails loses the   *)
(* whole copy: nothing ever mixes the two.                                 *)
(***************************************************************************)
EXTENDS Integers

CONSTANTS Ids, ExternalIds, None

VARIABLES log, tip, savedLog, savedTip

vars == <<log, tip, savedLog, savedTip>>

NoTip == [e \in ExternalIds |-> None]

Nothing == log' = {} /\ tip' = NoTip

NothingSaved == savedLog' = {} /\ savedTip' = NoTip

Init ==
  /\ log = {} /\ tip = NoTip
  /\ savedLog = {} /\ savedTip = NoTip

\* A new version is newer than every version that is known or saved.  It is the
\* tip of at most one external id.
Append(c) ==
  /\ \A b \in log \cup savedLog : b < c
  /\ log' = log \cup {c}
  /\ \/ tip' = tip
     \/ \E e \in ExternalIds : tip' = [tip EXCEPT ![e] = c]
  /\ UNCHANGED <<savedLog, savedTip>>

Save ==
  /\ savedLog' = log /\ savedTip' = tip
  /\ UNCHANGED <<log, tip>>

LoseSaved == NothingSaved /\ UNCHANGED <<log, tip>>

Purge == Nothing /\ (NothingSaved \/ UNCHANGED <<savedLog, savedTip>>)

Recover ==
  /\ log = {} /\ tip = NoTip
  /\ log' = savedLog /\ tip' = savedTip
  /\ UNCHANGED <<savedLog, savedTip>>

Next ==
  \/ \E c \in Ids : Append(c)
  \/ Save
  \/ LoseSaved
  \/ Purge
  \/ Recover

Spec == Init /\ [][Next]_vars

=============================================================================
