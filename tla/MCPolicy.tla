------------------------------ MODULE MCPolicy ------------------------------
(* Instances of Policy for TLC: two patches with a key, one of them with the  *)
(* version of the start, a later patch with a key that is used again, and one *)
(* without a key.                                                             *)
EXTENDS Policy

CONSTANTS k1, k2

PatchWith(v, k, changes) == [version |-> v, key |-> k, changes |-> changes]

MCPatches ==
  {PatchWith("v2", k1, Sections),
   PatchWith("v1", k2, {"policy_sets"}),
   PatchWith("v3", k1, {"dhqc"}),
   PatchWith("v2", NoKey, {"dhqc"})}

=============================================================================
