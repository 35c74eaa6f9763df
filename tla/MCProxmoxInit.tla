---------------------------- MODULE MCProxmoxInit ----------------------------
(* A bounded instance of ProxmoxInit for TLC.                                 *)
EXTENDS ProxmoxInit, TLC

CONSTANTS r1, r2, e1, e2, s1, s2, s3

Symmetry == Permutations(Runs) \cup Permutations(Envs) \cup Permutations(Secrets)
=============================================================================
