---------------------------- MODULE MCSecretsVault ----------------------------
(* Two commands at a time, two keys of one HashiCorp secret or of two of the  *)
(* Secret Manager, one of which the shipped map does not list.                *)
EXTENDS SecretsVault, TLC

CONSTANTS c1, c2, k1, k2, r1

MCRefOf  == [k \in {k1, k2} |-> r1]
Symmetry == Permutations({c1, c2})
=============================================================================
