-------------------------- MODULE MCRunnerDispatch --------------------------
(* A bounded instance of RunnerDispatch for TLC.                              *)
EXTENDS RunnerDispatch, TLC

CONSTANTS s1, s2, d1, d2

Symmetry == Permutations(Dispatches)
=============================================================================
