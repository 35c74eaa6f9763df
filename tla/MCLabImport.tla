---------------------------- MODULE MCLabImport ----------------------------
(* A bounded instance of LabImport for TLC.                                   *)
EXTENDS LabImport, TLC

CONSTANTS i1, i2, clab, eve, b1, b2

Symmetry == Permutations(Processes) \cup Permutations(Bundles)
=============================================================================
