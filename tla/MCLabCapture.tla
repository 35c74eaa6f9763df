---------------------------- MODULE MCLabCapture ----------------------------
(* A bounded instance of LabCapture for TLC.                                  *)
EXTENDS LabCapture, TLC

CONSTANTS c1, c2

Symmetry == Permutations(Captures)
=============================================================================
