--------------------------- MODULE MCModuleState ---------------------------
(* Three runs of a module with two resources and two backends. *)
EXTENDS ModuleState, TLC

CONSTANTS r1, r2, r3, x1, x2, w1, w2

MCRuns == {r1, r2, r3}
MCRes == {x1, x2}
MCSpaces == {w1, w2}
Symmetry ==
    Permutations(MCRuns) \cup Permutations(MCRes) \cup Permutations(MCSpaces)
=============================================================================
