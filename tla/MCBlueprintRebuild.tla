-------------------------- MODULE MCBlueprintRebuild --------------------------
(* A retained network, a machine in it, a service that goes with the machine,  *)
(* a record of the machine that is optional and is kept while it is good, and  *)
(* a recovery gate over the service.                                           *)
EXTENDS BlueprintRebuild

MCN == 5
MCRequires == <<{}, {1}, {2}, {2}, {3}>>
MCNeedsState == <<{}, {1}, {}, {}, {3}>>
MCParent == <<0, 0, 2, 0, 0>>
Network == {1}
OptionalRecord == {4}
Gate == {5}
Kept == {1, 2, 4}
Nothing == <<>>
MCInputs == {Nothing}
=============================================================================
