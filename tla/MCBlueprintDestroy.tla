------------------------- MODULE MCBlueprintDestroy -------------------------
(* A network, a machine in it, a service configured on the machine and         *)
(* destroyed with it, a recovery gate over the service, and a record of the    *)
(* machine that may fail: the shape of the containerlab and GNS3 blueprints.   *)
EXTENDS BlueprintDestroy

MCN == 5
MCRequires == <<{}, {1}, {2}, {2, 3}, {2}>>
MCParent == <<0, 0, 2, 0, 0>>
Gate == {4}
OptionalRecord == {5}
=============================================================================
