-------------------------- MODULE MCBlueprintDeploy --------------------------
(* A record under change control, an image step that may fail and be repaired, *)
(* and a service over both whose live state is verified before it is skipped;  *)
(* the inputs of its last run are lost.  A blueprint gives a size or leaves it *)
(* to the module.                                                             *)
EXTENDS BlueprintDeploy

MCN == 3
MCRequires == <<{}, {1}, {1, 2}>>
MCNeedsState == <<{}, {1}, {2}>>
Image == {2}
Kept == {1, 3}
Service == {3}
Governed == {1, 2}
MCProvider == <<"kubernetes", "nautobot">>
MCPolicy == <<[expected |-> "none", unverifiable |-> "fail"],
              [expected |-> "none", unverifiable |-> "record"]>>
MCSize == {"size"}
MCDefault == [k \in MCSize |-> "small"]
MCInputs == {[k \in MCSize |-> v] : v \in {"unset", "large"}}
Readable == {1, 2}
MCContents == {"x", "y"}
=============================================================================
