--------------------------- MODULE BlueprintRebuild ---------------------------
(* hyops blueprint rebuild --execute (blueprint/command.py:run_rebuild):      *)
(* under one lifecycle lock a blueprint is destroyed and deployed again.  The *)
(* two halves are BlueprintDestroy and BlueprintDeploy, and what passes       *)
(* between them is the state files: a deploy skips what a destroy has left    *)
(* in a good state.  Plain destroys and deploys come before and between.      *)
(*                                                                            *)
(* Each half sees the state files its own way: the destroy asks which are     *)
(* terminal (marker), the deploy which say "ok" and with what inputs (okay,   *)
(* built).  Inputs and authorities do not change here, and commands follow    *)
(* one another; BlueprintDeploy and AccessSession are about those.            *)
EXTENDS BlueprintDestroy, BlueprintDeploy

VARIABLES
    command,    \* the command that runs
    rebuilt,    \* the status in rebuild.json of the last rebuild
    spared,     \* the optional steps its destroy has reported as failed
    old         \* history: the resources that are there since before the rebuild

\* All but the state files and the resources, which both halves change.
destroying == <<destroyPc, mode, destroyAt, deferred, pending, tally, record, destroyHistory>>
deploying  == <<wanted, authority, deployPc, deployAt, seen, rc, result, memory, last,
                deployHistory>>
rebuilding == <<command, rebuilt, spared, old>>
vars == <<destroyVars, deployVars, rebuilding>>

TypeOK ==
    /\ DestroyTypeOK
    /\ DeployTypeOK
    /\ command \in {"none", "destroy", "deploy", "rebuild"}
    /\ rebuilt \in {"none", "running", "destroy-failed", "deploy-failed", "ok"}
    /\ spared \in SUBSET Optional
    /\ old \in SUBSET live
    /\ \A s \in okay : marker[s] = "standing"

Init ==
    /\ DestroyInit
    /\ DeployInit
    /\ command = "none"
    /\ rebuilt = "none"
    /\ spared = {}
    /\ old = {}

-----------------------------------------------------------------------------
(* The state files between the two halves                                     *)

\* A plausible slip: the deploy takes its states from before the destroy.
Marked_KeepsOkay == UNCHANGED <<okay, built, deploying>>

\* A destroy writes terminal markers; what it leaves alone still says "ok".
Marked ==
    /\ okay' = {s \in okay : marker'[s] = "standing"}
    /\ UNCHANGED <<built, deploying>>

\* A plausible slip: the marker is first written when the run is over.
Ran_MarkedLate ==
    /\ live' \in {live} \cup
                 {live \cup {s} : s \in {deployAt} \cap {c \in Steps : Parent[c] \in live \cup {0}}}
    /\ (rc' = "ok" \/ deployAt \in okay' \ okay) => deployAt \in live'
    /\ marker' = IF rc' = "ok" \/ okay' # okay
                 THEN [marker EXCEPT ![deployAt] = "standing"] ELSE marker

\* A module run has a state file before it has resources, and resources when
\* its state says "ok"; a child comes to be in its parent.
Ran ==
    /\ live' \in {live} \cup
                 {live \cup {s} : s \in {deployAt} \cap {c \in Steps : Parent[c] \in live \cup {0}}}
    /\ (rc' = "ok" \/ deployAt \in okay' \ okay) => deployAt \in live'
    /\ marker' \in {marker, [marker EXCEPT ![deployAt] = "standing"]}
    /\ (rc' = "ok" \/ okay' # okay \/ live' # live) => marker'[deployAt] = "standing"

Followed ==
    /\ IF deployPc = "run" THEN Ran ELSE UNCHANGED <<marker, live>>
    /\ UNCHANGED destroying

-----------------------------------------------------------------------------
(* Plain commands                                                             *)

Idle == command = "none"

BeginDestroy ==
    /\ Idle
    /\ StartDestroy /\ Marked
    /\ command' = "destroy"
    /\ UNCHANGED <<rebuilt, spared, old>>

\* The preflight of a deploy, a matter of BlueprintDeploy, has let it begin.
BeginDeploy ==
    /\ Idle
    /\ SkipPreflight /\ Followed
    /\ command' = "deploy"
    /\ UNCHANGED <<rebuilt, spared, old>>

EndDestroy ==
    /\ command = "destroy"
    /\ Decline \/ ArchiveFails \/ ConcludeDestroy
    /\ Marked
    /\ command' = "none"
    /\ UNCHANGED <<rebuilt, spared, old>>

EndDeploy ==
    /\ command = "deploy"
    /\ ConcludeDeploy \/ RecordFails
    /\ Followed
    /\ command' = "none"
    /\ UNCHANGED <<rebuilt, spared, old>>

-----------------------------------------------------------------------------
(* Inside a destroy or a deploy, of a rebuild or alone                        *)

\* The mode of a rebuild is not asked for: --yes, and --skip-archive when the
\* blueprint declares an archive.
RebuildMode ==
    IF ArchiveDeclared THEN "skip" ELSE IF Gates = {} THEN "none" ELSE "protected"

DestroyStep ==
    /\ command \in {"destroy", "rebuild"}
    /\ \/ Proceed /\ (command = "rebuild" => mode' = RebuildMode)
       \/ ArchiveVerified
       \/ LoopStep
    /\ Marked
    /\ old' = old \cap live'
    /\ UNCHANGED <<command, rebuilt, spared>>

DeployStep ==
    /\ StepAction \/ RestoreDone \/ RestoreFails
    /\ Followed
    /\ UNCHANGED rebuilding

-----------------------------------------------------------------------------
(* The rebuild                                                                *)

BeginRebuild ==
    /\ Idle
    /\ StartDestroy /\ Marked
    /\ command' = "rebuild"
    /\ rebuilt' = "running"
    /\ spared' = {}
    /\ old' = live

\* The rebuild is over, with this status in rebuild.json.
Close(status) ==
    /\ command' = "none"
    /\ rebuilt' = status
    /\ spared' = {}
    /\ old' = {}

\* The destroy was refused before its first step, or did not return 0.
DestroyFailed ==
    /\ command = "rebuild"
    /\ \/ Decline /\ record'.status = "blocked"
       \/ ConcludeDestroy /\ record'.status # "ok"
    /\ Marked
    /\ Close("destroy-failed")

\* A plausible slip: the deploy follows whatever the destroy returned.
Destroyed_Anyhow ==
    /\ command = "rebuild"
    /\ ConcludeDestroy
    /\ deployPc' = (IF N < 1 THEN "restore" ELSE IF 1 \in Observed THEN "admit" ELSE "check")
    /\ okay' = {s \in okay : marker'[s] = "standing"}
    /\ spared' = excused
    /\ UNCHANGED <<built, wanted, authority, deployAt, seen, rc, result, memory, last,
                   deployHistory, command, rebuilt, old>>

\* The destroy has returned 0: the deploy begins.
Destroyed ==
    /\ command = "rebuild"
    /\ ConcludeDestroy /\ record'.status = "ok"
    /\ SkipPreflight
    /\ spared' = excused
    /\ UNCHANGED <<command, rebuilt, old>>

\* The deploy is refused before its first step, by its preflight for one.
DeployRefused ==
    /\ command = "rebuild"
    /\ ConcludeDestroy /\ record'.status = "ok"
    /\ Marked
    /\ Close("deploy-failed")

EndRebuild ==
    /\ command = "rebuild"
    /\ ConcludeDeploy \/ RecordFails
    /\ Followed
    /\ Close(IF last'.status = "ok" THEN "ok" ELSE "deploy-failed")

\* The process dies; rebuild.json keeps the status it has.
Crash ==
    /\ \/ CrashDestroy /\ Marked
       \/ CrashDeploy /\ Followed
    /\ Close(rebuilt)

Next ==
    \/ BeginDestroy \/ EndDestroy
    \/ BeginDeploy \/ EndDeploy
    \/ DestroyStep \/ DeployStep
    \/ BeginRebuild \/ DestroyFailed \/ Destroyed \/ DeployRefused \/ EndRebuild
    \/ Crash

Spec == Init /\ [][Next]_vars

-----------------------------------------------------------------------------
(* Properties                                                                 *)

\* A rebuild that ends with "ok" has every step in a good state over resources
\* that exist and that it has made anew, but for the steps its blueprint
\* retains, the gates it was told to bypass, and the optional steps that the
\* destroy or the deploy has reported as failed.
OkMeansRebuilt ==
    [][(command = "rebuild" /\ command' = "none" /\ rebuilt' = "ok") =>
          \A s \in Steps \ (spared \cup (IF RebuildMode = "skip" THEN Gates ELSE {})) :
             \/ s \in live /\ s \in okay /\ (s \in old => s \in Retained)
             \/ s \in Optional /\ result[s] = "failed-optional"]_vars

\* Seen from the destroy a deploy is what BlueprintDestroy takes it for: the
\* composition is a behaviour of that specification.
ImplementsDestroy == DestroySpec
=============================================================================
