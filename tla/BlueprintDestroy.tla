--------------------------- MODULE BlueprintDestroy ---------------------------
(* hyops blueprint destroy (blueprint/command.py:_run_destroy_unlocked): the  *)
(* steps of a blueprint in the reverse of their deployment order, with what   *)
(* protects the data of the environment on the way down: the archive taken    *)
(* first, the destroy gates, retained steps, and children that go with their  *)
(* parent.                                                                    *)
(*                                                                            *)
(* A command may die anywhere; the next one starts from the state files it    *)
(* left.  Between two destroys the steps are deployed again; module runs that *)
(* overlap a destroy are ModuleState's business, and so is what one module    *)
(* run does to its marker and its resources: here it is one step with the     *)
(* outcomes found there.                                                      *)
EXTENDS Blueprint

CONSTANTS
    Parent,           \* destroy_subsumed_by of each step, 0 for none
    Gates,            \* the steps with destroy_gate
    Retained,         \* the steps with retain_on_destroy
    ArchiveDeclared,  \* the blueprint declares archive_before_destroy
    Misreads          \* reading a state file can fail (module_state_status)

\* The checks at the end of validate_blueprint.
ASSUME ParentAssumption ==
    /\ Parent \in [Steps -> 0..N]
    /\ \A s \in Steps : Parent[s] < s
    /\ \A s \in Steps : Parent[s] # 0 => s \notin Retained \cup Gates
\* No blueprint of the repository nests a subsumed step in another one.
ASSUME FlatAssumption ==
    \A s \in Steps : Parent[s] # 0 => Parent[Parent[s]] = 0
ASSUME DestroyAssumption ==
    /\ Gates \in SUBSET Steps
    /\ Retained \in SUBSET Steps
    /\ Gates \cap (Optional \cup Retained) = {}
ASSUME FlagAssumption ==
    /\ ArchiveDeclared \in BOOLEAN
    /\ Misreads \in BOOLEAN

VARIABLES
    marker,     \* the state file of each step, "none" when there is no file
    live,       \* the steps whose resources exist
    destroyPc,  \* where the destroy command is
    mode,       \* archive_mode
    destroyAt,  \* the step the loop is at, 0 when it is over
    deferred,   \* deferred_by_parent, as the set of its children
    pending,    \* the children finish_subsumed_steps still has to mark
    failures,   \* required_failures
    excused,    \* optional_failures
    cancelled,  \* a step was cancelled
    record,     \* destroy.json: its status and what it says of the resources
    archived,   \* history: this command verified an archive
    preserved,  \* history: the gates that succeeded in this command
    lost        \* history: the steps whose resources this command removed

destroyVars == <<marker, live, destroyPc, mode, destroyAt, deferred, pending, failures, excused,
                 cancelled, record, archived, preserved, lost>>
world == <<marker, live>>
tally == <<failures, excused, cancelled>>
destroyHistory == <<archived, preserved, lost>>

\* "destroyed" is either terminal status, "absent" being the other; any other
\* status is the same to this code: "standing".
Markers == {"none", "standing", "destroyed"}
Gone    == {"none", "destroyed"}

Modes ==
    IF ArchiveDeclared THEN {"archive", "skip"}
    ELSE IF Gates = {} THEN {"none"} ELSE {"protected", "skip"}

Records ==
    [status : {"running", "blocked", "cancelled", "retained", "archive-failed", "ok", "failed"},
     resources : {"active", "retained", "released", "unverified"}]

DestroyTypeOK ==
    /\ marker \in [Steps -> Markers]
    /\ live \in SUBSET Steps
    /\ destroyPc \in {"idle", "select", "archive", "loop", "finish"}
    /\ mode \in {"none", "archive", "skip", "protected"}
    /\ destroyAt \in 0..N
    /\ deferred \in SUBSET Steps
    /\ pending \in SUBSET Steps
    /\ failures \in SUBSET Steps
    /\ excused \in SUBSET Steps
    /\ cancelled \in BOOLEAN
    /\ record \in Records
    /\ archived \in BOOLEAN
    /\ preserved \in SUBSET Steps
    /\ lost \in SUBSET Steps

DestroyInit ==
    /\ marker = [s \in Steps |-> "none"]
    /\ live = {}
    /\ destroyPc = "idle"
    /\ mode = "none"
    /\ destroyAt = 0
    /\ deferred = {}
    /\ pending = {}
    /\ failures = {}
    /\ excused = {}
    /\ cancelled = FALSE
    /\ record = [status |-> "running", resources |-> "active"]
    /\ archived = FALSE
    /\ preserved = {}
    /\ lost = {}

Children(s) == {c \in Steps : Parent[c] = s}

Write(status, resources) == record' = [status |-> status, resources |-> resources]

\* The command is over: what it kept in memory is gone.
ReturnDestroy ==
    /\ destroyPc' = "idle"
    /\ mode' = "none"
    /\ destroyAt' = 0
    /\ deferred' = {}
    /\ pending' = {}
    /\ failures' = {}
    /\ excused' = {}
    /\ cancelled' = FALSE
    /\ archived' = FALSE
    /\ preserved' = {}
    /\ lost' = {}

-----------------------------------------------------------------------------
(* Between two destroys, and before the first step                            *)

\* A module run begins, fails or ends: there is a state file before there are
\* resources, and a child can only come to be in its parent.
Deploy(s) ==
    /\ destroyPc = "idle"
    /\ marker' = [marker EXCEPT ![s] = "standing"]
    /\ \/ UNCHANGED live
       \/ Parent[s] \in live \cup {0} /\ live' = live \cup {s}
    /\ UNCHANGED <<destroyPc, mode, destroyAt, deferred, pending, tally, record,
                   destroyHistory>>

StartDestroy ==
    /\ destroyPc = "idle"
    /\ destroyPc' = "select"
    /\ destroyAt' = N
    /\ Write("running", "active")
    /\ UNCHANGED <<world, mode, deferred, pending, tally, destroyHistory>>

\* A refused option, "keep", a quiescence that is not confirmed, or a
\* confirmation that is not given: the command ends before the first step.
Decline ==
    /\ destroyPc = "select"
    /\ \E status \in {"blocked", "cancelled", "retained"} : Write(status, "retained")
    /\ ReturnDestroy
    /\ UNCHANGED world

Proceed ==
    /\ destroyPc = "select"
    /\ mode' \in Modes
    /\ destroyPc' = IF mode' = "archive" THEN "archive" ELSE "loop"
    /\ UNCHANGED <<world, destroyAt, deferred, pending, tally, record, destroyHistory>>

\* _run_archive_before_destroy: the archive module ran, and the digest of the
\* file matches what its state published.
ArchiveVerified ==
    /\ destroyPc = "archive"
    /\ destroyPc' = "loop"
    /\ archived' = TRUE
    /\ UNCHANGED <<world, mode, destroyAt, deferred, pending, tally, record, preserved, lost>>

\* A plausible slip: the result of the archive is reported but not obeyed.
ArchiveFails_Continues ==
    /\ destroyPc = "archive"
    /\ destroyPc' = "loop"
    /\ UNCHANGED <<world, mode, destroyAt, deferred, pending, tally, record, destroyHistory>>

ArchiveFails ==
    /\ destroyPc = "archive"
    /\ Write("archive-failed", "retained")
    /\ ReturnDestroy
    /\ UNCHANGED world

-----------------------------------------------------------------------------
(* The loop over the steps                                                    *)

\* module_state_status: an unreadable state file reads as no state.
Reads(s) == {marker[s]} \cup (IF Misreads THEN {"none"} ELSE {})

LiveRequirement(s) == \E r \in Requires[s] : marker[r] \notin Gone

\* What _destroy_gate_required may return.
GateRequired(s) ==
    {b \in BOOLEAN : /\ b => s \in Gates /\ LiveRequirement(s)
                     /\ (s \in Gates /\ LiveRequirement(s) /\ ~b) => Misreads}

Bypassed(s) == mode = "skip" /\ s \in Gates
Passed(s) == ~Bypassed(s) /\ s \notin Retained
Next1 == destroyAt' = destroyAt - 1

Bypass ==
    /\ destroyPc = "loop" /\ destroyAt > 0
    /\ Bypassed(destroyAt) \/ destroyAt \in Retained
    /\ Next1
    /\ UNCHANGED <<world, destroyPc, mode, deferred, pending, tally, record, destroyHistory>>

\* finish_subsumed_steps pops the children of the step.
StartFinish(s) ==
    /\ destroyPc' = "finish"
    /\ pending' = deferred \cap Children(s)
    /\ deferred' = deferred \ Children(s)

SkipNoState ==
    /\ destroyPc = "loop" /\ destroyAt > 0
    /\ Passed(destroyAt)
    /\ FALSE \in GateRequired(destroyAt)
    /\ "none" \in Reads(destroyAt)
    /\ Next1
    /\ UNCHANGED <<world, destroyPc, mode, deferred, pending, tally, record, destroyHistory>>

SkipDestroyed ==
    /\ destroyPc = "loop" /\ destroyAt > 0
    /\ Passed(destroyAt)
    /\ FALSE \in GateRequired(destroyAt)
    /\ marker[destroyAt] = "destroyed"
    /\ StartFinish(destroyAt)
    /\ UNCHANGED <<world, mode, destroyAt, tally, record, destroyHistory>>

\* The step is neither bypassed nor skipped.
Due(s) == Passed(s) /\ (TRUE \in GateRequired(s) \/ marker[s] \notin Gone)

Defer ==
    /\ destroyPc = "loop" /\ destroyAt > 0
    /\ Due(destroyAt)
    /\ Parent[destroyAt] # 0
    /\ deferred' = deferred \cup {destroyAt}
    /\ Next1
    /\ UNCHANGED <<world, destroyPc, mode, pending, tally, record, destroyHistory>>

\* What goes when the resources of a step go.
Taken(s) == live \cap ({s} \cup Children(s))

Remove(s) ==
    /\ live' = live \ Taken(s)
    /\ lost' = lost \cup Taken(s)

DestroySucceeds ==
    /\ destroyPc = "loop" /\ destroyAt > 0
    /\ Due(destroyAt)
    /\ Parent[destroyAt] = 0
    /\ Remove(destroyAt)
    /\ marker' = [marker EXCEPT ![destroyAt] = "destroyed"]
    /\ preserved' = preserved \cup ({destroyAt} \cap Gates)
    /\ StartFinish(destroyAt)
    /\ UNCHANGED <<mode, destroyAt, tally, record, archived>>

\* The module run did not return 0: the resources may be gone all the same,
\* and then its marker may say so.
Attempt(s) ==
    \/ UNCHANGED <<world, lost>>
    \/ /\ Remove(s)
       /\ marker' \in {marker, [marker EXCEPT ![s] = "destroyed"]}

\* A plausible slip: finish_subsumed_steps runs whatever the parent returned.
DestroyFails_Finishes ==
    /\ destroyPc = "loop" /\ destroyAt > 0
    /\ Due(destroyAt)
    /\ Parent[destroyAt] = 0
    /\ Attempt(destroyAt)
    /\ excused' = excused \cup {destroyAt}
    /\ StartFinish(destroyAt)
    /\ UNCHANGED <<mode, destroyAt, failures, cancelled, record, archived, preserved>>

\* A plausible slip: a failed step is not counted.
DestroyFails_NotCounted ==
    /\ destroyPc = "loop" /\ destroyAt > 0
    /\ Due(destroyAt)
    /\ Parent[destroyAt] = 0
    /\ Attempt(destroyAt)
    /\ Next1
    /\ UNCHANGED <<destroyPc, mode, deferred, pending, tally, record, archived, preserved>>

DestroyFails ==
    /\ destroyPc = "loop" /\ destroyAt > 0
    /\ Due(destroyAt)
    /\ Parent[destroyAt] = 0
    /\ Attempt(destroyAt)
    /\ IF destroyAt \in Optional
       THEN /\ excused' = excused \cup {destroyAt}
            /\ UNCHANGED failures
            /\ Next1
       ELSE /\ failures' = failures \cup {destroyAt}
            /\ UNCHANGED excused
            /\ destroyAt' = IF FailFast THEN 0 ELSE destroyAt - 1
    /\ UNCHANGED <<destroyPc, mode, deferred, pending, cancelled, record, archived,
                   preserved>>

DestroyCancelled ==
    /\ destroyPc = "loop" /\ destroyAt > 0
    /\ Due(destroyAt)
    /\ Parent[destroyAt] = 0
    /\ Attempt(destroyAt)
    /\ cancelled' = TRUE
    /\ destroyAt' = 0
    /\ UNCHANGED <<destroyPc, mode, deferred, pending, failures, excused, record, archived,
                   preserved>>

-----------------------------------------------------------------------------
(* finish_subsumed_steps                                                      *)

MarkChild(c) ==
    /\ destroyPc = "finish"
    /\ c \in pending
    /\ marker' = [marker EXCEPT ![c] = "destroyed"]
    /\ pending' = pending \ {c}
    /\ UNCHANGED <<live, destroyPc, mode, destroyAt, deferred, tally, record, destroyHistory>>

MarkChildFails(c) ==
    /\ destroyPc = "finish"
    /\ c \in pending
    /\ marker' \in {marker, [marker EXCEPT ![c] = "destroyed"]}
    /\ failures' = failures \cup {c}
    /\ pending' = pending \ {c}
    /\ UNCHANGED <<live, destroyPc, mode, destroyAt, deferred, excused, cancelled, record,
                   destroyHistory>>

Finished ==
    /\ destroyPc = "finish"
    /\ pending = {}
    /\ destroyPc' = "loop"
    /\ Next1
    /\ UNCHANGED <<world, mode, deferred, pending, tally, record, destroyHistory>>

-----------------------------------------------------------------------------
(* After the loop                                                             *)

\* A plausible slip: a blueprint destroyed without failures is taken as released.
CostCleared_ByStatus == Retained = {} /\ failures = {}

\* _destroyed_blueprint_cost_cleared reads every state again.
CostCleared == Retained = {} /\ \A s \in Steps : marker[s] = "destroyed"

DestroyOutcome ==
    IF cancelled THEN "cancelled"
    ELSE IF failures \cup deferred = {} THEN "ok" ELSE "failed"

\* "released" is only said of the blueprints whose cost is estimated (gcp/).
ConcludeDestroy ==
    /\ destroyPc = "loop" /\ destroyAt = 0
    /\ \E resources \in {"released", "unverified"} :
          /\ resources = "released" => DestroyOutcome = "ok" /\ CostCleared
          /\ Write(DestroyOutcome, resources)
    /\ ReturnDestroy
    /\ UNCHANGED world

\* The process dies, or an error of the record ends the command.
CrashDestroy ==
    /\ destroyPc # "idle"
    /\ ReturnDestroy
    /\ UNCHANGED <<world, record>>

LoopStep ==
    \/ Bypass \/ SkipNoState \/ SkipDestroyed \/ Defer
    \/ DestroySucceeds \/ DestroyFails \/ DestroyCancelled
    \/ \E c \in Steps : MarkChild(c) \/ MarkChildFails(c)
    \/ Finished

DestroyNext ==
    \/ \E s \in Steps : Deploy(s)
    \/ StartDestroy \/ Decline \/ Proceed \/ ArchiveVerified \/ ArchiveFails
    \/ LoopStep \/ ConcludeDestroy \/ CrashDestroy

DestroySpec == DestroyInit /\ [][DestroyNext]_destroyVars

-----------------------------------------------------------------------------
(* Properties                                                                 *)

\* A destroyed marker, the child's that was written for it included, is never
\* over resources that exist: the next destroy would pass them by.
MarkedGone == \A s \in Steps : marker[s] \in Gone => s \notin live

\* "Preserve declared recovery state, verify, then destroy": nothing a gate
\* requires goes before the gate has succeeded in the same command.
GateBeforeLoss ==
    mode # "skip" => \A g \in Gates : Requires[g] \cap lost # {} => g \in preserved

\* Nothing goes before the archive that was chosen has been verified.
ArchiveBeforeLoss == (mode = "archive" /\ lost # {}) => archived

\* What a destroy is told to preserve is safe before the first resource it
\* depends on goes: the data behind the gates, and the archive.
PreservedBeforeLoss == GateBeforeLoss /\ ArchiveBeforeLoss

\* destroy.json tells the truth of the resources: it says "retained" when this
\* command removed nothing ("no resources were destroyed"), and "released",
\* which clears their cost, when nothing of the blueprint is left.
RecordIsTrue ==
    [][record' # record =>
          /\ record'.resources = "retained" => lost = {}
          /\ record'.resources = "released" => live = {}]_destroyVars

\* A destroy that ends with "ok" has left standing only what it was told to
\* keep, what it was told to bypass, and optional steps it reported.
OkLeavesOnlyExcused ==
    [][(record' # record /\ record'.status = "ok") =>
          live \subseteq Retained \cup excused
                         \cup (IF mode = "skip" THEN Gates ELSE {})]_destroyVars
=============================================================================
