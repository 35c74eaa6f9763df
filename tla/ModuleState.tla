----------------------------- MODULE ModuleState -----------------------------
(* One state slot of a module, state/modules/<id>/latest.json, beside the     *)
(* provider resources it stands for, and the runs that move both: run_single  *)
(* of commands/_apply_execute.py with the Terragrunt driver behind it, and    *)
(* hyops state detach.  Nothing excludes two runs of one slot;                *)
(* write_json_atomic makes each write one step, and the read before a write   *)
(* in persist_mutation_state is a step of its own.                            *)
(*                                                                            *)
(* Terraform keeps its own record of the resources, one per backend: the      *)
(* local state file or a Terraform Cloud workspace, derived from the naming   *)
(* inputs of each run.  The slot remembers which one it used, and the driver  *)
(* refuses another (workspace_binding.py).                                    *)
(*                                                                            *)
(* "apply" stands for apply and deploy, and "status" for an apply with        *)
(* apply_mode=status, whose driver only looks.  plan, validate and state      *)
(* unlock reach no write of ours and are left out.                            *)
EXTENDS Naturals

CONSTANTS
    Runs,         \* the run ids (new_run_id); a run happens once
    Res,          \* the provider resources of the module
    Spaces,       \* the backends the naming inputs of a run may resolve to
    None,         \* no outputs, no binding
    Serial,       \* runs of the slot do not overlap
    BackendLock   \* the provider's own state lock: one driver changes at a time

ASSUME NoneAssumption == None \notin Runs \cup Spaces
ASSUME SerialAssumption == Serial \in BOOLEAN
ASSUME BackendLockAssumption == BackendLock \in BOOLEAN

VARIABLES
    marker,    \* the "status" of the state file, "absent" without a file
    writer,    \* its "run_id"
    outputs,   \* the run whose outputs the state file publishes
    binding,   \* its "execution.backend"
    res,       \* the resources that exist, by the backend that tracks them
    pc,        \* where each run is
    cmd,       \* the command of each run
    space,     \* the backend each run resolves to
    previous,  \* the outputs persist_mutation_state has read
    done,      \* the resources the driver call of each run has dealt with
    called,    \* history: the runs that have called the driver
    partial,   \* history: "ok" need not mean complete, something was removed
               \* since, or it was written by an import of one resource
    left       \* history: the backends whose resources a run was let past

file == <<marker, writer, outputs, binding>>
world == <<res, partial, left>>
own == <<cmd, space>>
vars == <<file, world, own, pc, previous, done, called>>

Commands == {"apply", "import", "status", "destroy", "detach"}
Building == {"apply", "import"}
Terminal == {"absent", "destroyed"}
Markers  == {"running", "error", "ok", "detached"} \cup Terminal
Marking  == {"peek", "mark", "marked"}
Driving  == {"guard", "drive"}
Failing  == {"peekError", "markError"}
Active   == {"preflight", "publish"} \cup Marking \cup Driving \cup Failing
Ended    == {"refused", "unmarked", "failed", "cancelled", "unpersisted", "ok", "crashed"}

TypeOK ==
    /\ marker \in Markers
    /\ writer \in Runs \cup {None}
    /\ outputs \in Runs \cup {None}
    /\ binding \in Spaces \cup {None}
    /\ res \in [Spaces -> SUBSET Res]
    /\ pc \in [Runs -> {"idle"} \cup Active \cup Ended]
    /\ cmd \in [Runs -> Commands]
    /\ space \in [Runs -> Spaces]
    /\ previous \in [Runs -> Runs \cup {None}]
    /\ done \in [Runs -> SUBSET Res]
    /\ called \in SUBSET Runs
    /\ partial \in BOOLEAN
    /\ left \in SUBSET Spaces

Init ==
    /\ marker = "absent"
    /\ writer = None
    /\ outputs = None
    /\ binding = None
    /\ res = [w \in Spaces |-> {}]
    /\ pc = [r \in Runs |-> "idle"]
    /\ cmd \in [Runs -> Commands]
    /\ space \in [Runs -> Spaces]
    /\ previous = [r \in Runs |-> None]
    /\ done = [r \in Runs |-> {}]
    /\ called = {}
    /\ partial = FALSE
    /\ left = {}

Goto(r, step) == pc' = [pc EXCEPT ![r] = step]

\* write_module_state; it can raise before or after os.replace.
Store(r, status, published, bound) ==
    /\ marker' = status
    /\ writer' = r
    /\ outputs' = published
    /\ binding' = bound

\* The payload of persist_mutation_state: it replaces the whole "execution" of
\* the previous state and so forgets the backend.
StoreMutation(r, status) == Store(r, status, previous[r], None)
StoreMutationFails(r, status) == StoreMutation(r, status) \/ UNCHANGED file

\* persist_mutation_state writes nothing for a destroy, and for an apply or
\* import only once the driver call has begun; a status apply publishes every
\* failure.  A detach that fails leaves the slot alone.
AfterFailure(r, mutationStarted, rc) ==
    IF cmd[r] = "status" \/ (cmd[r] \in Building /\ mutationStarted)
    THEN "peekError" ELSE rc

\* build_backend_binding and check_backend_binding_drift: the driver goes on in
\* the backend of the slot, or when the slot is empty or gone.
Bound(r) == marker \in Terminal \/ binding = space[r]

\* A plausible slip: the guard compares nothing.
Guard_TakesAny(r) == UNCHANGED left

\* It also goes on in any backend when the slot names none ("legacy state"), or
\* when the operator set HYOPS_ALLOW_BACKEND_BINDING_DRIFT or moved the module
\* to another project (allow_backend_binding_rehome), which any run may be.
Elsewhere(r) == {w \in Spaces \ {space[r]} : res[w] # {}}
Guard(r) ==
    \/ Bound(r) /\ UNCHANGED left
    \/ left' = left \cup Elsewhere(r)

-----------------------------------------------------------------------------
(* Before the driver call                                                     *)

AfterPreflight(r) == IF cmd[r] = "destroy" THEN "marked" ELSE "peek"

MayStart(r) ==
    /\ pc[r] = "idle"
    /\ Serial => \A s \in Runs : pc[s] \notin Active

Start(r) ==
    /\ MayStart(r)
    /\ cmd[r] # "detach"
    /\ \E skipPreflight \in BOOLEAN :
          Goto(r, IF skipPreflight THEN AfterPreflight(r) ELSE "preflight")
    /\ UNCHANGED <<file, world, own, previous, done, called>>

\* run_detach has no preflight and writes nothing before it calls the driver.
StartDetach(r) ==
    /\ MayStart(r)
    /\ cmd[r] = "detach"
    /\ called' = called \cup {r}
    /\ Goto(r, "guard")
    /\ UNCHANGED <<file, world, own, previous, done>>

\* The preflight call of the driver asks the guard too.
PreflightPasses(r) ==
    /\ pc[r] = "preflight"
    /\ Guard(r)
    /\ Goto(r, AfterPreflight(r))
    /\ UNCHANGED <<file, res, partial, own, previous, done, called>>

PreflightFails(r) ==
    /\ pc[r] = "preflight"
    /\ Goto(r, AfterFailure(r, FALSE, "refused"))
    /\ UNCHANGED <<file, world, own, previous, done, called>>

\* read_module_state at the head of persist_mutation_state; an unreadable
\* state counts as empty.
ReadPrevious(r, step, next) ==
    /\ pc[r] = step
    /\ \E seen \in {outputs, None} : previous' = [previous EXCEPT ![r] = seen]
    /\ Goto(r, next)
    /\ UNCHANGED <<file, world, own, done, called>>

Peek(r) == ReadPrevious(r, "peek", "mark")

\* A plausible slip: the payload is built without the previous outputs.
MarkRunning_DropsOutputs(r) ==
    /\ pc[r] = "mark"
    /\ Store(r, "running", None, None)
    /\ Goto(r, "marked")
    /\ UNCHANGED <<world, own, previous, done, called>>

MarkRunning(r) ==
    /\ pc[r] = "mark"
    /\ StoreMutation(r, "running")
    /\ Goto(r, "marked")
    /\ UNCHANGED <<world, own, previous, done, called>>

\* A plausible slip: required=True is forgotten, the failed write is swallowed.
MarkFails_Goes(r) ==
    /\ pc[r] = "mark"
    /\ Goto(r, "marked")
    /\ UNCHANGED <<file, world, own, previous, done, called>>

\* required=True: the run ends before the provider is called.
MarkFails(r) ==
    /\ pc[r] = "mark"
    /\ StoreMutationFails(r, "running")
    /\ Goto(r, AfterFailure(r, FALSE, "unmarked"))
    /\ UNCHANGED <<world, own, previous, done, called>>

CallDriver(r) ==
    /\ pc[r] = "marked"
    /\ called' = called \cup {r}
    /\ Goto(r, "guard")
    /\ UNCHANGED <<file, world, own, previous, done>>

-----------------------------------------------------------------------------
(* The driver call: the guard again, on what the slot says by now, and an     *)
(* external program that changes one resource at a time                       *)

GuardPasses(r) ==
    /\ pc[r] = "guard"
    /\ Guard(r)
    /\ Goto(r, "drive")
    /\ UNCHANGED <<file, res, partial, own, previous, done, called>>

Holds(r) == pc[r] = "drive" /\ done[r] # {}

\* terragrunt apply, import or destroy, its retries included.
Mutate(r, x) ==
    /\ pc[r] = "drive"
    /\ cmd[r] \in Building \cup {"destroy"}
    /\ cmd[r] = "import" => done[r] = {}
    /\ BackendLock => \A s \in Runs \ {r} : ~Holds(s)
    /\ x \notin done[r]
    /\ done' = [done EXCEPT ![r] = @ \cup {x}]
    /\ res' = [res EXCEPT ![space[r]] =
                  IF cmd[r] = "destroy" THEN @ \ {x} ELSE @ \cup {x}]
    /\ partial' = (partial \/ cmd[r] = "destroy")
    /\ UNCHANGED <<file, left, own, pc, previous, called>>

\* state show finds the one resource the operator named, with the id expected,
\* and state rm forgets it: from then on it is the operator's own.
Detach(r, x) ==
    /\ pc[r] = "drive"
    /\ cmd[r] = "detach"
    /\ done[r] = {}
    /\ x \in res[space[r]]
    /\ done' = [done EXCEPT ![r] = {x}]
    /\ res' = [res EXCEPT ![space[r]] = @ \ {x}]
    /\ partial' = TRUE
    /\ UNCHANGED <<file, left, own, pc, previous, called>>

\* rc 0 of the operation, and of the readiness checks and hooks after it.
Succeeded(r) ==
    CASE cmd[r] = "status"              -> res[space[r]] = Res
      [] cmd[r] \in {"import", "detach"} -> done[r] # {}
      [] OTHER                          -> done[r] = Res

DriverSucceeds(r) ==
    /\ pc[r] = "drive"
    /\ Succeeded(r)
    /\ left' = IF cmd[r] = "destroy" THEN left \ {space[r]} ELSE left
    /\ Goto(r, "publish")
    /\ UNCHANGED <<file, res, partial, own, previous, done, called>>

\* Any step of the driver ends the call: the guard, init, the workspace policy,
\* the operation after its last retry or its time limit, a readiness check or
\* a strict hook after it.  What has been changed stays changed.
DriverFails(r) ==
    /\ pc[r] \in Driving
    /\ Goto(r, AfterFailure(r, TRUE, "failed"))
    /\ UNCHANGED <<file, world, own, previous, done, called>>

-----------------------------------------------------------------------------
(* After the driver call                                                      *)

PeekError(r) == ReadPrevious(r, "peekError", "markError")

MarkError(r) ==
    /\ pc[r] = "markError"
    /\ StoreMutation(r, "error")
    /\ Goto(r, "failed")
    /\ UNCHANGED <<world, own, previous, done, called>>

\* Not required: an exception of the write is swallowed.
MarkErrorFails(r) ==
    /\ pc[r] = "markError"
    /\ StoreMutationFails(r, "error")
    /\ Goto(r, "failed")
    /\ UNCHANGED <<world, own, previous, done, called>>

Outcome(r) == IF cmd[r] = "destroy" THEN "destroyed" ELSE "ok"

\* A plausible slip: the result's backend_binding is not looked at.
StoreResult_Unbound(r) ==
    /\ \E published \in IF cmd[r] = "destroy" THEN {None} ELSE {r, None} :
          Store(r, Outcome(r), published, None)
    /\ partial' = IF cmd[r] = "destroy" THEN partial ELSE cmd[r] = "import"

\* The payload of a run that succeeded.  terragrunt output may fail unnoticed,
\* and the outputs published are then none.
StoreResult(r) ==
    /\ \E published \in IF cmd[r] = "destroy" THEN {None} ELSE {r, None} :
          Store(r, Outcome(r), published, space[r])
    /\ partial' = IF cmd[r] = "destroy" THEN partial ELSE cmd[r] = "import"

Publish(r) ==
    /\ pc[r] = "publish"
    /\ cmd[r] # "detach"
    /\ StoreResult(r)
    /\ Goto(r, "ok")
    /\ UNCHANGED <<res, left, own, previous, done, called>>

\* "failed to persist module state": rc 1.  The state may be there all the same.
PublishFails(r) ==
    /\ pc[r] = "publish"
    /\ cmd[r] # "detach"
    /\ StoreResult(r) \/ UNCHANGED <<file, partial>>
    /\ Goto(r, "unpersisted")
    /\ UNCHANGED <<res, left, own, previous, done, called>>

\* The whole slot becomes "detached", whatever else of the module there is.
PublishDetached(r) ==
    /\ pc[r] = "publish"
    /\ cmd[r] = "detach"
    /\ \/ Store(r, "detached", None, space[r]) /\ Goto(r, "ok")
       \/ /\ Store(r, "detached", None, space[r]) \/ UNCHANGED file
          /\ Goto(r, "unpersisted")
    /\ UNCHANGED <<world, own, previous, done, called>>

\* KeyboardInterrupt inside the try block.
Interrupt(r) ==
    /\ pc[r] \in {"preflight"} \cup Marking \cup Driving
    /\ Goto(r, AfterFailure(r, pc[r] \in Driving, "cancelled"))
    /\ UNCHANGED <<file, world, own, previous, done, called>>

\* The process dies, or is interrupted outside the try block.
Crash(r) ==
    /\ pc[r] \in Active
    /\ Goto(r, "crashed")
    /\ UNCHANGED <<file, world, own, previous, done, called>>

-----------------------------------------------------------------------------
RunStep(r) ==
    \/ Start(r) \/ StartDetach(r) \/ PreflightPasses(r) \/ PreflightFails(r)
    \/ Peek(r) \/ MarkRunning(r) \/ MarkFails(r)
    \/ CallDriver(r) \/ GuardPasses(r)
    \/ \E x \in Res : Mutate(r, x) \/ Detach(r, x)
    \/ DriverSucceeds(r) \/ DriverFails(r)
    \/ PeekError(r) \/ MarkError(r) \/ MarkErrorFails(r)
    \/ Publish(r) \/ PublishFails(r) \/ PublishDetached(r)
    \/ Interrupt(r) \/ Crash(r)

Next == \E r \in Runs : RunStep(r)
Spec == Init /\ [][Next]_vars

-----------------------------------------------------------------------------
(* Properties                                                                 *)

\* A destroy skips a module whose state is absent or destroyed, so such a
\* marker must mean that nothing is left at the provider (the comment over the
\* "running" write: a later destroy must not trust an older destroyed/absent
\* state marker), but for what a run was let past.
TerminalMeansGone ==
    marker \in Terminal => \A w \in Spaces \ left : res[w] = {}

\* A dependent or a re-run trusts "ok": everything is there, in the backend the
\* slot names, unless a destroy or detach has been at it since or the "ok" is
\* that of an import.
OkMeansComplete ==
    (marker = "ok" /\ ~partial) => binding \in Spaces /\ res[binding] = Res

\* The guard "blocks this to prevent writing a module state slot to a different
\* Terraform Cloud workspace": the resources of a slot are tracked by one
\* backend, but for what a run was let past, by the operator's word or because
\* an earlier run, or this one when it skips the preflight, had forgotten the
\* backend of the slot.
OneHome ==
    \A v, w \in Spaces \ left : res[v] # {} /\ res[w] # {} => v = w

\* "do not replace usable state when preflight prevents execution": only a
\* run that reached the driver, or a status check, turns the marker to "error".
ErrorNeedsDriverCall ==
    marker = "error" => cmd[writer] = "status" \/ writer \in called

\* The outputs a completed apply published stay readable through later failed
\* applies (test_mutation_state expects "previous-resource" after one), unless
\* the failing run could not read them.
OutputsOutliveFailures ==
    [][(outputs # None /\ outputs' # outputs) =>
          \/ marker' \in {"ok", "destroyed", "detached"}
          \/ \E r \in Runs :
                pc[r] \in {"mark", "markError"} /\ previous[r] = None]_vars

\* TerminalMeansGone for the moments at which the next destroy looks: no run
\* is in progress.  It does not hold when runs of one slot overlap.
QuietTerminalMeansGone ==
    (\A r \in Runs : pc[r] \notin Active) => TerminalMeansGone
=============================================================================
