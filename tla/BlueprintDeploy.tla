--------------------------- MODULE BlueprintDeploy ---------------------------
(* hyops blueprint deploy --execute (blueprint/command.py:run_deploy): the    *)
(* steps of a blueprint in dependency order, each skipped when its state is   *)
(* good and its inputs are the same or run by its module, within an interval  *)
(* in which its authority is observed twice.                                  *)
(*                                                                            *)
(* Deploys follow one another; a command may die anywhere.  Between two of    *)
(* them the operator edits inputs, and the authority changes at any time.     *)
(* Before the first step the preflight (blueprint/planner.py) goes through    *)
(* the same order over the states that are there and those it assumes.        *)
EXTENDS Blueprint, Authority

CONSTANTS
    NeedsState,    \* contracts.requires_module_state_ok of each step
    SkipIfOk,      \* the steps with skip_if_state_ok
    Verify,        \* of these, the steps with verify_state_on_skip
    Repairable,    \* the IOL image steps, when --repair-iol-license is given
    Observed,      \* the steps with contracts.authority_observation
    Provider,      \* the provider of the authority of each observed step
    Policy,        \* the observation policy of each observed step
    Keys,          \* the keys of a step's inputs
    Values,        \* their values
    Unset,         \* no value; an empty one is compared as none
    Default,       \* what the module takes for a key that is not given
    Inputs,        \* the inputs a blueprint may give a step
    Contents,      \* what the authority may hold
    BaselineKept,  \* the steps of which the inputs of the last run can be read
    MaxVersion     \* bound: how often the authority changes

ASSUME DeployAssumption ==
    /\ NeedsState \in [Steps -> SUBSET Steps]
    /\ SkipIfOk \in SUBSET Steps
    /\ Verify \in SUBSET Steps /\ Repairable \in SUBSET Steps
    /\ Observed \in SUBSET Steps
ASSUME AuthorityAssumption ==
    /\ Provider \in [Observed -> Providers]
    /\ Policy \in [Observed -> Policies]
ASSUME InputsAssumption ==
    /\ Default \in [Keys -> Values \cup {Unset}]
    /\ Inputs \subseteq [Keys -> Values \cup {Unset}]
    /\ BaselineKept \in SUBSET Steps
ASSUME BoundsAssumption == MaxVersion \in Nat

VARIABLES
    okay,       \* the steps whose state file says "ok"
    built,      \* the inputs the state of each step was made with, in full
    wanted,     \* the inputs the blueprint gives each step
    authority,  \* the authority as it is
    deployPc,   \* where the deploy command is
    deployAt,   \* the step the loop is at
    seen,       \* the observation of the open session, as a set of one or none
    rc,         \* what the module run of the step returned
    repaired,   \* iol_repair_used
    result,     \* step_results: the status of each step
    receipts,   \* a step result holds an authority_interval
    unrestored, \* required_failures has "restore_archived_labs"
    last,       \* how the last deploy ended, and whether it wrote deploy.json
    plan,       \* step_status_by_id of the preflight, "held" for blocked or deferred
    found,      \* history: the optional steps whose state the preflight found good
    broken,     \* history: the authority changed within the interval of a step
    denied      \* history: the steps whose last module run ended in a denial

deployVars == <<okay, built, wanted, authority, deployPc, deployAt, seen, rc, repaired, result,
                receipts, unrestored, last, plan, found, broken, denied>>
states   == <<okay, built>>
forecast == <<plan, found>>
memory   == <<repaired, receipts, unrestored, forecast>>
deployHistory == <<broken, denied>>

\* resolved.inputs.yml: the given inputs and the defaults of the module.
Resolved(given) == [k \in Keys |-> IF given[k] = Unset THEN Default[k] ELSE given[k]]

Objects == [uid : Nat, version : Nat, content : Contents]
Results == {"none", "ok", "skipped", "failed", "failed-optional", "cancelled"}

DeployTypeOK ==
    /\ okay \in SUBSET Steps
    /\ built \in [Steps -> [Keys -> Values \cup {Unset}]]
    /\ wanted \in [Steps -> Inputs]
    /\ authority \in Objects
    /\ deployPc \in {"idle", "plan", "admit", "check", "contract", "run", "complete",
                    "restore", "conclude"}
    /\ deployAt \in 1..(N + 1)
    /\ seen \in SUBSET Objects
    /\ rc \in {"none", "ok", "failed", "cancelled"}
    /\ repaired \in BOOLEAN
    /\ result \in [Steps -> Results]
    /\ receipts \in BOOLEAN
    /\ unrestored \in BOOLEAN
    /\ last \in [status : {"none", "ok", "failed", "cancelled", "crashed"}, recorded : BOOLEAN]
    /\ plan \in [Steps -> {"none", "ready", "skipped", "held"}]
    /\ found \in SUBSET Optional
    /\ broken \in SUBSET Steps
    /\ denied \in SUBSET Steps

DeployInit ==
    /\ okay = {}
    /\ \E i \in Inputs :
          wanted = [s \in Steps |-> i] /\ built = [s \in Steps |-> Resolved(i)]
    /\ \E c \in Contents : authority = [uid |-> 0, version |-> 0, content |-> c]
    /\ deployPc = "idle"
    /\ deployAt = 1
    /\ seen = {}
    /\ rc = "none"
    /\ repaired = FALSE
    /\ result = [s \in Steps |-> "none"]
    /\ receipts = FALSE
    /\ unrestored = FALSE
    /\ last = [status |-> "none", recorded |-> FALSE]
    /\ plan = [s \in Steps |-> "none"]
    /\ found = {}
    /\ broken = {}
    /\ denied = {}

-----------------------------------------------------------------------------
(* Around the deploy                                                          *)

Edit(s) ==
    /\ deployPc = "idle"
    /\ \E i \in Inputs : wanted' = [wanted EXCEPT ![s] = i]
    /\ UNCHANGED <<states, authority, deployPc, deployAt, seen, rc, result, memory, last,
                   deployHistory>>

\* Somebody writes the object, with the old content or with a new one, or
\* deletes it and makes it again.
ChangeAuthority ==
    /\ authority.version < MaxVersion
    /\ \E u \in {authority.uid, authority.uid + 1}, c \in Contents :
          authority' = [uid |-> u, version |-> authority.version + 1, content |-> c]
    /\ broken' = IF seen = {} THEN broken ELSE broken \cup {deployAt}
    /\ UNCHANGED <<states, wanted, deployPc, deployAt, seen, rc, result, memory, last,
                   denied>>

\* The command is over.
ReturnDeploy(status, recorded) ==
    /\ last' = [status |-> status, recorded |-> recorded]
    /\ deployPc' = "idle"
    /\ deployAt' = 1
    /\ seen' = {}
    /\ rc' = "none"
    /\ repaired' = FALSE
    /\ result' = [s \in Steps |-> "none"]
    /\ receipts' = FALSE
    /\ unrestored' = FALSE
    /\ plan' = [s \in Steps |-> "none"]
    /\ found' = {}
    /\ broken' = {}

\* The loop is about to look at step s, or is over.
Enter(s) ==
    /\ deployAt' = s
    /\ deployPc' = IF s > N THEN "restore" ELSE IF s \in Observed THEN "admit" ELSE "check"

\* --skip-preflight, with a reason.
SkipPreflight ==
    /\ deployPc = "idle"
    /\ Enter(1)
    /\ UNCHANGED <<states, wanted, authority, seen, rc, result, memory, last, deployHistory>>

-----------------------------------------------------------------------------
(* The preflight                                                              *)

\* A plausible slip: the state decides alone.
Skippable_ByState(s) == s \in SkipIfOk /\ s \in okay

\* _explicit_input_drift_detail: every input the blueprint gives is the one the
\* state was made with.  One it does not give, or no longer gives, is not compared.
InEffect(s) == \A k \in Keys : wanted[s][k] # Unset => built[s][k] = wanted[s][k]

\* module_state_ok, and explicit_step_inputs_changed, which takes inputs it
\* cannot compare for unchanged ones.
Skippable(s) ==
    /\ s \in SkipIfOk
    /\ s \in okay
    /\ s \in BaselineKept => InEffect(s)

StartPreflight ==
    /\ deployPc = "idle"
    /\ deployPc' = "plan"
    /\ deployAt' = 1
    /\ found' = okay \cap Optional
    /\ UNCHANGED <<states, wanted, authority, seen, rc, result, repaired, receipts,
                   unrestored, last, plan, deployHistory>>

Cleared == {s \in Steps : plan[s] \in {"ready", "skipped"}}

\* A plausible slip: an optional step is assumed to leave its state good.
Assumed_Optional == Cleared

\* assumed_state_ok: the states that earlier steps of this run will make good.
Assumed == Cleared \ Optional

\* preflight_step, whose other checks (inputs, module, secrets, driver) may each
\* block the step; a step behind one that is held is deferred unseen.
Foresee ==
    /\ deployPc = "plan" /\ deployAt \in Steps
    /\ deployAt' = deployAt + 1
    /\ \E status \in {"ready", "skipped", "held"} :
          /\ status # "held" => Requires[deployAt] \subseteq Cleared
          /\ status = "skipped" => Skippable(deployAt)
          /\ status = "ready" =>
                /\ NeedsState[deployAt] \subseteq okay \cup Assumed
                /\ Skippable(deployAt) => deployAt \in Verify
          /\ plan' = [plan EXCEPT ![deployAt] = status]
    /\ UNCHANGED <<states, wanted, authority, deployPc, seen, rc, result, repaired, receipts,
                   unrestored, last, found, deployHistory>>

\* required_failures of compute_preflight: a deferred step is none.
Blocking ==
    {s \in Steps \ Optional : plan[s] = "held" /\ Requires[s] \subseteq Cleared}

StartDeploy ==
    /\ deployPc = "plan" /\ deployAt = N + 1
    /\ Blocking = {}
    /\ Enter(1)
    /\ UNCHANGED <<states, wanted, authority, seen, rc, result, memory, last, deployHistory>>

Refuse ==
    /\ deployPc = "plan" /\ deployAt = N + 1
    /\ Blocking # {}
    /\ ReturnDeploy("failed", FALSE)
    /\ UNCHANGED <<states, wanted, authority, denied>>

-----------------------------------------------------------------------------
(* One step                                                                   *)

FailStatus(s) == IF s \in Optional THEN "failed-optional" ELSE "failed"

\* A plausible slip: the loop goes on after a failed step.
Settle_NeverStops(status) ==
    /\ result' = [result EXCEPT ![deployAt] = status]
    /\ seen' = {}
    /\ rc' = "none"
    /\ IF status = "cancelled"
       THEN deployPc' = "conclude" /\ UNCHANGED deployAt
       ELSE Enter(deployAt + 1)

\* The step has its result; then the loop continues or breaks.
Settle(status) ==
    /\ result' = [result EXCEPT ![deployAt] = status]
    /\ seen' = {}
    /\ rc' = "none"
    /\ IF status = "cancelled" \/ (status = "failed" /\ FailFast)
       THEN deployPc' = "conclude" /\ UNCHANGED deployAt
       ELSE Enter(deployAt + 1)

\* module_state_ok for each state the step's contracts name.
StateContract(s) == NeedsState[s] \subseteq okay

\* begin_step_contracts with the observation policy of the step.
Admit ==
    /\ deployPc = "admit"
    /\ StateContract(deployAt)
    /\ MayBegin(Provider[deployAt], Policy[deployAt])
    /\ seen' = {authority}
    /\ broken' = broken \ {deployAt}
    /\ deployPc' = "check"
    /\ UNCHANGED <<states, wanted, authority, deployAt, rc, result, memory, last, denied>>

\* Without one the contracts are looked at when the step is about to run.
Contract ==
    /\ deployPc = "contract"
    /\ StateContract(deployAt)
    /\ deployPc' = "run"
    /\ UNCHANGED <<states, wanted, authority, deployAt, seen, rc, result, memory, last,
                   deployHistory>>

AdmissionFails ==
    /\ deployPc \in {"admit", "contract"}
    /\ Settle(FailStatus(deployAt))
    /\ UNCHANGED <<states, wanted, authority, memory, last, deployHistory>>

\* What _authority_completion_receipt may decide.
Receipts(s) ==
    IF s \in Observed
    THEN UNION {Decisions(Provider[s], Policy[s], before, authority) : before \in seen}
    ELSE {"allow"}

Skip ==
    /\ deployPc = "check"
    /\ Skippable(deployAt)
    /\ \E decision \in Receipts(deployAt) :
          Settle(IF decision = "deny" THEN FailStatus(deployAt) ELSE "skipped")
    /\ receipts' = (receipts \/ deployAt \in Observed)
    /\ UNCHANGED <<states, wanted, authority, repaired, unrestored, last, forecast,
                   deployHistory>>

\* _evaluate_step_state_skip says "error".
VerificationFails ==
    /\ deployPc = "check"
    /\ Skippable(deployAt) /\ deployAt \in Verify
    /\ Settle(FailStatus(deployAt))
    /\ UNCHANGED <<states, wanted, authority, memory, last, deployHistory>>

\* No good state, new inputs, or drift found by _evaluate_step_state_skip.
NoSkip ==
    /\ deployPc = "check"
    /\ Skippable(deployAt) => deployAt \in Verify
    /\ deployPc' = IF deployAt \in Observed THEN "run" ELSE "contract"
    /\ UNCHANGED <<states, wanted, authority, deployAt, seen, rc, result, memory, last,
                   deployHistory>>

\* run_single: the state is published with the inputs it was made from.
Publish ==
    /\ okay' = okay \cup {deployAt}
    /\ built' = [built EXCEPT ![deployAt] = Resolved(wanted[deployAt])]

\* A run that failed: before its driver call, after it, or in its last write.
Fall == UNCHANGED states \/ (okay' = okay \ {deployAt} /\ UNCHANGED built) \/ Publish

RunSucceeds ==
    /\ deployPc = "run"
    /\ Publish
    /\ rc' = "ok"
    /\ deployPc' = "complete"
    /\ denied' = denied \ {deployAt}
    /\ UNCHANGED <<wanted, authority, deployAt, seen, result, memory, last, broken>>

RunFails ==
    /\ deployPc = "run"
    /\ Fall
    /\ rc' \in {"failed", "cancelled"}
    /\ deployPc' = "complete"
    /\ denied' = denied \ {deployAt}
    /\ UNCHANGED <<wanted, authority, deployAt, seen, result, memory, last, broken>>

\* repair_iol_license stored a licence: the step runs once more.
Repair ==
    /\ deployPc = "run"
    /\ deployAt \in Repairable /\ ~repaired
    /\ Fall
    /\ repaired' = TRUE
    /\ UNCHANGED <<wanted, authority, deployPc, deployAt, seen, rc, result, receipts,
                   unrestored, last, forecast, deployHistory>>

StatusAfter(decision) ==
    IF rc = "cancelled" THEN "cancelled"
    ELSE IF rc = "ok" /\ decision # "deny" THEN "ok" ELSE FailStatus(deployAt)

Complete ==
    /\ deployPc = "complete"
    /\ \E decision \in Receipts(deployAt) :
          /\ Settle(StatusAfter(decision))
          /\ denied' = IF decision = "deny" /\ rc = "ok" THEN denied \cup {deployAt} ELSE denied
    /\ receipts' = (receipts \/ deployAt \in Observed)
    /\ UNCHANGED <<states, wanted, authority, repaired, unrestored, last, forecast, broken>>

-----------------------------------------------------------------------------
(* After the loop                                                             *)

RequiredFailures == {s \in Steps : result[s] = "failed"}
Cancelled == \E s \in Steps : result[s] = "cancelled"

\* The archived labs are restored, or there are none to restore.
RestoreDone ==
    /\ deployPc = "restore"
    /\ deployPc' = "conclude"
    /\ UNCHANGED <<states, wanted, authority, deployAt, seen, rc, result, memory, last,
                   deployHistory>>

RestoreFails ==
    /\ deployPc = "restore"
    /\ RequiredFailures = {}
    /\ unrestored' = TRUE
    /\ deployPc' = "conclude"
    /\ UNCHANGED <<states, wanted, authority, deployAt, seen, rc, result, repaired, receipts,
                   last, forecast, deployHistory>>

DeployOutcome ==
    IF Cancelled THEN "cancelled"
    ELSE IF RequiredFailures = {} /\ ~unrestored THEN "ok" ELSE "failed"

\* deploy.json is written when the blueprint observes an authority.
ConcludeDeploy ==
    /\ deployPc = "conclude"
    /\ ReturnDeploy(DeployOutcome, Observed # {})
    /\ UNCHANGED <<states, wanted, authority, denied>>

\* The write fails: "authority_evidence" becomes a required failure.
RecordFails ==
    /\ deployPc = "conclude"
    /\ Observed # {}
    /\ ReturnDeploy(IF receipts /\ ~Cancelled THEN "failed" ELSE DeployOutcome, FALSE)
    /\ UNCHANGED <<states, wanted, authority, denied>>

\* The process dies, in the middle of a module run for one.
CrashDeploy ==
    /\ deployPc # "idle"
    /\ ReturnDeploy("crashed", FALSE)
    /\ IF deployPc = "run"
       THEN Fall /\ denied' = denied \ {deployAt}
       ELSE UNCHANGED <<states, denied>>
    /\ UNCHANGED <<wanted, authority>>

StepAction ==
    \/ Admit \/ Contract \/ AdmissionFails
    \/ Skip \/ VerificationFails \/ NoSkip
    \/ RunSucceeds \/ RunFails \/ Repair \/ Complete

DeployNext ==
    \/ \E s \in Steps : Edit(s)
    \/ ChangeAuthority
    \/ SkipPreflight \/ StartPreflight \/ Foresee \/ StartDeploy \/ Refuse
    \/ StepAction
    \/ RestoreDone \/ RestoreFails \/ ConcludeDeploy \/ RecordFails \/ CrashDeploy

DeploySpec == DeployInit /\ [][DeployNext]_deployVars

-----------------------------------------------------------------------------
(* Properties                                                                 *)

\* A deploy that ends with "ok" leaves every step in a good state that was made
\* with every input the blueprint gives it now, but for optional steps it reports
\* as failed and for steps whose last inputs nobody can read, and has kept the
\* evidence of the authority it succeeded on.
OkMeansDeployed ==
    [][(last' # last /\ last'.status = "ok") =>
          /\ \A s \in Steps :
                \/ s \in okay /\ (s \in BaselineKept => InEffect(s))
                \/ s \in Optional /\ result[s] = "failed-optional"
          /\ receipts => last'.recorded]_deployVars

\* "Drift or stale completion evidence always blocks the step": a step under a
\* strict policy that is reported done or skipped has had its authority
\* unchanged from the admission to the closing observation, not even changed
\* and changed back.
AuthorityUnbroken ==
    \A s \in Observed :
        result[s] \in {"ok", "skipped"} /\ Policy[s].unverifiable = "fail" => s \notin broken

\* No module runs, and no lab is restored, over a required step that failed or
\* over a state that the contracts of the step need and that is not good.
RequirementsSettled ==
    /\ deployPc = "run" =>
          /\ \A r \in Requires[deployAt] : result[r] \in {"ok", "skipped", "failed-optional"}
          /\ NeedsState[deployAt] \ {deployAt} \subseteq okay
    /\ unrestored => RequiredFailures = {}

\* The forecast of the preflight: a step that it found ready is not refused in
\* the deploy for want of a state, unless a step that makes that state has failed
\* in this deploy, and an optional one only if its state was good before.
ForecastHolds ==
    deployPc \in {"admit", "contract"} /\ plan[deployAt] = "ready" =>
        \A r \in NeedsState[deployAt] :
            \/ r \in okay
            \/ result[r] = "failed"
            \/ result[r] = "failed-optional" /\ r \in found

\* A denial outlives the deploy that got it: no later deploy succeeds on what
\* the step built, unless the step has run again.  This does not hold of the
\* code: the state of the denied step says "ok", and the next deploy skips it.
DeniedNeverTrusted ==
    [][(last' # last /\ last'.status = "ok") => denied \subseteq Optional]_deployVars

\* Its states are the ones a deploy from nothing would make.  This does not hold
\* of the code either: an input that the blueprint no longer gives keeps its old
\* value in a step that is skipped.
OkMeansAsDeclared ==
    [][(last' # last /\ last'.status = "ok") =>
          \A s \in okay \cap BaselineKept : built[s] = Resolved(wanted[s])]_deployVars
=============================================================================
