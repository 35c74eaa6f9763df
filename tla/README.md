# Verification of the HybridOps core

HybridOps Core (`hyops`) is a command-line tool. It builds environments out of
*blueprints* — ordered steps, each a run of one *module* (Terragrunt, Packer,
Ansible) — and keeps on disk what it knows of them. There is no server: every
command is a process of its own, and commands meet in files. What is hard about
the program is therefore what happens when two commands overlap, when one dies
between two writes, when a step fails half way, or when a value read earlier is
used later. These TLA+ modules model that part of the code, TLC checks them on
small instances, and TLAPS proves the main results for every value of the
constants.

Paths below are relative to `src/`. In `PROJECT.json`, `map` gives the source
lines of each definition, `hazards` the places where the code can go wrong and
the properties that watch them, `mutants` a plausible bug for each property.

- [1 Inventory](#1-inventory)
- [2 The modules and the code](#2-the-modules-and-the-code)
- [3 What the runs check](#3-what-the-runs-check)
- [4 What is proved](#4-what-is-proved)
- [5 What the code does not keep](#5-what-the-code-does-not-keep)
- [6 Not modelled](#6-not-modelled)
- [7 Plan](#7-plan)

## 1 Inventory

### 1.1 The parts that keep state

| part | code | its state | its operations |
|---|---|---|---|
| lifecycle lock | `hyops/blueprint/access_session.py` | a directory under the environment's state root, with `owner.json` | enter, clear a stale lock, exit |
| access sessions | `hyops/blueprint/access_session.py`, `command.py` (`run_access`, `run_session`) | one session file per blueprint | start, supervise, release at the deadline, close, extend, cancel |
| module execution | `hyops/commands/_apply_execute.py`, `runtime/module_state.py`, `drivers/iac/terragrunt/`, `state/command.py` | `state/modules/<id>/latest.json` per slot; the provider's resources, tracked by one Terraform backend or another | apply, deploy, import, status apply, destroy, detach; the guard of the backend |
| blueprint destroy | `command.py` (`_run_destroy_unlocked`) | the slots of all steps, `destroy.json` | archive, the loop over the steps, `finish_subsumed_steps`, the record |
| blueprint deploy | `command.py` (`run_deploy`), `blueprint/planner.py`, `blueprint/contracts.py`, `hyops/authority/` | the slots, `deploy.json`, the authority receipts | preflight, skip, contracts, authority interval, run, IOL repair, restore, the record |
| blueprint rebuild | `command.py` (`run_rebuild`) | `rebuild.json` | destroy, then deploy, under the lifecycle lock |
| runner dispatch | `hyops/runner/command.py` | a remote job directory, a local stage | bundle, execute, fetch back, repair paths, clean up |
| lab capture | `hyops/lab/migration.py` (`capture_existing_lab`) | three output files, their candidates | assess, quiesce, stream, verify, publish |
| lab import | `hyops/lab/migration.py` (`stage_migration_archive`) | staged archives, active records, the latest recovery set | copy, publish, record |
| secrets | `hyops/secrets/command.py`, `runtime/vault.py` | the encrypted environment file; an external authority | set, ensure, sync, persist |
| vault recovery | `hyops/vault/recovery.py`, `tools/secrets/vault/vault-pass.sh` | the key, the password store, the environment files, a backup | recover, bootstrap, reset |
| Proxmox init | `hyops/init/targets/proxmox.py`, `assets/init/proxmox/bootstrap-proxmox-remote.sh` | the host's API user and token; per environment the secret in the vault, the credentials file, the readiness marker | find or make a token, validate, write, mark, roll back |
| apply with dependencies | `hyops/commands/apply.py`, `_apply_helpers.py` | the slots | order the dependencies, run those not `ok` |
| stop state | `hyops/state/stop_state.py` | none (a manifest is judged) | evaluate |

The remaining parts (schema, the other drivers and init targets, validators,
the user commands) hold no state of their own; `PROJECT.json` lists each of them
with the reason it is not modelled.

### 1.2 How the parts interact

- **Shared files, whole-file replacement.** Every record is written by
  `write_json_atomic` (`hyops/runtime/state.py`): a temporary file, `fsync`,
  `os.replace`. A reader sees the old record or the new one, never a mixture;
  but a read followed by a write is two steps, and the write can fail before or
  after the replacement.
- **The lifecycle lock** keeps apart blueprint destroy, rebuild, and every
  session write but that of a release's exception handler. `blueprint deploy`
  and single-module commands do *not* take it. Nothing locks a slot, the vault
  file, the lab files or the token of a Proxmox host.
- **The module state marker** is the interface between commands: destroy skips
  what is `absent` or `destroyed`, deploy skips what is `ok`, dependents and
  access sessions trust `ok`. The blueprint commands run modules through the
  same `run_single` as the single-module commands.
- **A copy that travels.** The runner deploys from a copy of the runtime and
  unpacks the copy's state over the local one.
- **The environment file** is read by every command that needs a credential and
  replaced whole by every one that adds one; its key and password are shared by
  all environments of a workstation.
- **Outside programs** change the resources (drivers), the authorities
  (Kubernetes, Nautobot, NetBox), the secret stores and the Proxmox host, and
  answer with a return code or an observation.

### 1.3 What is hard, and what makes each part correct

- *Lock*: all its calls are by path, a crashed owner must be recognised and a
  live one must not. Correct when at most one operation runs, and when no
  attempt leaves behind a directory that shuts everybody out.
- *Sessions*: a supervisor, the operator's commands and the exception handler of
  a release all write the same record, the last without the lock. Correct when a
  cancelled session is never released, an ended one never comes back, only the
  resources the session was started for are taken down, and an overdue session
  does not stay active under its supervisor.
- *Module state*: marker and resources change at different moments, either
  change may fail, and a slot may come to be tracked by two backends. Correct
  when `absent`/`destroyed` means nothing is left, `ok` means everything is
  there, and one backend has it all.
- *Destroy*: what protects data (archive, gates, retained steps) must hold on
  every path through failures, optional steps, cancellations, restarts. Correct
  when nothing goes before what protects it, and when the outcome record tells
  the truth about what is left.
- *Deploy*: the preflight judges steps on states that earlier steps are yet to
  make, steps may be skipped on old state and old inputs, an authority may
  change under a running step. Correct when what the preflight let through is
  not refused half way, when `ok` means deployed with the inputs the blueprint
  gives, and when a step under a strict policy is only reported done over an
  authority that has not changed.
- *Rebuild*: the deploy half skips what the destroy half left in a good state.
  Correct when `ok` means made anew.
- *Runner*: connections break between any two steps, the only record of what a
  remote deploy made is in a directory that is removed. Correct when that record
  is never lost, and what is read of a local state is not looked for in a removed
  job.
- *Lab capture and import*: several files make one set and are published one by
  one. Correct when lab definitions have their node state and images beside them,
  and node state was read at rest.
- *Secrets*: the file is read, merged and replaced, then an authority is
  written; some commands strip the values they carry. Correct when a credential
  changes on request only and an `ok` means that the two agree.
- *Vault recovery*: it destroys before it makes anew, across two commands.
  Correct when nothing is destroyed that its checks protect and trying again
  always ends.
- *Proxmox init*: the host tells a token's secret once, environments share the
  token, the script cleans up by name and may outlive its command. Correct when
  a ready environment works and no token is left whose secret nobody has.

## 2 The modules and the code

| module | models | uses |
|---|---|---|
| `LockService` | what the lock promises | |
| `LifecycleLock` | the lock, one file-system call per step | instance of `LockService` |
| `AccessSession` | sessions over an ideal lock | |
| `ModuleState` | one slot, the runs of its module, the backends | |
| `Blueprint` | the steps of a blueprint and their order | |
| `BlueprintDestroy` | the destroy of any blueprint | extends `Blueprint` |
| `Authority` | what a provider can say of an interval, what the resolver decides | |
| `BlueprintDeploy` | the preflight and deploy of any blueprint | extends `Blueprint`, `Authority` |
| `BlueprintRebuild` | destroys, deploys and rebuilds over the same slots | extends `BlueprintDestroy`, `BlueprintDeploy` |
| `RunnerDispatch` | dispatches and local commands over the module state files | |
| `LabCapture`, `LabImport` | migration archives, made and taken in | |
| `SecretsVault` | commands on the environment file and an authority | |
| `VaultRecovery` | the loss and the renewal of key and password | |
| `ProxmoxInit` | init commands for environments that share a host | |
| `Blueprint_proofs` | the theorems of destroy, deploy and rebuild | extends `BlueprintRebuild`, `TLAPS` |
| `Lab_proofs` | those of `LabCapture` and `LabImport` | extends both, `TLAPS` |
| `Vault_proofs` | those of `SecretsVault` and `VaultRecovery` | extends both, `TLAPS` |
| `X_proofs` | those of module X, for every other X | extends X, `TLAPS` |
| `MCX` | the instance TLC checks | extends X |

The modules are layered by what they take for granted. `AccessSession` uses the
lock as `LockService` promises it (one holder, set free by a crash);
`LifecycleLock` implements that service and says when it is broken.
`BlueprintDestroy` and `BlueprintDeploy` take a module run as one step whose
outcomes are those found in `ModuleState`: nothing happened, it failed with the
resources gone or made or with some of either, its last write was lost or not.
That the marker of a slot is true after any such run is `ModuleState`'s theorem;
it holds for runs that do not overlap, which is what a single blueprint command
gives. `BlueprintDestroy` has in turn an abstract `Deploy` between its destroys,
and `BlueprintRebuild` shows that the deploys of `BlueprintDeploy` are such
(`ImplementsDestroy`). Modules that are composed, or proved about together, have
no names in common but those of what they share; so `DestroyNext`, `deployPc`,
`RecoverySpec` and the like carry the name of their part.

In all modules a process that is killed stops where it is, keeps its files, and
loses its memory. Definitions whose name has an underscore and follow
"A plausible slip" or "Mutant of" are not part of any specification: they are
the mutated forms that `PROJECT.json` names.

### LockService and LifecycleLock

A process is one `hyops` command; its `pc` names the next system call of
`__enter__` (`mkdir` → `tmp`, `replace`, `sync` → `held`, or `undo`),
`_clear_stale` (`judge`, `probe`, `unlink`, `rmdir`) or `__exit__` (`free`,
`drop`). `dir`, `owner` and `tmps` are the directory and its entries; `aged`
says that its mtime is 30 seconds old, and is reset by every change of an entry,
as the file system does. `Probe` compares the record the process read *before*
with which processes run *now*; `ClearOwner` and `ClearDir` act on whatever is
at the path *then*. `WriteFails` is any failing call of the atomic write,
including one after `os.replace`. `Suspends` allows a process to be held up for
30 seconds between two calls (a stopped process, a slow network file system).
The service has the processes that use the lock as `holders`; a `Break`, which
only a process outside may do, ends its promise.

### AccessSession

`rec` is the session file. A handler that takes the lock loads the record when
it acquires it and writes its own copy (`mine`) when it lets go, so each is two
steps, between which everybody without the lock may act. `Watch`/`Decide` are
one turn of `_wait_for_managed_access`; `Expire`, `ExpireBusy`, `ExpireRefused`,
`Execute`, `DestroyReturns` the branches of `_expire_access_session`;
`ReleaseRaises` is an exception or a Ctrl-C anywhere in it, with the record
still active or not, before or after a write has replaced the file;
`Handler`/`Overwrite` its `except Exception`, which holds no lock; `Extend`,
`ExtendFindsStale`, `Cancel` the operator's commands. `generation` stands for
`_access_resource_generation`, the digest of the module state: it changes in a
destroy or rebuild, under the lock (`LifecycleStep`), or in a deploy or
single-module run, without it (`Deploy`); `overtaken` remembers the sessions
whose release a deploy ran into, `raced` those whose record the unlocked handler
wrote while a command was about to. `now` is the clock.

### ModuleState

`marker`, `writer`, `outputs`, `binding` are the fields of `latest.json` that
other code decides on, `res` the resources at the provider by the backend that
tracks them. `Peek` and `MarkRunning` are the read and the write of
`persist_mutation_state`; `GuardPasses` is `check_backend_binding_drift` in the
driver; `Mutate` is Terraform, an outside program that changes one resource at a
time; `Publish` is the final `write_module_state`; `AfterFailure` says which
failures are written at all (a destroy writes none, an apply only once the driver
was called, a status apply always). Each write may fail before or after the
replacement; Ctrl-C arrives wherever the `try` block catches it, a crash
anywhere. `StartDetach`, `Detach`, `PublishDetached` are `hyops state detach`.
An import writes `ok` for the one resource it was given. `left` remembers the
backends that a run was let past: by the operator's word, by a move to another
project, or because the slot had lost its binding.

### BlueprintDestroy

A step is its position in `payload["order"]`, so "requires" points down and the
loop runs from `N` to 1. `Proceed` chooses `archive_mode` after the selection
and the confirmations (`Decline` is every early return), `ArchiveVerified` and
`ArchiveFails` are `_run_archive_before_destroy`. The branches of the loop are
`Bypass` (retained, or a gate under "skip"), `SkipNoState`, `SkipDestroyed`,
`Defer` (a subsumed step waits for its parent), `DestroySucceeds`,
`DestroyFails`, `DestroyCancelled`; `MarkChild` and `MarkChildFails` are
`finish_subsumed_steps`; `ConcludeDestroy` is the outcome record. `Deploy` is what
happens between two destroys: a module run begins, fails or ends, and the marker
is written before the resource exists (`ModuleState` again). `live` is the real
world; `preserved`, `lost`, `archived` are history for the properties.
`Misreads` lets a state file be unreadable, which the code takes for "no state".

### Authority and BlueprintDeploy

`Authority` has the three providers as functions of two observations and a policy
(`providers/*.py`), and the resolver's decision. `BlueprintDeploy` begins with the
preflight or `--skip-preflight`: `Foresee` is one turn of `compute_preflight`,
which gives each step a `plan` (skipped, ready, blocked, optionally blocked or
deferred) and keeps the states it assumes (`Assumed`): a good one now, or one that
a ready step is to make; `Refuse` ends the command. `found` are the states that
were good before. The deploy then runs the steps upwards: `Admit` opens the
interval of an observed step, `Skip`/`NoSkip`/`VerificationFails` are the state
skip with its input comparison and live verification, `Contract` the module-state
contracts of a step without authority, `RunSucceeds`/`RunFails`/`Repair` the
module run, `Complete` the closing observation, `RestoreDone`/`RestoreFails` the
lab restore, `ConcludeDeploy`/`RecordFails` the record. `ChangeAuthority` may
happen at any moment and any number of times within an interval, back to the old
content too; `Edit` changes the inputs between two deploys, and may take one away.
Inputs are maps from keys to values, where a cleared value is as good as none;
`Resolved` adds the module's defaults, which is what a state is made with.
`Skippable` compares as `explicit_step_inputs_changed` does: the keys that are
given now, and only if the inputs of the last run can be read (`BaselineKept`).

### BlueprintRebuild

The two halves are those of the modules it extends, over one world: the destroy
asks of a state file whether it is terminal (`marker`), the deploy whether it says
`ok` and for which inputs (`okay`, `built`). `DestroyStep` is a step of the
destroy with what it means for the deploy (`Marked`), `DeployStep` a step of the
deploy with what it means for the destroy (`Followed`; in a module run, `Ran`: no
resource before its state file, no child outside its parent). `command` says which
command runs: plain ones may come in any order and end or crash anywhere.
`RebuildMode` is the archive mode a rebuild hands down, `DestroyFailed`,
`Destroyed`, `DeployRefused`, `EndRebuild` are the returns of
`_run_rebuild_unlocked`. The preflight of the deploy half is one choice here: it
passes (`SkipPreflight`) or refuses. Inputs and authorities stand still.

### RunnerDispatch

A module state file is a record of the version it describes (`v`) and of whose
directory its paths point into: `rerun_inputs_file` and `evidence_dir` (`home`),
which the repair rebases, and `resolved_inputs_file` (`inputs`), which it does
not. `Setup` to `Prepared` are the bundle and upload,
`RemoteApply`/`RemoteEnds`/`ConnectionLost` the remote command, whose process
may go on after the connection is lost, `Collect`/`Download`/`FetchFails` the
archive on its way back, `NextMember` and `NextRepair` the unpacking and the
repair of paths, each an `Open` that truncates the file and a `Fill`.
`UnpackFails` is an error in either, which ends the dispatch (`"failed"`, as
every error of its own; `"error"` is a remote command that failed) over torn or
unrepaired files. `Verdict` comes after the fetch, also for a deploy that
failed. `Interrupt` is Ctrl-C, `CleanStage`/`CleanJob` the `finally` clause,
`Killed` what skips it. `LocalApply` is any local command in between.

### LabCapture and LabImport

A capture streams each part into a candidate (`Check`, which looks for running
nodes in the stream's own script, then `Read`), verifies it and moves the
candidates over the output files in `PublishOrder`, the primary archive last.
`StartNodes`/`StopNodes` are the lab's users. An archive is known by whose it is
and whether nodes ran while it was read. An import (`LabImport`) decides by the
checksums and the active record, copies each part (`Copy`, which verifies and
unlinks what is bad), publishes the latest recovery set in three writes
(`WriteSum`, `WriteMeta`, `ReplaceLink`) and replaces the record. `Stops` is
Ctrl-C, an error or a death anywhere; `SourceChanges` the operator touching the
bundle.

### SecretsVault

`vault` is the environment file, `external` the authority, both maps from keys
to values; a new value is the next number. `MergeRead`/`MergeWrite` are
`merge_set`; `EnsureRead` decides which keys `ensure` generates; `Fetch` is a
sync, `PutKey` the write of one Secret Manager secret, `ReadBucket`/`PutBucket`
that of a HashiCorp secret, which holds several keys and is replaced whole.
`Authority` adds the keys a command registers to the map. A value from a file
keeps the white space around it (`padded`); `GsmPersist` and `Fetch` carry it
without (`Strip`). `Fail` may come anywhere. `disturbed` remembers the commands
in whose course another one wrote.

### VaultRecovery

`key`, `gpgId` and `entry` are the keyring, the identity of the password store
and the stored password with the key it is encrypted for; `vaults` the password
of each environment's file; `deployed` are the resources that use its
credentials, `counted` whether a state that the checks look at says `ok`: a
readable one of a step of the given blueprint. `Check` to `EnsureSecrets` are
`run_recover` in order, `EnsureKey`, `EnsurePassInit`, `Insert` the bootstrap
that it starts or that an operator does. `LoseKey`, `CutOff`, `ResetCommand` and
`StateSpoilt` are the mishaps; `WriteVault`, `DeployReads`, `DeployRuns` (the
state says `running`), `DeploySucceeds`, `DeployFails` (it says `error` over
what was made), `Destroy` and `DestroyFails` other terminals. A backup is known
by whether it holds the file as it is.

### ProxmoxInit

`token` is the secret of the host's token (the host keeps a digest; the model
keeps the secret to say which copies are good). A command takes the secret of
its vault and has the API try it (`Check`), looks for one in other environments'
vaults (`Search`, `Adopt`), and otherwise has the script make one: `EnsureUser`,
`List`, `Remove` (with `--force`), `Add`, `Grant`, with `Trap` as
`cleanup_partial_credentials`. `Return`/`Persist` bring the secret home,
`PersistFails`/`Rollback` are the two ways a vault write fails, `Validate`,
`WriteCreds` and `Mark` the credentials and the marker. `Interrupted` is a
timeout, a Ctrl-C or a lost connection while ssh runs: the command ends and its
script or roll-back runs on (`cut`), to fail at its exports or to end as ever.
`Stops` is a death of both, `Forget` the removal of a vault file by a recovery.
`made` is what the script notes to have created.

### Abstractions that matter

- An id that is unique (run id, lock token, session id, pid) is the name of the
  process that has it and is never reused. Secrets of `ProxmoxInit` are the
  exception: a secret that nobody and no file has any more may be made again, so
  that the number of runs need not be bounded.
- Outputs, inputs, archives, passwords and authority contents are a few model
  values: the code compares them for equality only.
- The inside of Terraform, the archive module, the restore, the IOL repair, the
  live checks and the validation of archives is their outcome.
- `resources: released` is said by the code only for estimated (GCP) blueprints;
  the model lets any blueprint say it, which has more behaviours.

## 3 What the runs check

Distinct states are those of the complete state space.

| run | instance | checks | states |
|---|---|---|---|
| `lock` | 3 processes on 2 hosts, `Suspends` | `BreachNeedsStaleVerdict`, `NoOrphanDirectory`, `ImplementsLockService` | 2.5 M |
| `session` | 2 access commands, 1 terminal, other lifecycle commands and deploys, clock to 3, 2 changes of generation, fairness | `EndsHold`, `ReleaseOnAuthorisedGeneration`, `SupervisedSessionKept`, `OverdueSessionSettles` | 1.02 M |
| `module_state` | 3 runs one after the other, 2 resources, 2 backends | `TerminalMeansGone`, `OkMeansComplete`, `OneHome`, `OutputsOutliveFailures` | 1.15 M |
| `destroy` | 5 steps: network, machine, service (subsumed), gate, optional record; an archive | `MarkedGone`, `PreservedBeforeLoss`, `OkLeavesOnlyExcused`, `RecordIsTrue` | 47 k |
| `deploy` | 3 steps under two authorities, one change of the authority, one key given or left out, lost inputs of one step | `AuthorityUnbroken`, `RequirementsSettled`, `ForecastHolds`, `OkMeansDeployed` | 7.1 M |
| `rebuild` | 5 steps: retained network, machine, service (subsumed), optional record, gate | `TypeOK`, `OkMeansRebuilt`, `ImplementsDestroy` | 1.4 M |
| `runner` | 2 dispatches, 1 state file, 2 versions | `StateSurvives`, `NoPathOfEndedJob`, `EndMeansSynced` | 4.1 M |
| `lab_capture` | 2 captures, 3 parts | `NodeStateFromQuietHost`, `PublishedIsWhole` | 3.1 M |
| `lab_import` | 2 processes, 2 blueprints, 2 bundles | `NothingNamedIsMissing`, `LatestIsOneSet` | 2.5 M |
| `secrets` | 2 commands, 2 keys in one HashiCorp secret or two GSM secrets, 2 new values, one key from a file | `TypeOK`, `OkMeansAgreement`, `CredentialChangedOnRequest` | 1.9 M |
| `recovery` | 2 environments, 2 passwords, 3 mishaps, fairness | `RecoveryTypeOK`, `OnlyWhatWasChecked`, `RecoveryEnds` | 31 k |
| `proxmox` | 2 commands at once, 2 environments, 2 secrets at once | `ReadyWorks`, `NoTokenIsLost` | 6.8 M |

The three type invariants that are run say more than types: in `rebuild`
that a good state is over a marker that a deploy left, in `secrets` and `recovery`
what a command may have in hand at which step. All type invariants are proved
(section 4). Many properties have the form "it holds, but for …": what
follows "but for" is something the code really lets happen, found by TLC when the
exception is taken out, and listed in section 5.

### What the properties say

**Lock.** `ImplementsLockService`: the files implement a lock with a single
holder, until a process that does not use the lock takes it from under one that
does. `BreachNeedsStaleVerdict`: only `_clear_stale` can do that; the undo of a
failed entry and the exit of an owner cannot. `NoOrphanDirectory`: without a
crash no ownerless directory is left, although an entry may fail at each call.

**Sessions.** `EndsHold` has two halves. `CancelledNeverReleased`: once a cancel
command has reported success no release of that session is running or will — the
release reloads the record under the lock. `FinishedNeverRevived`: no stale
copy, the handler's unlocked one included, brings a final record back to active;
the exception is the race of the handler with a command that had loaded the
record while it said active.
`SupervisedSessionKept`: a supervised session's record is replaced by another's
only by the exception handler of that other's release.
`ReleaseOnAuthorisedGeneration`: the release takes down the generation the
session was started for, unless a deploy overtook it. `OverdueSessionSettles`
(liveness): an active session past its deadline does not stay so while its
supervisor runs; the exception is a supervisor in `wait`, which has seen another
session's record in the file and has announced that it looks no more.

**Module state.** `TerminalMeansGone`, `OkMeansComplete`: the two ways the
marker is trusted. A destroy that stopped half way leaves `ok` over a partial
module — `partial` is the history variable that excuses it; the code writes
nothing for a failed destroy. `OneHome`: what a slot stands for is tracked by
one backend, unless a run was let past the guard. `OutputsOutliveFailures`: a
failed apply keeps the outputs of the last good one, unless it could not read
them.

**Destroy.** `MarkedGone`: a terminal marker (a child's, written for it, too) is
over nothing that exists. `PreservedBeforeLoss`: nothing a gate requires goes
before the gate has succeeded in the same command, unless the operator chose
"skip", and nothing at all before the archive that was chosen is verified.
`RecordIsTrue`, `OkLeavesOnlyExcused`: what the record says of the resources is
so when it is written.

**Deploy.** `ForecastHolds`: a step that the preflight found ready is not refused
for want of a state, unless the step that makes that state failed in the same
deploy, and an optional one only if its state was good before.
`RequirementsSettled`: no module runs over a failed requirement or a state
contract that is not met. `AuthorityUnbroken`: under a strict policy a step is
reported done only when nothing touched its authority between admission and
completion, not even back and forth. `OkMeansDeployed`: an `ok` deploy has every
step in a good state made with every input the blueprint gives now, but for
optional failures it reports and steps whose last inputs cannot be read, and has
kept the receipts it succeeded on.

**Rebuild.** `OkMeansRebuilt`: every step is there, good and made anew, but for
what is retained, bypassed, or reported as an optional failure. `ImplementsDestroy`:
everything the destroy model assumes of the commands between two destroys —
marker before resource, child inside parent — is what the deploy model does.

**Runner.** `StateSurvives`: the record of what was last made of a resource is in
the local state, in a stage or in a job directory. `EndMeansSynced`: when a
dispatch whose deploy ended says `ok`, or that the remote command failed, the
local state has everything that deploy made, the failed part included.
`NoPathOfEndedJob`: the inputs for a rerun and the evidence are not looked for in
a directory that is gone. Their exceptions are Ctrl-C, a lost connection, a fetch,
an unpacking or a repair that fails, a kill, and files that others wrote meanwhile.

**Lab archives.** `NodeStateFromQuietHost`: published node state was read while
no node ran, whatever the operator attested, but for nodes started while `tar`
was reading. `PublishedIsWhole`: a primary archive has beside it every part its
capture was asked for, of that capture or of a forced one that came later and
did not get to its own primary archive. It says nothing of parts it was not
asked for. `NothingNamedIsMissing`: a record or the latest link names a bundle
that is all there. `LatestIsOneSet`: the latest set is of one archive once an
import that published went through — a later import mends what a crash left.

**Secrets.** `CredentialChangedOnRequest`: a value in the file changes or goes
only by a command that was asked to change it. `OkMeansAgreement`: a command that
persisted or synced and says `ok` leaves the file and the authority with the same
values: exactly after a set or an ensure, up to the white space they strip after
the others. Both but for commands that overlapped another's write.

**Recovery.** `OnlyWhatWasChecked`: a recovery changes the shared password only
while no other environment has a file, and removes its own file only when it is
backed up and no state that is counted says `ok`; what other terminals did after
the checks is the exception. It says what the checks protect, which is less than
every resource (section 5). `RecoveryEnds` (liveness): wherever it stops, recover and
bootstrap tried again bring a vault that opens, unless they refuse for good.

**Proxmox.** `ReadyWorks`: the credentials of a ready environment are those of the
host's token, unless a forced run replaced the token or the clean-up of another
command took it down. `NoTokenIsLost`: the secret of the host's token is in a
vault or in the hands of a command that runs, unless the one that made this token
was stopped or interrupted before it had put the secret away, its script having
gone on or not, or the vault file was removed or overtaken.

### Bounds and why they are enough

- *Lock*: a race on a stale lock needs the dead owner, the process that clears
  and takes it, and the one with the old verdict: three. Two hosts, because
  staleness by pid only works on the same host. `MaxTries = 2` is the code's own
  bound. p1 and p2 are interchangeable (same host).
- *Session*: two access commands are what is needed for one to replace the
  other's record; the lifecycle commands are a third actor beside the terminal.
  Three instants hold a deadline, its extension and a release after either.
  `MaxGeneration` caps the changes of module state: two let it change before and
  after the start of a session. `Duration = Extension = 1`.
- *Module state*: the order matters of at most a destroy, an apply, and a later
  reader's run; with two resources each driver call can stop half way. All
  assignments of commands and backends to the three runs are initial states.
- *Destroy and rebuild*: the instances have each kind of step once and the edges
  between them that the containerlab and GNS3 blueprints have. Nothing bounds
  the number of destroys, deploys, rebuilds and crashes: the state space is
  finite. The theorems cover every other order.
- *Deploy*: strict Kubernetes, lax Nautobot, no authority: one of each; one
  change per history of the authority (`MaxVersion = 1`) suffices to break an
  interval, and the number of deploys is not bounded. A change back is a new
  version with the old content. One key whose given value is not the default is
  enough to tell an override from none; of the inputs of the last run those of
  the first two steps can be read, those of the third cannot. The theorems bound
  neither the authority's history nor the inputs.
- *Runner*: files are unpacked and repaired one by one and no step looks at two,
  so one slot shows what can happen to any; two versions tell overtaken from kept
  (`MaxVersion`), and two dispatches can overtake one another. With
  `KeepRemoteJob` off the job directory is removed, the harder case. A dispatch
  happens once.
- *Lab*: two captures or importing processes are what overlap needs; imports
  repeat without bound, over an EVE-NG blueprint with two parts and a
  Containerlab blueprint that publishes.
- *Secrets*: two keys in one HashiCorp secret, so that a write of one carries the
  other; `MaxMade = 2` bounds the new values, the number of commands is not
  bounded. One key is not in the shipped map and has to be registered; one may be
  set from a file (`Texts`).
- *Recovery*: `MaxMishaps = 3` bounds losses of a key, cut-off commands, reset
  entries and spoilt states: a second cut-off during the repair of the first,
  with one more loss.
- *Proxmox*: two commands for two environments that meet on the host; two secrets
  at once, the old one in the files and the new one on the host. The number of
  commands, of stops and of scripts that run on is not bounded.

`CHECK_DEADLOCK FALSE` is in the configurations in which the system may stop:
all lock processes have exited, all access commands have ended with the clock
at its bound, all runs or dispatches have ended. The other models never
stop, as another command can always begin, and there deadlock is checked.

### Fairness

Two runs assume any.

`session` has weak fairness of `Supervise(s)`, the steps a running access process
takes on its own (start, watch, decide, expire, its protected destroy returning,
the writes). The code justifies it: the supervisor polls in a loop with a timeout
and `run_destroy` ends. Not assumed: that operators do anything, that the access
process ends, that anything raises or is killed, that the clock advances (the
property begins at a passed deadline). A supervisor that finds the lock busy gives
up (`ExpireBusy`) and its process ends; the session is then overdue and
unsupervised, which the property allows and the code shows to the operator.

`recovery` has weak fairness of the steps of a command that has begun — it is a
straight line of calls — and strong fairness of `Check` and `StartBootstrap`: the
operator keeps trying both for as long as they are refused or fail, which is what
"tried again" in the property means. Not assumed: that other terminals do
anything, or that mishaps happen or cease other than by their bound.

## 4 What is proved

All proofs are of the same specifications that TLC checks, for every value of
the constants that satisfies the named assumptions.

| theorem | statement | assumes |
|---|---|---|
| `LifecycleLock_proofs!Implementation` | `ImplementsLockService` | |
| `…!OnlyStaleVerdictsBreach` | `[]BreachNeedsStaleVerdict` | |
| `…!NoOrphans` | `[]NoOrphanDirectory` | |
| `…!Exclusion` | `[]ExclusiveUntilBreach` | |
| `…!ExclusionUntilVerdict` | `[](~staled => MutualExclusion)` | |
| `AccessSession_proofs!EndsStay` | `[]EndsHold` | |
| `…!AuthorisedRelease` | `[]ReleaseOnAuthorisedGeneration` | |
| `…!SupervisedIsKept` | `SupervisedSessionKept` | |
| `ModuleState_proofs!TerminalIsGone` | `[]TerminalMeansGone` | `Serial` |
| `…!OkIsComplete` | `[]OkMeansComplete` | `Serial` |
| `…!HomeIsOne` | `[]OneHome` | `Serial` |
| `…!OutputsStay` | `OutputsOutliveFailures` | `Serial` |
| `…!ErrorsAreEarned` | `[]ErrorNeedsDriverCall` | |
| `Blueprint_proofs!DestroyedIsGone` | `[]MarkedGone` | |
| `…!PreservedFirst` | `[]PreservedBeforeLoss` | `FailFast`, `~Misreads` |
| `…!ArchiveFirst` | `[]ArchiveBeforeLoss` | |
| `…!GateFirst` | `[]GateBeforeLoss` | `FailFast`, `~Misreads` |
| `…!RecordHolds` | `RecordIsTrue` | |
| `…!OkIsAccounted` | `OkLeavesOnlyExcused` | `~Misreads` |
| `…!UnbrokenAuthority` | `[]AuthorityUnbroken` | |
| `…!SettledFirst` | `[]RequirementsSettled` | `FailFast` |
| `…!ForecastKept` | `[]ForecastHolds` | |
| `…!OkIsDeployed` | `OkMeansDeployed` | |
| `…!RebuildIsDestroy` | `ImplementsDestroy` | |
| `…!RebuildKeepsDestroy` | `[]MarkedGone`, `[]ArchiveBeforeLoss`, `RecordIsTrue`, of `BlueprintRebuild` | |
| `…!RebuiltIsNew` | `OkMeansRebuilt` | `~Misreads` |
| `RunnerDispatch_proofs!StateIsKept` | `[]StateSurvives` | |
| `…!PathsAreRepaired` | `[]NoPathOfEndedJob` | |
| `…!EndsInSync` | `EndMeansSynced` | |
| `Lab_proofs!QuietNodeState` | `[]NodeStateFromQuietHost` | |
| `…!WholeCapture` | `[]PublishedIsWhole` | |
| `…!ForceReplaces` | `ReplacedByForceOnly` (in no run) | |
| `…!NamedIsThere` | `[]NothingNamedIsMissing` | |
| `…!OneSet` | `[]LatestIsOneSet` | |
| `…!ForcedRecord` | `RecordReplacedByForce` (in no run) | |
| `Vault_proofs!AgreementHolds` | `[]OkMeansAgreement` | |
| `…!ChangesAreAsked` | `CredentialChangedOnRequest` | |
| `…!CheckedFirst` | `OnlyWhatWasChecked` | |
| `ProxmoxInit_proofs!ReadyStays` | `[]ReadyWorks` | |
| `…!TokenIsHeld` | `[]NoTokenIsLost` | |

Type correctness is proved of every component: `TypeCorrect`, and in the modules
that hold several `DestroyTypeCorrect`, `DeployTypeCorrect`,
`RebuildTypeCorrect`, `ImportTypeCorrect`, `RecoveryTypeCorrect`. Nothing in the
runner's and the vault's theorems depends on the bounds of the runs: they hold
for any number of state files, dispatches, versions, commands, keys,
environments and mishaps, and with the job directory removed or kept. The
assumptions on constants in the third column are conditions the code does not
always meet, and the theorem says so by naming them: overlapping runs of a slot,
`fail_fast: false`, and state files that cannot be read each break the property.
The other assumptions (`OrderAssumption`, `ParentAssumption`, `StepAssumption`)
are what `validate_blueprint` and `topological_order` (`blueprint/schema.py`)
enforce; `FlatAssumption` (a subsumed step has no subsumed children) is enforced
by nobody but holds of every blueprint in the repository.

The arguments:

- **Lock.** `ClaimInv`: until the first breach, a process between `mkdir` and
  `rmdir` has its directory there; so no other `mkdir` succeeds, which gives
  exclusion. `VerdictInv`: until the first stale verdict nobody is clearing, so
  the owner file is that of its writer and every `rmdir` that succeeds is by the
  claimant itself. Exclusion alone is not inductive: nothing in it says the
  directory is there. For the refinement, `ServiceStep` maps each call to `Enter`,
  `Leave`, `Break` or a stutter: the `mkdir` is the entry, the removal of what is
  another's is the break. `TendedInv`: as long as nobody died, a directory without
  an owner file has somebody at work on it.
- **Session.** `ProtocolInv` (who is in a locked handler holds the lock; each
  copy is of the supervisor's own session with the status its next write gives)
  carries `SessionInv`: a copy that could revive a session is of one that has
  not finished, or was in the race that `raced` remembers; after the handler has
  written its supervisor is gone (`RacedInv`) and writes nothing more.
  `CancelInv` then says a cancelled session is finished and nobody is releasing
  it. `KeptInv`: a handler about to write under the lock has found its own
  record, or one that nobody supervises; only an exception handler of a release
  can change that before it writes.
- **Module state.** `Alone` (runs do not overlap) gives `DrivingInv`: a run that
  may be driving an apply has its own `running` in the file — this is the point of
  the required write before the driver call. `ProgressInv` ties what the driver
  has dealt with to the resources. `GuardInv` and `BindingInv`: past the guard,
  and wherever the slot names a backend, no other backend that was not left has
  anything. `PeekInv`: between the read and the write of `persist_mutation_state`
  the outputs in the file are those that were read. `BlameInv` needs no `Alone`.
- **Destroy.** `LostInv`: what was removed lies behind the loop. `Inside`: a child
  exists only in its parent. `FinishInv`: children are marked only over a parent
  that is gone. `ArchivedInv`: in archive mode the loop is entered with the
  archive only. `GateInv`: a gate the loop has passed has succeeded, or what it
  requires is not live; with `fail_fast` a failed gate ends the loop, without it
  this is false. `AccountInv`: what the loop passed and left standing is retained,
  excused, bypassed or deferred, unless the command has failed.
- **Deploy.** `PlaceInv`: steps ahead of the loop have no result. `IntervalInv`:
  versions only grow, so an open session that saw the present version has seen no
  change; with `StrictMeansSame` (a strict policy allows only an equal version)
  this gives `UnbrokenAuthority`. `DoneInv`: a result that claims a state stands
  over that state. `LoopInv`: the loop leaves no step without a result. `PassInv`:
  with `fail_fast` it goes on only after results it may go on after.
  `ForecastInv`: a state the preflight assumed is good now, is still to be made by
  a step ahead, or was made or failed in this deploy.
- **Rebuild.** `RebuildInv` holds the invariants of both halves at once, with
  `TurnInv` (one half runs at a time), `StandsInv` (a good state is over a marker
  a deploy left) and `RetainedInv`. `DestroyTurn`, the refinement, takes each step
  of the composition to a step of the destroy or to none. A module run is
  `Deploy(deployAt)`, and it is one because a child's parent is there when the
  child is made; that it is at a step, and the destroy idle then, are `PlaceInv`
  and `TurnInv`. So every theorem about destroys holds of rebuilds
  (`RebuildKeepsDestroy`), and `AccountInv` may be used in the midst of one: with
  `ModeInv` (the mode is the one the rebuild gave) it says at the return of an
  `ok` destroy that a step still there is spared or retained. That is
  `RenewedInv`, which the deploy half keeps: it skips a step only in a good state,
  and what is good then is either retained or made since.
- **Runner.** The record of what a dispatch made is in its job directory, then on
  its way, then in the stage, then in a local file that is first truncated.
  `ShapeInv` says which of these exist at which step, `VersionInv` that no record
  is of a version nobody made, `UnpackedInv` how far the unpacking and the repair
  have come in each file, unless others wrote it since. `LatestInv`: a dispatch
  nobody has overtaken carries the latest version, so it can replace the local
  file without harm. `MadeInv`: who made the latest version still has it, in the
  copy, the result or the stage, unless cut off. `LandedInv`: once it is unpacked,
  or made here, the local file has it, or whoever tore the file has it in the
  stage. `PathInv` and `HeldInv` go together: a path of another's job reaches a
  file only from a copy of a file that had it, and the owner is then still to mend
  it.
- **Secrets.** `ReadInv`: a command that nobody has disturbed since it read the
  file is about to write over what it read, and an `ensure` brings only keys the
  file has not. `AgreeInv`: what it has brought home or away is there, key by key
  as `todo` empties; a HashiCorp secret written whole carries for its other keys
  what is there already.
- **Recovery.** `CheckedInv`: each of the three facts the checks establish (no
  other environment has a file, the backup holds the file, nothing uses it) stays
  true in a recovery, or what made it untrue is in `late`: a deploy has
  read the credentials, and is noted, before its state says `ok` (`UncountedInv`).
- **Lab capture.** `CandidateInv`: candidates are of their capture, it has all of
  them from its reading to its moving, and the primary archive is moved last.
  `StillInv`: while `tar` is at the node state nodes run only if they were started
  since it began. `OneInv`: a capture that overlaps no other finds what it has
  moved in place. `AbsentInv`: without `--force` it finds the places it has yet
  to fill empty.
- **Lab import.** `StagedInv`: no part under its name is bad, and an import past
  its copies has the whole bundle, which stays whole under every other import
  (`WholeStays`). `AloneInv`: an import that has met no other publishes alone, and
  the files it has written are still its own. `SeenInv`: an import past its
  decision has `--force`, or read no record of another bundle.
- **Proxmox.** `FreshInv`: a secret that a command is bringing home is nobody
  else's. `WorkInv`: a credentials file, and a command past `Validate`, has the
  host's secret or a revoked one. `HeldInv`: a token that the host has is with its
  maker, who has not been interrupted, until the vault has it, or `lost` says so.

Every safety invariant and every action property of the runs is a theorem. Two
more, `ReplacedByForceOnly` and `RecordReplacedByForce`, are proved and in no run:
they say that the check for `--force` made at the start still holds at the
replacement, and the runs spend their time on the properties above.
Checked by TLC only are the two liveness properties, `OverdueSessionSettles` and
`RecoveryEnds`: they need fairness and `ENABLED`, which is beyond this prover.
`FairSpec` and the fairness in `RecoverySpec` matter to those two only.

## 5 What the code does not keep

No run expects a violation. What follows was met while modelling: where a stronger
property would fail, and why the one that is run has an exception. Definitions
named here that no run checks are kept in the modules with that comment.

1. *A robbed lock* (`MutualExclusion`, `access_session.py:284`). `_clear_stale`
   judges a lock and then removes it by path. A third process that cleared the
   same dead lock and took it in between is robbed, and two operations run.
2. *A cancel that is misreported* (`CancelIsFinal`, `command.py:2819`). Whatever
   raises in the release, a state file that cannot be read while the record still
   says active included, leads to a handler that writes `retained-after-failure`
   over the record as it then is, without the lock: over that of a session that
   was cancelled or closed in between, whose outcome is then misreported, and over
   that of a session started in between, which is lost. An extend or a release
   that had loaded the record before and writes after brings the ended session
   back (`raced`).
3. *An extension that comes late* (`NoReleaseBeforeDeadline`, `command.py:2766`).
   The release reloads the record but not the deadline: a session extended in the
   last second is released at its old deadline.
4. *Overlapping runs of a slot* (`QuietTerminalMeansGone`, `_apply_execute.py:569`).
   The later writer wins: a destroy writes `destroyed` over what an apply has
   begun to create, and the next destroy passes it by.
5. *A forgotten backend* (`_apply_execute.py:202`). The `running` and `error`
   markers do not carry the binding, so the guard of the run after a failed one
   finds none and lets any workspace through (`left`).
6. *`ok` without outputs* (`_internal/execution.py:268`). When `terragrunt output`
   fails after a good apply, the slot is published `ok` with no outputs.
7. *A denial that is forgotten* (`DeniedNeverTrusted`, `command.py:5442`). A step
   whose completion is denied for drift has already published `ok`; the next
   deploy skips it over a new interval that begins after the drift.
8. *A preflight that looks no further* (`planner.py:330`). Steps behind a blocked
   optional step are deferred and never checked, and a step that the preflight
   would skip may be refused in the deploy: the forecast is of ready steps only.
9. *State lost with the job* (`runner/command.py:1076`). When the fetch fails or
   Ctrl-C comes before it, `finally` removes the job directory with the only
   record of what the remote deploy made. State fetched back replaces what local
   commands wrote meanwhile (`:633`).
10. *A forced capture* that ends between its moves leaves parts of two captures
    (`migration.py:2109`), and one without node state or images leaves those of
    another capture beside its primary archive (`SetIsOfOneCapture`). Nodes started
    while `tar` reads go unseen (`:1247`).
11. *A lost update* (`runtime/vault.py:408`). Of two commands that add secrets at
    once one may lose its own.
12. *Checks before a question* (`vault/recovery.py:241`). What is deployed or
    written while the operator is asked is not looked at again. The check itself
    (`:62-76`) counts only readable states that say `ok`, of the steps of one
    blueprint: resources behind an `error`, a `running` or an unreadable state, or
    of another blueprint, lose their credentials (`NoResourceOrphaned`).
13. *A clean-up by name* (`bootstrap-proxmox-remote.sh:159`). A script that made
    the user or a token takes down whatever has that name later, another
    command's included; and a command that is cut off after the token was made
    leaves one nobody can use until `--force`. So does a command that was interrupted
    or timed out earlier (`proxmox.py:1111`): ssh has no terminal, the script goes
    on and makes a token that nobody knows. An environment's own credentials
    file is not searched for the secret.
14. *A temporary file* of a process killed inside `write_json_atomic`
    (`runtime/state.py:25`) keeps the lock directory from being removed.
15. *An override that was taken back* (`OkMeansAsDeclared`, `contracts.py:114`).
    Only inputs that are given are compared with those of the last run: a step
    whose override was removed or cleared is skipped over its old value, and the
    deploy says `ok`. So is a step whose last inputs cannot be read (`:226`).
16. *A path into a removed job* (`NoPathAtAllOfEndedJob`, `runner/command.py:447`).
    The repair leaves `resolved_inputs_file`; the readers of a state
    (`contracts.py:80`) fall back to the other paths. An error in the unpacking
    or the repair ends the dispatch over torn or unrepaired files, with the archive
    still in the stage.
17. *A value without its newline* (`OkMeansEqual`, `secrets/command.py:1306`).
    `secrets set --from-file` keeps the file's last newline, `gsm persist` and the
    syncs strip it: the file and the authority differ after an `ok`.

## 6 Not modelled

Parsing and validation (schema, validators), the other init targets, evidence and
log files, progress display, templates of automation access, the user commands:
I/O or data without protocol, or external programs. The module state contracts
and the resolution of inputs are rules over data, one per module; the deploy
model takes their outcome. Apply with dependencies and the stop state are not
modelled yet. Within the modelled parts:

- *Blueprints*: the evidence of the archive step, a subsumed step nested in
  another, module runs that overlap a blueprint command (that is `ModuleState`
  with `Serial = FALSE`), and the copy of the session record in a run's log
  directory.
- *Module state*: the legacy state aliases, the GCP object-repo slot guard, state
  unlock (it writes nothing of the program's own), the Ansible and Packer drivers
  beyond their outcome.
- *Runner*: the projection of SSH keys and the hints.
- *Lab*: what is in an archive and its inspection; GNS3 and Containerlab capture,
  which have one part.
- *Secrets*: reading commands, value formats but for surrounding white space,
  authentication.
- *Recovery*: a writer that read the password before the reset and writes after
  it; two operators who recover at once.
- *Proxmox init*: discovery of storage and bridges, templates, address detection;
  different user or token names in the environments.

## 7 Plan

What would come next, in the order of what matters most:

1. **ApplyDeps** (`_apply_helpers.py:356`, `apply.py:150`): dependency order as
   a function, checked against the reachability definition; the loop over slots
   with the `partial` markers of `ModuleState`.
2. **StopState** (`stop_state.py:398-566`): `evaluate_stop_state` as operators,
   checked against its documented classes over small manifests.
3. The other init targets, which write the same pair of credentials file and
   readiness marker as `ProxmoxInit` without its remote half.
4. A second slot in `ModuleState`: a module that imports another's outputs.

## Files and tools

`tlc -config MCX.cfg MCX.tla` checks an instance, `tlapm X_proofs.tla` a proof
module (half a minute to two minutes each, `RunnerDispatch_proofs` and
`Blueprint_proofs` the longest). The theorems need Z3, Zenon and LS4; of the
library modules only `TLC` (for symmetry sets) and the standard ones are used.
