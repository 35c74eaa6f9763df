---------------------------- MODULE VaultRecovery ----------------------------
(* vault/recovery.py:run_recover replaces the key and the password of the     *)
(* local vault when they are lost, and bootstrap of vault-pass.sh makes them. *)
(* One operator runs the two commands; other terminals deploy and write the   *)
(* vault files meanwhile.  A key is known by its relation to the others, so   *)
(* no identities pile up: the one secret key, or one that is gone.            *)
EXTENDS Naturals

CONSTANTS
    Envs,         \* environments that share the password of this workstation
    Selected,     \* the one a recovery is for
    Passwords,    \* what an operator may type
    None,
    MaxMishaps    \* bound: keys lost, commands cut off, entries reset, states spoilt

ASSUME EnvsAssumption == Selected \in Envs
ASSUME PasswordsAssumption == None \notin Passwords
ASSUME MishapsAssumption == MaxMishaps \in Nat

VARIABLES
    key,        \* the secret key of the keyring, which may be inaccessible
    gpgId,      \* what .gpg-id names
    entry,      \* the stored password and the key it is encrypted for
    vaults,     \* the password each environment's file is encrypted with
    saved,      \* the backup holds the selected file as it is
    deployed,   \* resources use the credentials of the selected file
    counted,    \* a readable state of a step of the blueprint that the recovery
                \* is given says exactly "ok"
    consuming,  \* a deploy that has read them and has not finished
    at,         \* the step the operator's command is at
    job,        \* which command it is
    late,       \* history: what happened since a recovery made its checks
    mishaps

recoveryVars == <<key, gpgId, entry, vaults, saved, deployed, counted, consuming, at, job, late,
                  mishaps>>

NoEntry == [password |-> None, of |-> "key"]
Others  == Envs \ {Selected}

RecoverSteps   == {"confirm", "backup", "reset", "forget", "secret", "public", "unlink",
                   "ensure"}
BootstrapSteps == {"key", "init", "insert"}

RecoveryTypeOK ==
    /\ key \in {"none", "public", "usable", "lost"}
    /\ gpgId \in {"none", "key", "old"}
    /\ entry \in [password : Passwords \cup {None}, of : {"key", "old"}]
    /\ vaults \in [Envs -> Passwords \cup {None}]
    /\ saved \in BOOLEAN
    /\ deployed \in {"no", "matching", "orphaned"}
    /\ counted \in BOOLEAN
    /\ deployed = "no" => counted = FALSE
    /\ consuming \in {"no", "same", "changed"}
    /\ at \in {"idle"} \cup RecoverSteps \cup BootstrapSteps
    /\ job \in {"none", "recover", "bootstrap"}
    /\ at = "idle" <=> job = "none"
    /\ at \in RecoverSteps => job = "recover"
    /\ late \in SUBSET {"vault", "write", "deploy"}
    /\ mishaps \in 0..MaxMishaps

RecoveryInit ==
    /\ key = "none" /\ gpgId = "none" /\ entry = NoEntry
    /\ vaults = [e \in Envs |-> None]
    /\ saved = FALSE
    /\ deployed = "no" /\ counted = FALSE /\ consuming = "no"
    /\ at = "idle" /\ job = "none"
    /\ late = {}
    /\ mishaps = 0

CanDecrypt == entry.password # None /\ entry.of = "key" /\ key = "usable"
Opens(e)   == CanDecrypt /\ vaults[e] = entry.password

world == <<key, gpgId, entry, vaults, saved, deployed, counted, consuming, mishaps>>
RecoveryStep(from, to) == at = from /\ at' = to /\ UNCHANGED <<job, late>>
Stop == at' = "idle" /\ job' = "none" /\ late' = {}
Note(what) == late' = IF job = "recover" THEN late \cup {what} ELSE late

-----------------------------------------------------------------------------
(* run_recover *)

\* Mutant of Check: what runs on the credentials is not looked at.
Check_Unaware ==
    /\ at = "idle"
    /\ \A e \in Others : vaults[e] = None
    /\ gpgId = "key" /\ key \in {"usable", "lost"}
    /\ at' = "confirm" /\ job' = "recover"
    /\ late' = IF consuming = "no" THEN {} ELSE {"deploy"}
    /\ UNCHANGED world

\* _configured_secret_consumers, which leaves out a state that cannot be read or
\* says anything but "ok", _other_environment_vaults and the identity of the
\* password store, a secret key of ours; then the operator is asked.
Check ==
    /\ at = "idle"
    /\ ~counted
    /\ \A e \in Others : vaults[e] = None
    /\ gpgId = "key" /\ key \in {"usable", "lost"}
    /\ at' = "confirm" /\ job' = "recover"
    /\ late' = IF consuming = "no" THEN {} ELSE {"deploy"}
    /\ UNCHANGED world

Confirm == RecoveryStep("confirm", "backup") /\ UNCHANGED world

Backup ==
    /\ RecoveryStep("backup", "reset")
    /\ saved' = TRUE
    /\ UNCHANGED <<key, gpgId, entry, vaults, deployed, counted, consuming, mishaps>>

Reset ==
    /\ RecoveryStep("reset", "forget")
    /\ entry' = NoEntry
    /\ UNCHANGED <<key, gpgId, vaults, saved, deployed, counted, consuming, mishaps>>

\* Mutant of ForgetIdentity: .gpg-id outlives the key it names.
ForgetIdentity_Keeps == RecoveryStep("forget", "secret") /\ UNCHANGED world

ForgetIdentity ==
    /\ RecoveryStep("forget", "secret")
    /\ gpgId' = "none"
    /\ UNCHANGED <<key, entry, vaults, saved, deployed, counted, consuming, mishaps>>

DeleteSecretKey ==
    /\ RecoveryStep("secret", "public")
    /\ key' = "public"
    /\ gpgId' = IF gpgId = "key" THEN "old" ELSE gpgId
    /\ entry' = [entry EXCEPT !.of = IF entry.password = None THEN @ ELSE "old"]
    /\ UNCHANGED <<vaults, saved, deployed, counted, consuming, mishaps>>

DeletePublicKey ==
    /\ RecoveryStep("public", "unlink")
    /\ key' = "none"
    /\ UNCHANGED <<gpgId, entry, vaults, saved, deployed, counted, consuming, mishaps>>

\* What was made from the credentials of the file has them to itself.
UnlinkVault ==
    /\ RecoveryStep("unlink", "key")
    /\ vaults' = [vaults EXCEPT ![Selected] = None]
    /\ deployed' = IF deployed = "matching" THEN "orphaned" ELSE deployed
    /\ consuming' = IF consuming = "same" THEN "changed" ELSE consuming
    /\ UNCHANGED <<key, gpgId, entry, saved, counted, mishaps>>

\* secrets ensure, in its own process; read_env fails on a file the new
\* password does not open.
EnsureSecrets ==
    /\ at = "ensure"
    /\ CanDecrypt /\ vaults[Selected] \in {None, entry.password}
    /\ vaults' = [vaults EXCEPT ![Selected] = entry.password]
    /\ saved' = FALSE
    /\ Stop
    /\ UNCHANGED <<key, gpgId, entry, deployed, counted, consuming, mishaps>>

EnsureFails ==
    /\ at = "ensure"
    /\ ~(CanDecrypt /\ vaults[Selected] \in {None, entry.password})
    /\ Stop
    /\ UNCHANGED world

-----------------------------------------------------------------------------
(* vault-pass.sh --bootstrap, by itself and within a recovery *)

StartBootstrap ==
    /\ at = "idle"
    /\ at' = "key" /\ job' = "bootstrap"
    /\ UNCHANGED <<world, late>>

EnsureKey ==
    /\ RecoveryStep("key", "init")
    /\ key' = IF key \in {"none", "public"} THEN "usable" ELSE key
    /\ UNCHANGED <<gpgId, entry, vaults, saved, deployed, counted, consuming, mishaps>>

EnsurePassInit ==
    /\ RecoveryStep("init", "insert")
    /\ gpgId' = IF gpgId = "none" THEN "key" ELSE gpgId
    /\ UNCHANGED <<key, entry, vaults, saved, deployed, counted, consuming, mishaps>>

\* Mutant of Insert: the bootstrap is all there is.
Insert_IsAll(p) ==
    /\ at = "insert" /\ gpgId = "key"
    /\ entry' = [password |-> p, of |-> "key"]
    /\ at' = "idle"
    /\ UNCHANGED <<job, late, key, gpgId, vaults, saved, deployed, counted, consuming, mishaps>>

\* An entry that exists is overwritten: the password comes through a pipe.
\* Nothing can be encrypted for a key that is gone.
Insert(p) ==
    /\ at = "insert"
    /\ entry' = IF gpgId = "key" THEN [password |-> p, of |-> "key"] ELSE entry
    /\ IF job = "recover" /\ gpgId = "key" THEN RecoveryStep("insert", "ensure") ELSE Stop
    /\ UNCHANGED <<key, gpgId, vaults, saved, deployed, counted, consuming, mishaps>>

-----------------------------------------------------------------------------
(* What else happens *)

Mishap == mishaps < MaxMishaps /\ mishaps' = mishaps + 1

\* The passphrase is forgotten.
LoseKey ==
    /\ Mishap
    /\ key = "usable" /\ key' = "lost"
    /\ UNCHANGED <<gpgId, entry, vaults, saved, deployed, counted, consuming, at, job, late>>

\* hyops vault reset.
ResetCommand ==
    /\ Mishap
    /\ at = "idle"
    /\ entry' = NoEntry
    /\ UNCHANGED <<key, gpgId, vaults, saved, deployed, counted, consuming, at, job, late>>

\* A step fails or is interrupted, the operator does not confirm, or dies.
CutOff ==
    /\ Mishap
    /\ at # "idle"
    /\ Stop
    /\ UNCHANGED <<key, gpgId, entry, vaults, saved, deployed, counted, consuming>>

\* secrets set or ensure from another terminal.
WriteVault(e) ==
    /\ CanDecrypt /\ vaults[e] \in {None, entry.password}
    /\ vaults' = [vaults EXCEPT ![e] = entry.password]
    /\ saved' = IF e = Selected THEN FALSE ELSE saved
    /\ Note(IF e = Selected THEN "write" ELSE "vault")
    /\ UNCHANGED <<key, gpgId, entry, deployed, counted, consuming, at, job, mishaps>>

DeployReads ==
    /\ consuming = "no" /\ Opens(Selected)
    /\ consuming' = "same"
    /\ Note("deploy")
    /\ UNCHANGED <<key, gpgId, entry, vaults, saved, deployed, counted, at, job, mishaps>>

\* A step of the blueprint is about to call its driver: its state says "running",
\* over whatever is there.
DeployRuns ==
    /\ consuming # "no"
    /\ counted /\ counted' = FALSE
    /\ UNCHANGED <<key, gpgId, entry, vaults, saved, deployed, consuming, at, job, late,
                   mishaps>>

\* What a deploy makes has the credentials it has read.
Made == IF consuming = "same" THEN "matching" ELSE "orphaned"

\* The steps may be of another blueprint, which nobody counts.
DeploySucceeds ==
    /\ consuming # "no" /\ consuming' = "no"
    /\ deployed' = Made
    /\ counted' \in {counted, TRUE}
    /\ UNCHANGED <<key, gpgId, entry, vaults, saved, at, job, late, mishaps>>

\* Whatever the driver made is there, and uses the credentials; the state says
\* "error", or "running" for good.
DeployFails ==
    /\ consuming # "no" /\ consuming' = "no"
    /\ deployed' \in {deployed, Made}
    /\ counted' \in {counted, FALSE}
    /\ UNCHANGED <<key, gpgId, entry, vaults, saved, at, job, late, mishaps>>

Destroy ==
    /\ deployed # "no" /\ deployed' = "no"
    /\ counted' = FALSE
    /\ UNCHANGED <<key, gpgId, entry, vaults, saved, consuming, at, job, late, mishaps>>

\* Some of it is still there, behind an "error".
DestroyFails ==
    /\ counted /\ counted' = FALSE
    /\ UNCHANGED <<key, gpgId, entry, vaults, saved, deployed, consuming, at, job, late,
                   mishaps>>

\* A state file that can no longer be read.
StateSpoilt ==
    /\ Mishap
    /\ counted /\ counted' = FALSE
    /\ UNCHANGED <<key, gpgId, entry, vaults, saved, deployed, consuming, at, job, late>>

Elsewhere ==
    \/ LoseKey \/ ResetCommand \/ CutOff \/ StateSpoilt
    \/ \E e \in Envs : WriteVault(e)
    \/ DeployReads \/ DeployRuns \/ DeploySucceeds \/ DeployFails
    \/ Destroy \/ DestroyFails

CommandStep ==
    \/ Confirm \/ Backup \/ Reset \/ ForgetIdentity \/ DeleteSecretKey \/ DeletePublicKey
    \/ UnlinkVault \/ EnsureSecrets \/ EnsureFails
    \/ EnsureKey \/ EnsurePassInit
    \/ \E p \in Passwords : Insert(p)

RecoveryNext == Check \/ StartBootstrap \/ CommandStep \/ Elsewhere

\* A command that has begun goes on, and the operator tries both of them again
\* for as long as they are refused or fail.
Fairness ==
    /\ WF_recoveryVars(CommandStep)
    /\ SF_recoveryVars(Check) /\ SF_recoveryVars(StartBootstrap)

RecoverySpec == RecoveryInit /\ [][RecoveryNext]_recoveryVars /\ Fairness

-----------------------------------------------------------------------------

\* A recovery changes the stored password, which every environment shares, only
\* while no other environment has a file, and removes the file of its own only
\* with its content in the backup and with no step of its blueprint in a state
\* that says "ok"; what other terminals did after the checks, during the question
\* or later, is the exception.
OnlyWhatWasChecked ==
    [][job = "recover" =>
         /\ entry'.password # entry.password
              => (\A e \in Others : vaults[e] = None) \/ "vault" \in late
         /\ vaults[Selected] # None /\ vaults'[Selected] = None
              => /\ saved \/ "write" \in late
                 /\ ~counted \/ "deploy" \in late]_recoveryVars

\* No resource is left with the credentials of a file that a recovery removed.
\* This does not hold of the code: a state that says "error" or "running" over
\* resources, a state that cannot be read and the steps of other blueprints are
\* not counted.
NoResourceOrphaned ==
    [][job = "recover" /\ deployed = "matching" =>
         deployed' # "orphaned" \/ "deploy" \in late]_recoveryVars

\* Wherever a recovery stops, the two commands tried again bring the selected
\* environment a vault that opens, unless they refuse for good because of another
\* environment's file or of a state that says "ok".
RecoveryEnds ==
    []<>\/ Opens(Selected)
        \/ counted
        \/ \E e \in Others : vaults[e] # None

=============================================================================
