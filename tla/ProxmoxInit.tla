----------------------------- MODULE ProxmoxInit -----------------------------
(* init/targets/proxmox.py:run and the script it runs on the Proxmox host.    *)
(* Environments share one API token of the host.  Each keeps the token's      *)
(* secret in its vault and in its credentials file; the host tells a secret   *)
(* once, when it makes the token.  A run takes the secret it finds, adopts    *)
(* that of another environment or has the host make one.  The names of the    *)
(* host, the user and the token are the same for all environments here; runs  *)
(* whose password source is missing are refused before they change anything.  *)
(* The script runs over ssh without a terminal: a command that is interrupted *)
(* or out of time ends, and its script may run on.                            *)
CONSTANTS
    Runs,       \* commands that may be under way at once
    Envs,
    Secrets,    \* bound: secrets that are in use at once
    None

ASSUME SecretsAssumption == None \notin Secrets

VARIABLES
    user,       \* the host has the API user
    token,      \* the secret of the host's token, None when it has no token
    vault,      \* PROXMOX_TOKEN_SECRET in the vault of each environment
    creds,      \* proxmox_token_secret in its credentials file
    ready,      \* proxmox.ready.json is there
    pc,
    job,        \* environment of each command, its --force, and whether it is
                \* gone and what it started on the host runs on
    secret,     \* token_secret of each command
    made,       \* USER_CREATED and TOKEN_CREATED of its remote script
    revoked,    \* history: secrets replaced by a command with --force, or taken
                \* down by the clean-up of a command that had not made them
    lost        \* history: the host's token is one whose maker stopped or could
                \* not take it down, or whose vault file was removed or overtaken

host    == <<user, token>>
files   == <<vault, creds, ready>>
command == <<pc, job, secret, made>>
history == <<revoked, lost>>
vars    == <<host, files, command, history>>

Jobs == [env : Envs, force : BOOLEAN, cut : BOOLEAN]

Script == {"user", "list", "remove", "add", "acl", "return", "trap"}
Steps  == {"check", "search", "adopt", "plan", "persist", "rollback", "validate", "write",
           "mark"} \cup Script

TypeOK ==
    /\ user \in BOOLEAN /\ token \in Secrets \cup {None}
    /\ vault \in [Envs -> Secrets \cup {None}]
    /\ creds \in [Envs -> Secrets \cup {None}]
    /\ ready \in [Envs -> BOOLEAN]
    /\ pc \in [Runs -> {"idle"} \cup Steps]
    /\ job \in [Runs -> Jobs \cup {None}]
    /\ \A r \in Runs : pc[r] # "idle" => job[r] \in Jobs
    /\ secret \in [Runs -> Secrets \cup {None}]
    /\ made \in [Runs -> SUBSET {"user", "token"}]
    /\ revoked \in SUBSET Secrets /\ lost \in BOOLEAN

Init ==
    /\ user = FALSE /\ token = None
    /\ vault = [e \in Envs |-> None] /\ creds = [e \in Envs |-> None]
    /\ ready = [e \in Envs |-> FALSE]
    /\ pc = [r \in Runs |-> "idle"] /\ job = [r \in Runs |-> None]
    /\ secret = [r \in Runs |-> None] /\ made = [r \in Runs |-> {}]
    /\ revoked = {} /\ lost = FALSE

Env(r)    == job[r].env
Forced(r) == job[r].force
Cut(r)    == job[r].cut

Goto(r, step) == pc' = [pc EXCEPT ![r] = step]

\* A command that ends forgets what it had in hand.
End(r) ==
    /\ Goto(r, "idle")
    /\ job' = [job EXCEPT ![r] = None]
    /\ secret' = [secret EXCEPT ![r] = None]
    /\ made' = [made EXCEPT ![r] = {}]

-----------------------------------------------------------------------------
(* The secret a command starts from                                          *)

\* The vault is read.  With --no-remote there are only the secret in it and the
\* node that an earlier run left in the readiness marker.
Begin(r, j) ==
    /\ pc[r] = "idle" /\ ~j.cut
    /\ job' = [job EXCEPT ![r] = j]
    /\ secret' = [secret EXCEPT ![r] = vault[j.env]]
    /\ \/ Goto(r, IF j.force THEN "plan" ELSE IF vault[j.env] = None THEN "search" ELSE "check")
       \/ ready[j.env] /\ vault[j.env] # None /\ Goto(r, "validate")
    /\ UNCHANGED <<host, files, made, history>>

\* The host's API takes the secret, or it does not, or it cannot be reached.
Check(r) ==
    /\ pc[r] = "check"
    /\ \/ secret[r] = token /\ Goto(r, "plan")
       \/ Goto(r, "search")
    /\ UNCHANGED <<host, files, job, secret, made, history>>

\* What the credentials and the vault of the other environments offer.
Offered(r) == {vault[e] : e \in {o \in Envs \ {Env(r)} : creds[o] # None}}
              \cup {creds[e] : e \in Envs \ {Env(r)}}

\* _find_reusable_proxmox_token_secret tries what others have until the host
\* takes one; an operator may decline it, or the host be out of reach.
Search(r) ==
    /\ pc[r] = "search"
    /\ \/ /\ token # None /\ token \in Offered(r)
          /\ secret' = [secret EXCEPT ![r] = token]
          /\ Goto(r, "adopt")
       \/ /\ secret' = [secret EXCEPT ![r] = None]
          /\ Goto(r, "plan")
    /\ UNCHANGED <<host, files, job, made, history>>

\* merge_set.  What it overtakes may be the one copy of the token's secret.
Merge(r) ==
    /\ vault' = [vault EXCEPT ![Env(r)] = secret[r]]
    /\ lost' = (lost \/ (token # None /\ vault[Env(r)] = token /\ secret[r] # token))

\* The adopted secret goes to the vault.
Adopt(r) ==
    /\ pc[r] = "adopt"
    /\ Merge(r)
    /\ Goto(r, "plan")
    /\ UNCHANGED <<host, creds, ready, job, secret, made, revoked>>

\* An unattended run of an environment that is ready leaves the host alone,
\* with --force too; it must have a secret, an attended one need not.
Plan(r) ==
    /\ pc[r] = "plan"
    /\ \/ ready[Env(r)] /\ secret[r] # None /\ Goto(r, "validate")
       \/ Goto(r, "user")
    /\ UNCHANGED <<host, files, job, secret, made, history>>

\* Any check up to here may refuse: no secret, a vault that cannot be read or
\* written, a host without SSH, an operator who declines.
Refuse(r) ==
    /\ pc[r] \in {"check", "search", "adopt", "plan"}
    /\ End(r)
    /\ UNCHANGED <<host, files, history>>

-----------------------------------------------------------------------------
(* bootstrap-proxmox-remote.sh                                                *)

EnsureUser(r) ==
    /\ pc[r] = "user"
    /\ user' = TRUE
    /\ made' = [made EXCEPT ![r] = IF user THEN @ ELSE @ \cup {"user"}]
    /\ Goto(r, "list")
    /\ UNCHANGED <<token, files, job, secret, history>>

\* A plausible slip: an existing token is replaced whoever asks.
List_Rotates(r) ==
    /\ pc[r] = "list"
    /\ \/ /\ token # None
          /\ Goto(r, IF secret[r] # None /\ ~Forced(r) THEN "acl" ELSE "remove")
       \/ /\ token = None
          /\ Goto(r, IF secret[r] # None /\ ~Forced(r) THEN "trap" ELSE "add")
    /\ UNCHANGED <<host, files, job, secret, made, history>>

\* A secret in hand needs a token (SKIP_TOKEN_GEN), and a token that is there
\* is not replaced without --force (ALLOW_TOKEN_ROTATION).
List(r) ==
    /\ pc[r] = "list"
    /\ \/ /\ token # None
          /\ Goto(r, IF Forced(r) THEN "remove" ELSE IF secret[r] # None THEN "acl" ELSE "trap")
       \/ /\ token = None
          /\ Goto(r, IF secret[r] # None /\ ~Forced(r) THEN "trap" ELSE "add")
    /\ UNCHANGED <<host, files, job, secret, made, history>>

\* The removal may fail; the token is still there for Add then.
Remove(r) ==
    /\ pc[r] = "remove"
    /\ \/ /\ token' = None
          /\ revoked' = IF Forced(r) THEN revoked \cup ({token} \ {None}) ELSE revoked
          /\ lost' = FALSE
       \/ UNCHANGED <<token, history>>
    /\ Goto(r, "add")
    /\ UNCHANGED <<user, files, job, secret, made>>

\* What somebody has, or may still have, is not made again.
InUse == {token} \cup {vault[e] : e \in Envs} \cup {creds[e] : e \in Envs}
         \cup {secret[r] : r \in Runs}

\* The host makes a token unless there is one by now, or the user is gone.
Add(r) ==
    /\ pc[r] = "add" /\ user /\ token = None
    /\ \E s \in Secrets \ InUse :
          /\ token' = s
          /\ secret' = [secret EXCEPT ![r] = s]
          /\ revoked' = revoked \cap InUse
    /\ made' = [made EXCEPT ![r] = @ \cup {"token"}]
    /\ lost' = Cut(r)
    /\ Goto(r, "acl")
    /\ UNCHANGED <<user, files, job>>

Grant(r) ==
    /\ pc[r] = "acl" /\ user
    /\ Goto(r, "return")
    /\ UNCHANGED <<host, files, job, secret, made, history>>

\* Any command of the script may fail, and the exports when nobody reads them;
\* its EXIT trap comes next.
ScriptFails(r) ==
    /\ pc[r] \in {"user", "list", "add", "acl"} \/ (pc[r] = "return" /\ Cut(r))
    /\ Goto(r, "trap")
    /\ UNCHANGED <<host, files, job, secret, made, history>>

\* r has made the token and nobody else knows its secret.
Alone(r) == "token" \in made[r] /\ secret[r] = token

\* Removals by name of what this command has made, each of which may fail;
\* with the user goes its token.
Undo(r) ==
    \E gone \in SUBSET made[r] :
        /\ user' = (user /\ "user" \notin gone)
        /\ token' = IF gone = {} THEN token ELSE None
        /\ revoked' = IF gone = {} \/ token = None \/ Alone(r) THEN revoked
                      ELSE revoked \cup {token}
        /\ lost' = (gone = {} /\ (lost \/ Alone(r)))

Trap(r) ==
    /\ pc[r] = "trap"
    /\ Undo(r)
    /\ End(r)
    /\ UNCHANGED files

\* The exports of the script have arrived.
Return(r) ==
    /\ pc[r] = "return" /\ ~Cut(r)
    /\ Goto(r, IF "token" \in made[r] THEN "persist" ELSE "validate")
    /\ UNCHANGED <<host, files, job, secret, made, history>>

-----------------------------------------------------------------------------
(* What a command leaves                                                      *)

\* The new secret goes to the vault.
Persist(r) ==
    /\ pc[r] = "persist"
    /\ Merge(r)
    /\ Goto(r, "validate")
    /\ UNCHANGED <<host, creds, ready, job, secret, made, revoked>>

\* A plausible slip: the failure is reported and nothing is rolled back.
PersistFails_Reports(r) ==
    /\ pc[r] = "persist"
    /\ End(r)
    /\ UNCHANGED <<host, files, history>>

\* The vault was probed before, and still cannot be written now.
PersistFails(r) ==
    /\ pc[r] = "persist"
    /\ Goto(r, "rollback")
    /\ UNCHANGED <<host, files, job, secret, made, history>>

Rollback(r) ==
    /\ pc[r] = "rollback"
    /\ Undo(r)
    /\ End(r)
    /\ UNCHANGED files

\* The token and its access to the storage are tried before anything is
\* written.
Validate(r) ==
    /\ pc[r] = "validate"
    /\ secret[r] = token
    /\ Goto(r, "write")
    /\ UNCHANGED <<host, files, job, secret, made, history>>

ValidateFails(r) ==
    /\ pc[r] = "validate"
    /\ End(r)
    /\ UNCHANGED <<host, files, history>>

WriteCreds(r) ==
    /\ pc[r] = "write"
    /\ creds' = [creds EXCEPT ![Env(r)] = secret[r]]
    /\ Goto(r, "mark")
    /\ UNCHANGED <<host, vault, ready, job, secret, made, history>>

Mark(r) ==
    /\ pc[r] = "mark"
    /\ ready' = [ready EXCEPT ![Env(r)] = TRUE]
    /\ End(r)
    /\ UNCHANGED <<host, vault, creds, history>>

\* What r has made and not yet put away is lost with it.
Abandon(r) ==
    lost' = (lost \/ (Alone(r) /\ pc[r] \in Script \cup {"persist", "rollback"}))

\* A timeout, a Ctrl-C or a lost connection ends the command alone.
Interrupted(r) ==
    /\ pc[r] \in Script \cup {"rollback"} /\ ~Cut(r)
    /\ job' = [job EXCEPT ![r].cut = TRUE]
    /\ Abandon(r)
    /\ UNCHANGED <<host, files, pc, secret, made, revoked>>

\* The command ends here, and what it runs on the host with it; so does a script
\* that has run on to its end.  What was made stays.  Credentials that were being
\* written are cut short.
Stops(r) ==
    /\ pc[r] # "idle"
    /\ \/ UNCHANGED creds
       \/ pc[r] = "write" /\ creds' = [creds EXCEPT ![Env(r)] = None]
    /\ Abandon(r)
    /\ End(r)
    /\ UNCHANGED <<host, vault, ready, revoked>>

\* A vault recovery unlinks the vault file.
Forget(e) ==
    /\ vault[e] # None
    /\ vault' = [vault EXCEPT ![e] = None]
    /\ lost' = (lost \/ vault[e] = token)
    /\ UNCHANGED <<host, creds, ready, command, revoked>>

Next ==
    \/ \E r \in Runs :
          \/ \E j \in Jobs : Begin(r, j)
          \/ Check(r) \/ Search(r) \/ Adopt(r) \/ Plan(r) \/ Refuse(r)
          \/ EnsureUser(r) \/ List(r) \/ Remove(r) \/ Add(r) \/ Grant(r)
          \/ ScriptFails(r) \/ Trap(r) \/ Return(r)
          \/ Persist(r) \/ PersistFails(r) \/ Rollback(r)
          \/ Validate(r) \/ ValidateFails(r) \/ WriteCreds(r) \/ Mark(r)
          \/ Interrupted(r) \/ Stops(r)
    \/ \E e \in Envs : Forget(e)

Spec == Init /\ [][Next]_vars

-----------------------------------------------------------------------------
\* An environment that is ready and has its credentials can use the host,
\* unless a command with --force replaced the token, or a command that had
\* made the user or a token cleaned up after another had made its own.
ReadyWorks ==
    \A e \in Envs :
        ready[e] /\ creds[e] # None => creds[e] = token \/ creds[e] \in revoked

\* The secret of the host's token is in a vault or in the hands of a command:
\* no run is refused because of a token nobody can use, unless the command that
\* had this one made was stopped or interrupted before the vault had it, or the
\* vault file with it was removed or overtaken.
NoTokenIsLost ==
    token # None =>
        \/ lost
        \/ \E e \in Envs : vault[e] = token
        \/ \E r \in Runs : Alone(r) /\ ~Cut(r)
=============================================================================
