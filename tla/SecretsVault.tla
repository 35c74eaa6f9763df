----------------------------- MODULE SecretsVault -----------------------------
(* The encrypted environment file of a runtime and the commands that write    *)
(* it: secrets set, ensure, the syncs from an external authority, and gsm     *)
(* persist, which only reads it.  Every write is runtime/vault.py:merge_set:  *)
(* read the whole file, merge, replace it whole.  Nothing excludes two        *)
(* commands from each other, in the file or in the authority.                 *)
EXTENDS Naturals

CONSTANTS
    Commands,   \* terminals, and runners that sync before they dispatch
    Keys,       \* the names of the secrets
    Refs,       \* secrets of a HashiCorp Vault; one holds several keys
    RefOf,      \* where the map puts each key
    Backends,   \* the authorities an environment may use
    Mapped,     \* keys the shipped map lists; others can be registered
    Texts,      \* keys whose values may come from files
    MaxMade     \* bound: how many commands bring new values

ASSUME MapAssumption == RefOf \in [Keys -> Refs] /\ Mapped \subseteq Keys
ASSUME BackendsAssumption == Backends \subseteq {"gsm", "vault"}
ASSUME MadeAssumption == MaxMade \in Nat

VARIABLES
    vault,      \* the file: its keys and their values
    external,   \* the authority
    backend,    \* which authority it is
    mapped,     \* the keys of the map in force
    made,       \* values made so far; a new one is the next number
    pc,         \* where each command is
    request,    \* its arguments
    updates,    \* the values it brings
    snapshot,   \* what it has read and is about to write back
    todo,       \* keys it has yet to persist
    disturbed   \* history: commands in whose course another one wrote

vars == <<vault, external, backend, mapped, made, pc, request, updates,
          snapshot, todo, disturbed>>

\* A value from a file keeps the white space around it, its last newline.
Values == [id : 1..MaxMade, padded : BOOLEAN]
Strip(v) == [v EXCEPT !.padded = FALSE]
Stripped(f) == [k \in DOMAIN f |-> Strip(f[k])]
Plain(n) == [id |-> n, padded |-> FALSE]
Env    == UNION {[K -> Values] : K \in SUBSET Keys}
Empty  == [k \in {} |-> 0]

Requests == [kind : {"set", "ensure", "sync", "persist"}, keys : SUBSET Keys,
             force : BOOLEAN, persist : BOOLEAN, register : BOOLEAN]
NoRequest == [kind |-> "set", keys |-> {}, force |-> FALSE, persist |-> FALSE,
              register |-> FALSE]

TypeOK ==
    /\ vault \in Env /\ external \in Env
    /\ backend \in Backends
    /\ mapped \in SUBSET Keys /\ Mapped \subseteq mapped
    /\ made \in 0..MaxMade
    /\ pc \in [Commands -> {"idle", "read", "fetch", "merge", "write", "authority",
                            "put", "bucket", "ok"}]
    /\ request \in [Commands -> Requests]
    /\ updates \in [Commands -> Env] /\ snapshot \in [Commands -> Env]
    /\ todo \in [Commands -> SUBSET Keys]
    /\ \A c \in Commands :
         /\ DOMAIN updates[c] \subseteq request[c].keys
         /\ todo[c] \subseteq DOMAIN updates[c]
         /\ todo[c] # {} => pc[c] \in {"put", "bucket"}
    /\ disturbed \in SUBSET Commands

Init ==
    /\ vault = Empty /\ external = Empty
    /\ backend \in Backends
    /\ mapped = Mapped
    /\ made = 0
    /\ pc = [c \in Commands |-> "idle"]
    /\ request = [c \in Commands |-> NoRequest]
    /\ updates = [c \in Commands |-> Empty]
    /\ snapshot = [c \in Commands |-> Empty]
    /\ todo = [c \in Commands |-> {}]
    /\ disturbed = {}

Goto(c, step) == pc' = [pc EXCEPT ![c] = step]
Bring(c, values) == updates' = [updates EXCEPT ![c] = values]
Override(f, g) ==
    [k \in DOMAIN f \cup DOMAIN g |-> IF k \in DOMAIN g THEN g[k] ELSE f[k]]
Only(f, K) == [k \in K \cap DOMAIN f |-> f[k]]

\* A command that persisted or synced says ok, and what it brought is remembered.
\* One that failed, or has said ok of the file alone, is forgotten.
Finish(c) ==
    /\ Goto(c, "ok")
    /\ snapshot' = [snapshot EXCEPT ![c] = Empty]
    /\ todo' = [todo EXCEPT ![c] = {}]
    /\ UNCHANGED <<request, updates>>
Leave(c) ==
    /\ Goto(c, "idle")
    /\ request' = [request EXCEPT ![c] = NoRequest]
    /\ Bring(c, Empty)
    /\ snapshot' = [snapshot EXCEPT ![c] = Empty]
    /\ todo' = [todo EXCEPT ![c] = {}]
Disturb(c) == disturbed' = disturbed \cup {d \in Commands \ {c} : pc[d] # "idle"}

-----------------------------------------------------------------------------
(* The commands *)

Begin(c, r) ==
    /\ pc[c] \in {"idle", "ok"}
    /\ request' = [request EXCEPT ![c] = r]
    /\ disturbed' = disturbed \ {c}
    /\ UNCHANGED <<vault, external, backend, mapped>>

\* run_set: the values are the operator's; only those of --from-file are taken
\* as they are.
Set(c, keys, padded, persist, register) ==
    /\ keys # {}
    /\ made < MaxMade
    /\ Begin(c, [NoRequest EXCEPT !.keys = keys, !.persist = persist,
                                  !.register = persist /\ register /\ backend = "gsm"])
    /\ made' = made + 1
    /\ Bring(c, [k \in keys |-> [id |-> made + 1, padded |-> k \in padded]])
    /\ Goto(c, "merge")
    /\ UNCHANGED <<snapshot, todo>>

Ensure(c, keys, force, persist, register) ==
    /\ keys # {}
    /\ Begin(c, [kind |-> "ensure", keys |-> keys, force |-> force,
                 persist |-> persist, register |-> persist /\ register /\ backend = "gsm"])
    /\ Bring(c, Empty)
    /\ Goto(c, "read")
    /\ UNCHANGED <<made, snapshot, todo>>

\* Mutant of EnsureRead: what the file has is not looked at.
EnsureRead_Regenerates(c) ==
    /\ pc[c] = "read"
    /\ made < MaxMade
    /\ made' = made + 1
    /\ Bring(c, [k \in request[c].keys |-> Plain(made + 1)])
    /\ Goto(c, "merge")
    /\ UNCHANGED <<vault, external, backend, mapped, request, snapshot, todo, disturbed>>

\* run_ensure: the keys the file lacks, all of them with --force.
EnsureRead(c) ==
    /\ pc[c] = "read"
    /\ LET wanted == IF request[c].force THEN request[c].keys
                     ELSE request[c].keys \ DOMAIN vault
       IN \/ /\ wanted = {}
             /\ Leave(c)
             /\ UNCHANGED made
          \/ /\ wanted # {}
             /\ made < MaxMade
             /\ made' = made + 1
             /\ Bring(c, [k \in wanted |-> Plain(made + 1)])
             /\ Goto(c, "merge")
             /\ UNCHANGED <<request, snapshot, todo>>
    /\ UNCHANGED <<vault, external, backend, mapped, disturbed>>

\* The scope of a sync is any part of the map.
Sync(c, keys) ==
    /\ keys # {} /\ keys \subseteq mapped
    /\ Begin(c, [NoRequest EXCEPT !.kind = "sync", !.keys = keys])
    /\ Bring(c, Empty)
    /\ Goto(c, "fetch")
    /\ UNCHANGED <<made, snapshot, todo>>

\* One secret at a time, and stripped; a missing one is an error before the file
\* is touched.
Fetch(c) ==
    /\ pc[c] = "fetch"
    /\ \E k \in (request[c].keys \ DOMAIN updates[c]) \cap DOMAIN external :
         LET got == Override(updates[c], Stripped(Only(external, {k})))
         IN  /\ Bring(c, got)
             /\ Goto(c, IF DOMAIN got = request[c].keys THEN "merge" ELSE "fetch")
    /\ UNCHANGED <<vault, external, backend, mapped, made, request, snapshot, todo, disturbed>>

\* run_gsm_persist: the values of the map's keys, stripped, none of which may be
\* missing.
GsmPersist(c, keys) ==
    /\ backend = "gsm"
    /\ keys # {} /\ keys \subseteq mapped /\ keys \subseteq DOMAIN vault
    /\ Begin(c, [NoRequest EXCEPT !.kind = "persist", !.keys = keys, !.persist = TRUE])
    /\ Bring(c, Stripped(Only(vault, keys)))
    /\ Goto(c, "authority")
    /\ UNCHANGED <<made, snapshot, todo>>

-----------------------------------------------------------------------------
(* merge_set *)

MergeRead(c) ==
    /\ pc[c] = "merge"
    /\ snapshot' = [snapshot EXCEPT ![c] = vault]
    /\ Goto(c, "write")
    /\ UNCHANGED <<vault, external, backend, mapped, made, request, updates, todo, disturbed>>

MergeWrite(c) ==
    /\ pc[c] = "write"
    /\ vault' = Override(snapshot[c], updates[c])
    /\ Disturb(c)
    /\ IF request[c].persist
       THEN Goto(c, "authority") /\ UNCHANGED <<request, updates, snapshot, todo>>
       ELSE IF request[c].kind = "sync" THEN Finish(c) ELSE Leave(c)
    /\ UNCHANGED <<external, backend, mapped, made>>

-----------------------------------------------------------------------------
(* _persist_updates_to_gsm, _persist_updates_to_hashicorp_vault *)

\* Mutant of Authority: everything that was asked for, new or not.
Authority_AllKeys(c) ==
    /\ pc[c] = "authority"
    /\ LET map == IF backend = "gsm" /\ request[c].register
                  THEN mapped \cup DOMAIN updates[c] ELSE mapped
       IN  /\ mapped' = map
           /\ DOMAIN updates[c] \subseteq map
    /\ todo' = [todo EXCEPT ![c] = request[c].keys]
    /\ Goto(c, "put")
    /\ UNCHANGED <<vault, external, backend, made, request, updates, snapshot, disturbed>>

\* The map is completed first where that was asked for (_append_gsm_map_entries);
\* a key it still lacks is an error, and the file has already been written.
Authority(c) ==
    /\ pc[c] = "authority"
    /\ LET map == IF backend = "gsm" /\ request[c].register
                  THEN mapped \cup DOMAIN updates[c] ELSE mapped
       IN  /\ mapped' = map
           /\ IF DOMAIN updates[c] \subseteq map
              THEN /\ todo' = [todo EXCEPT ![c] = DOMAIN updates[c]]
                   /\ Goto(c, "put")
                   /\ UNCHANGED <<request, updates, snapshot>>
              ELSE Leave(c)
    /\ UNCHANGED <<vault, external, backend, made, disturbed>>

\* Keys are written one by one, or secret by secret of a HashiCorp Vault.
Put(c, written) ==
    /\ Disturb(c)
    /\ IF todo[c] \subseteq written
       THEN Finish(c)
       ELSE /\ todo' = [todo EXCEPT ![c] = @ \ written]
            /\ snapshot' = [snapshot EXCEPT ![c] = Empty]
            /\ Goto(c, "put")
            /\ UNCHANGED <<request, updates>>
    /\ UNCHANGED <<vault, backend, mapped, made>>

PutKey(c, k) ==
    /\ pc[c] = "put" /\ backend = "gsm"
    /\ k \in todo[c]
    /\ external' = Override(external, Only(updates[c], {k}))
    /\ Put(c, {k})

\* The fields a secret has are read, then written back with the new ones.
ReadBucket(c) ==
    /\ pc[c] = "put" /\ backend = "vault"
    /\ snapshot' = [snapshot EXCEPT ![c] = external]
    /\ Goto(c, "bucket")
    /\ UNCHANGED <<vault, external, backend, mapped, made, request, updates, todo, disturbed>>

\* Mutant of PutBucket: what was read is written back over what is new.
PutBucket_OldFirst(c, ref) ==
    /\ pc[c] = "bucket"
    /\ LET fields == {k \in Keys : RefOf[k] = ref}
       IN  /\ fields \cap todo[c] # {}
           /\ external' = Override(Only(external, Keys \ fields),
                                   Override(Only(updates[c], fields), Only(snapshot[c], fields)))
           /\ Put(c, fields)

PutBucket(c, ref) ==
    /\ pc[c] = "bucket"
    /\ LET fields == {k \in Keys : RefOf[k] = ref}
       IN  /\ fields \cap todo[c] # {}
           /\ external' = Override(Only(external, Keys \ fields),
                                   Override(Only(snapshot[c], fields), Only(updates[c], fields)))
           /\ Put(c, fields)

-----------------------------------------------------------------------------

\* The password provider, ansible-vault or the authority fails, the authority
\* does not have the secret, or the command is killed: the file is replaced
\* whole or not at all.
Fail(c) ==
    /\ pc[c] \notin {"idle", "ok"}
    /\ Leave(c)
    /\ disturbed' = disturbed \ {c}
    /\ UNCHANGED <<vault, external, backend, mapped, made>>

Step(c) ==
    \/ \E keys \in SUBSET Keys, force, persist, register \in BOOLEAN :
         \/ \E padded \in SUBSET (keys \cap Texts) : Set(c, keys, padded, persist, register)
         \/ Ensure(c, keys, force, persist, register)
    \/ \E keys \in SUBSET Keys : Sync(c, keys) \/ GsmPersist(c, keys)
    \/ EnsureRead(c) \/ Fetch(c)
    \/ MergeRead(c) \/ MergeWrite(c)
    \/ Authority(c) \/ ReadBucket(c)
    \/ \E k \in Keys : PutKey(c, k)
    \/ \E ref \in Refs : PutBucket(c, ref)
    \/ Fail(c)

Next == \E c \in Commands : Step(c)

Spec == Init /\ [][Next]_vars

-----------------------------------------------------------------------------

Asked(c, k) ==
    /\ k \in request[c].keys
    /\ request[c].kind \in {"set", "sync"} \/ request[c].force

\* A credential the file has is changed or lost only by a command that was
\* asked to change it, a set, a forced ensure or a sync, or by one that another
\* command has overtaken between its reading the file and replacing it.  An
\* ensure run twice, or beside other keys, never renews one.
CredentialChangedOnRequest ==
    [][\A k \in DOMAIN vault :
         \/ k \in DOMAIN vault' /\ vault'[k] = vault[k]
         \/ \E c \in Commands :
              /\ pc[c] = "write" /\ pc'[c] # "write"
              /\ Asked(c, k) \/ c \in disturbed]_vars

\* A command that has persisted or synced and reports success leaves the file
\* and the authority with the same values of the keys it brought, unless
\* another command wrote in its course or has since.  After a set or an ensure
\* they are equal; gsm persist and the syncs strip what they carry, and leave
\* the two equal but for white space around a value that came from a file.
OkMeansAgreement ==
    \A c \in Commands :
      pc[c] = "ok" /\ c \notin disturbed /\ (request[c].persist \/ request[c].kind = "sync")
        => \A k \in DOMAIN updates[c] :
             /\ k \in DOMAIN vault /\ k \in DOMAIN external
             /\ Strip(vault[k]) = Strip(external[k])
             /\ request[c].kind \in {"set", "ensure"} => vault[k] = external[k]

\* Stronger, and no property of the code: equal after every command.  A key set
\* from a file keeps its newline in the one and loses it in the other.
OkMeansEqual ==
    \A c \in Commands :
      pc[c] = "ok" /\ c \notin disturbed /\ (request[c].persist \/ request[c].kind = "sync")
        => \A k \in DOMAIN updates[c] : vault[k] = external[k]

=============================================================================
