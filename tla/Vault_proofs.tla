---------------------------- MODULE Vault_proofs -----------------------------
(* Theorems about the vault of an environment and about the recovery of the   *)
(* credentials that open it, for any commands, keys, passwords and mishaps.   *)
EXTENDS SecretsVault, VaultRecovery, TLAPS

-----------------------------------------------------------------------------
(* The encrypted file and the commands that write it                          *)

\* A file is a function from some of the keys to values.
LEMMA EnvType ==
    ASSUME NEW f, NEW K \in SUBSET Keys, f \in [K -> Values] PROVE f \in Env
BY DEF Env

\* And nothing else.
LEMMA EnvIs ==
    ASSUME NEW f \in Env PROVE DOMAIN f \subseteq Keys /\ f \in [DOMAIN f -> Values]
BY DEF Env

\* A merge of two files, and a part of one, are files.
LEMMA OverrideType ==
    ASSUME NEW f \in Env, NEW g \in Env PROVE Override(f, g) \in Env
<1>1. Override(f, g) \in [DOMAIN f \cup DOMAIN g -> Values]
    BY EnvIs DEF Override
<1>2. DOMAIN f \cup DOMAIN g \in SUBSET Keys
    BY EnvIs
<1> QED BY <1>1, <1>2, EnvType

LEMMA OnlyType ==
    ASSUME NEW f \in Env, NEW K PROVE Only(f, K) \in Env
<1>1. Only(f, K) \in [K \cap DOMAIN f -> Values]
    BY EnvIs DEF Only
<1>2. K \cap DOMAIN f \in SUBSET Keys
    BY EnvIs
<1> QED BY <1>1, <1>2, EnvType

\* A stripped value is a value, and stripping it again changes nothing; but for
\* white space a stripped file is the file.
LEMMA StripType ==
    ASSUME NEW v \in Values PROVE Strip(v) \in Values /\ Strip(Strip(v)) = Strip(v)
BY DEF Strip, Values

LEMMA StrippedType ==
    ASSUME NEW f \in Env
    PROVE  /\ Stripped(f) \in Env
           /\ DOMAIN Stripped(f) = DOMAIN f
           /\ \A k \in DOMAIN f : Strip(Stripped(f)[k]) = Strip(f[k])
<1>1. f \in [DOMAIN f -> Values] /\ DOMAIN f \in SUBSET Keys
    BY EnvIs
<1>2. \A k \in DOMAIN f : Strip(f[k]) \in Values /\ Strip(Strip(f[k])) = Strip(f[k])
    BY <1>1, StripType
<1>3. Stripped(f) \in [DOMAIN f -> Values]
    BY <1>2 DEF Stripped
<1>4. Stripped(f) \in Env
    BY <1>1, <1>3, EnvType
<1> QED BY <1>2, <1>4 DEF Stripped

\* The empty file is one.
LEMMA EmptyType == Empty \in Env /\ DOMAIN Empty = {}
<1>1. Empty \in [{} -> Values]
    BY DEF Empty
<1> QED BY <1>1, EnvType DEF Empty

\* The values a command makes.
LEMMA MadeType ==
    ASSUME NEW K \in SUBSET Keys, NEW n \in 0..MaxMade, n < MaxMade
    PROVE  /\ [k \in K |-> Plain(n + 1)] \in Env
           /\ \A P : [k \in K |-> [id |-> n + 1, padded |-> k \in P]] \in Env
<1>1. n + 1 \in 1..MaxMade
    BY MadeAssumption
<1>2. [k \in K |-> Plain(n + 1)] \in [K -> Values]
    BY <1>1 DEF Values, Plain
<1>3. ASSUME NEW P PROVE [k \in K |-> [id |-> n + 1, padded |-> k \in P]] \in [K -> Values]
    BY <1>1 DEF Values
<1> QED BY <1>2, <1>3, EnvType

\* At first the file and the authority are empty.
LEMMA TypeInit == Init => TypeOK
BY EmptyType, MadeAssumption, MapAssumption DEF Init, TypeOK, Requests, NoRequest

\* A command that begins has nothing left over from the one before.
LEMMA BeginType ==
    ASSUME TypeOK, NEW c \in Commands, NEW r \in Requests, Begin(c, r),
           NEW f \in Env, Bring(c, f), DOMAIN f \subseteq r.keys, UNCHANGED <<snapshot, todo>>,
           NEW step \in {"merge", "read", "fetch", "authority"}, Goto(c, step),
           made' \in 0..MaxMade
    PROVE  TypeOK'
BY DEF TypeOK, Begin, Bring, Goto

\* Every step of every command leaves files, updates and snapshots what they are.
LEMMA TypeStep == TypeOK /\ [Next]_vars => TypeOK'
<1> SUFFICES ASSUME TypeOK, [Next]_vars PROVE TypeOK'
    OBVIOUS
<1>1. ASSUME NEW c \in Commands, Step(c) PROVE TypeOK'
  <2>1. ASSUME NEW keys \in SUBSET Keys, NEW padded, NEW persist \in BOOLEAN,
             NEW register \in BOOLEAN,
             Set(c, keys, padded, persist, register) PROVE TypeOK'
    <3> DEFINE r == [NoRequest EXCEPT !.keys = keys, !.persist = persist,
                                      !.register = persist /\ register /\ backend = "gsm"]
               f == [k \in keys |-> [id |-> made + 1, padded |-> k \in padded]]
    <3>1. r \in Requests /\ r.keys = keys
        BY DEF NoRequest, Requests
    <3>2. f \in Env /\ DOMAIN f = keys
        BY <2>1, MadeType DEF Set, TypeOK
    <3>3. Begin(c, r) /\ Bring(c, f) /\ Goto(c, "merge") /\ UNCHANGED <<snapshot, todo>>
        BY <2>1 DEF Set
    <3>4. made' \in 0..MaxMade
        BY <2>1, MadeAssumption DEF Set, TypeOK
    <3> HIDE DEF r, f
    <3> QED BY <3>1, <3>2, <3>3, <3>4, BeginType
  <2>2. ASSUME NEW keys \in SUBSET Keys, NEW force \in BOOLEAN, NEW persist \in BOOLEAN,
             NEW register \in BOOLEAN,
             Ensure(c, keys, force, persist, register) PROVE TypeOK'
    <3> DEFINE r == [kind |-> "ensure", keys |-> keys, force |-> force,
                      persist |-> persist, register |-> persist /\ register /\ backend = "gsm"]
    <3>1. r \in Requests /\ r.keys = keys
        BY DEF NoRequest, Requests
    <3>2. Empty \in Env
        BY EmptyType
    <3>4. DOMAIN Empty \subseteq keys
        BY EmptyType
    <3>3. /\ Begin(c, r) /\ Bring(c, Empty) /\ Goto(c, "read")
          /\ UNCHANGED <<made, snapshot, todo>>
        BY <2>2 DEF Ensure
    <3> HIDE DEF r
    <3> QED BY <3>1, <3>2, <3>3, <3>4, BeginType DEF TypeOK
  <2>3. ASSUME NEW keys \in SUBSET Keys,
             Sync(c, keys) PROVE TypeOK'
    <3> DEFINE r == [NoRequest EXCEPT !.kind = "sync", !.keys = keys]
    <3>1. r \in Requests /\ r.keys = keys
        BY DEF NoRequest, Requests
    <3>2. Empty \in Env
        BY EmptyType
    <3>4. DOMAIN Empty \subseteq keys
        BY EmptyType
    <3>3. /\ Begin(c, r) /\ Bring(c, Empty) /\ Goto(c, "fetch")
          /\ UNCHANGED <<made, snapshot, todo>>
        BY <2>3 DEF Sync
    <3> HIDE DEF r
    <3> QED BY <3>1, <3>2, <3>3, <3>4, BeginType DEF TypeOK
  <2>4. ASSUME NEW keys \in SUBSET Keys,
             GsmPersist(c, keys) PROVE TypeOK'
    <3> DEFINE r == [NoRequest EXCEPT !.kind = "persist", !.keys = keys, !.persist = TRUE]
    <3>1. r \in Requests /\ r.keys = keys
        BY DEF NoRequest, Requests
    <3>1a. Only(vault, keys) \in Env
        BY OnlyType DEF TypeOK
    <3>2. Stripped(Only(vault, keys)) \in Env
        BY <3>1a, StrippedType
    <3>4. DOMAIN Stripped(Only(vault, keys)) \subseteq keys
        BY DEF Only, Stripped
    <3>3. /\ Begin(c, r)
          /\ Bring(c, Stripped(Only(vault, keys)))
          /\ Goto(c, "authority")
          /\ UNCHANGED <<made, snapshot, todo>>
        BY <2>4 DEF GsmPersist
    <3> HIDE DEF r
    <3> QED BY <3>1, <3>2, <3>3, <3>4, BeginType DEF TypeOK
  <2>5. CASE EnsureRead(c)
    <3> DEFINE wanted == IF request[c].force THEN request[c].keys
                         ELSE request[c].keys \ DOMAIN vault
               f == [k \in wanted |-> Plain(made + 1)]
    <3>1. wanted \in SUBSET request[c].keys /\ wanted \in SUBSET Keys
        BY DEF TypeOK, Requests
    <3>2. CASE wanted = {} /\ Leave(c) /\ UNCHANGED made
        BY <2>5, <3>2, EmptyType DEF EnsureRead, TypeOK, Goto, Bring, Leave, NoRequest, Requests
    <3>3. CASE made < MaxMade /\ made' = made + 1 /\ Bring(c, f) /\ Goto(c, "merge")
               /\ UNCHANGED <<request, snapshot, todo>>
      <4>1. f \in Env /\ DOMAIN f = wanted
          BY <3>1, <3>3, MadeType DEF TypeOK
      <4>2. made' \in 0..MaxMade
          BY <3>3, MadeAssumption DEF TypeOK
      <4> HIDE DEF f, wanted
      <4> QED BY <2>5, <3>1, <3>3, <4>1, <4>2 DEF EnsureRead, TypeOK, Goto, Bring
    <3> QED BY <2>5, <3>2, <3>3 DEF EnsureRead
  <2>6. CASE Fetch(c)
    <3>1. PICK k \in (request[c].keys \ DOMAIN updates[c]) \cap DOMAIN external :
             LET got == Override(updates[c], Stripped(Only(external, {k})))
             IN  /\ Bring(c, got)
                 /\ Goto(c, IF DOMAIN got = request[c].keys THEN "merge" ELSE "fetch")
        BY <2>6 DEF Fetch
    <3> DEFINE got == Override(updates[c], Stripped(Only(external, {k})))
    <3>4. Stripped(Only(external, {k})) \in Env /\ updates[c] \in Env
        BY OnlyType, StrippedType DEF TypeOK
    <3>5. got \in Env
        BY <3>4, OverrideType
    <3>2. /\ DOMAIN got = DOMAIN updates[c] \cup {k}
          /\ \A j \in DOMAIN updates[c] : got[j] = updates[c][j]
        BY DEF Override, Only, Stripped
    <3> DEFINE next == IF DOMAIN got = request[c].keys THEN "merge" ELSE "fetch"
    <3>3. Bring(c, got) /\ Goto(c, next) /\ next \in {"merge", "fetch"}
        BY <3>1
    <3> HIDE DEF got, next
    <3> QED BY <2>6, <3>2, <3>3, <3>5 DEF Fetch, TypeOK, Goto, Bring
  <2>7. CASE MergeRead(c)
      BY <2>7 DEF MergeRead, TypeOK, Goto
  <2>8. CASE MergeWrite(c)
    <3>1. vault' \in Env
        BY <2>8, OverrideType DEF MergeWrite, TypeOK
    <3>2. CASE Leave(c)
        BY <2>8, <3>1, <3>2, EmptyType DEF MergeWrite, TypeOK, Goto, Bring, Leave, NoRequest,
           Requests, Disturb
    <3>3. CASE ~Leave(c)
        BY <2>8, <3>1, <3>3, EmptyType DEF MergeWrite, TypeOK, Goto, Finish, Disturb
    <3> QED BY <3>2, <3>3
  <2>9. CASE Authority(c)
    <3>1. mapped' \in SUBSET Keys /\ Mapped \subseteq mapped'
        BY <2>9, EnvIs DEF Authority, TypeOK
    <3>2. \A d \in Commands : DOMAIN updates[d] \in SUBSET Keys
        BY EnvIs DEF TypeOK
    <3>3. CASE Leave(c)
        BY <2>9, <3>1, <3>3, EmptyType DEF Authority, TypeOK, Goto, Bring, Leave, NoRequest,
            Requests
    <3>4. CASE todo' = [todo EXCEPT ![c] = DOMAIN updates[c]] /\ Goto(c, "put")
               /\ UNCHANGED <<request, updates, snapshot>>
        BY <2>9, <3>1, <3>2, <3>4 DEF Authority, TypeOK, Goto
    <3> QED BY <2>9, <3>3, <3>4 DEF Authority
  <2>10. CASE ReadBucket(c)
      BY <2>10 DEF ReadBucket, TypeOK, Goto
  <2>11. ASSUME NEW k \in Keys,
             PutKey(c, k) PROVE TypeOK'
    <3>1. external' \in Env
      <4>1. Only(updates[c], {k}) \in Env
          BY OnlyType DEF TypeOK
      <4> QED BY <2>11, <4>1, OverrideType DEF PutKey, TypeOK
    <3> QED BY <2>11, <3>1, EmptyType DEF PutKey, Put, TypeOK, Goto, Finish, Disturb
  <2>12. ASSUME NEW ref \in Refs,
             PutBucket(c, ref) PROVE TypeOK'
    <3>1. external' \in Env
      <4> DEFINE fields == {k \in Keys : RefOf[k] = ref}
      <4>1. /\ Only(external, Keys \ fields) \in Env
            /\ Only(snapshot[c], fields) \in Env
            /\ Only(updates[c], fields) \in Env
          BY OnlyType DEF TypeOK
      <4>2. Override(Only(snapshot[c], fields), Only(updates[c], fields)) \in Env
          BY <4>1, OverrideType
      <4> QED BY <2>12, <4>1, <4>2, OverrideType DEF PutBucket
    <3> QED BY <2>12, <3>1, EmptyType DEF PutBucket, Put, TypeOK, Goto, Finish, Disturb
  <2>13. CASE Fail(c)
      BY <2>13, EmptyType DEF Fail, TypeOK, Goto, Bring, Leave, NoRequest, Requests
  <2> QED BY <1>1, <2>1, <2>2, <2>3, <2>4, <2>5, <2>6, <2>7, <2>8, <2>9, <2>10, <2>11, <2>12,
              <2>13 DEF Step
<1>2. CASE UNCHANGED vars
    BY <1>2 DEF vars, TypeOK, Goto
<1> QED BY <1>1, <1>2 DEF Next

\* Type correctness of the vault: what a command brings is of the keys it was
\* asked for, and what it has yet to persist is of what it brings.
THEOREM TypeCorrect == Spec => []TypeOK
BY TypeInit, TypeStep, PTL DEF Spec

-----------------------------------------------------------------------------
(* What a command that nobody has disturbed knows                             *)

\* f has the values that c brings for the keys K, as far as c does not strip them.
Agrees(f, c, K) ==
    \A k \in K : /\ k \in DOMAIN f
                 /\ Strip(f[k]) = Strip(updates[c][k])
                 /\ request[c].kind \in {"set", "ensure"} => f[k] = updates[c][k]

\* The order of the steps of each kind of command.
KindInv == \A c \in Commands :
    /\ request[c].kind = "sync" => ~request[c].persist
    /\ pc[c] = "read" => request[c].kind = "ensure" /\ DOMAIN updates[c] = {}
    /\ pc[c] = "fetch" => request[c].kind = "sync"
    /\ pc[c] \in {"merge", "write"} => request[c].kind # "persist"
    /\ pc[c] \in {"authority", "put", "bucket"} => request[c].persist
    /\ pc[c] = "ok" => todo[c] = {}

\* Nobody else has written since an undisturbed command began: what it has read
\* is what is there.
ReadInv == \A c \in Commands : pc[c] # "idle" /\ c \notin disturbed =>
    /\ pc[c] = "write" => snapshot[c] = vault
    /\ pc[c] \in {"merge", "write"} /\ request[c].kind = "ensure" /\ ~request[c].force
          => DOMAIN updates[c] \cap DOMAIN vault = {}

\* What it has brought home or away is there too.
AgreeInv == \A c \in Commands : pc[c] # "idle" /\ c \notin disturbed =>
    /\ request[c].kind = "sync" => Agrees(external, c, DOMAIN updates[c])
    /\ pc[c] \in {"authority", "put", "bucket"} => Agrees(vault, c, DOMAIN updates[c])
    /\ pc[c] = "ok" /\ (request[c].persist \/ request[c].kind = "sync")
          => Agrees(vault, c, DOMAIN updates[c])
    /\ pc[c] \in {"put", "bucket", "ok"} /\ request[c].persist
          => Agrees(external, c, DOMAIN updates[c] \ todo[c])

\* The inductive invariant.
VaultInv == TypeOK /\ KindInv /\ ReadInv /\ AgreeInv

\* At first no command is under way.
LEMMA InvInit == Init => VaultInv
BY TypeInit DEF Init, VaultInv, KindInv, ReadInv, AgreeInv, NoRequest

\* Every kind of command goes through its own steps only.
LEMMA KindStep == TypeOK /\ KindInv /\ [Next]_vars => KindInv'
<1> SUFFICES ASSUME TypeOK, KindInv, [Next]_vars PROVE KindInv'
    OBVIOUS
<1>1. ASSUME NEW c \in Commands, Step(c) PROVE KindInv'
  <2>1. ASSUME NEW keys \in SUBSET Keys, NEW padded, NEW persist \in BOOLEAN,
             NEW register \in BOOLEAN,
             Set(c, keys, padded, persist, register) PROVE KindInv'
      BY <2>1, EmptyType DEF Set, Begin, TypeOK, Requests, NoRequest, Goto, Bring, Finish,
          Leave, KindInv
  <2>2. ASSUME NEW keys \in SUBSET Keys, NEW force \in BOOLEAN, NEW persist \in BOOLEAN,
             NEW register \in BOOLEAN,
             Ensure(c, keys, force, persist, register) PROVE KindInv'
      BY <2>2, EmptyType DEF Ensure, Begin, TypeOK, Requests, NoRequest, Goto, Bring, Finish,
          Leave, KindInv
  <2>3. ASSUME NEW keys \in SUBSET Keys,
             Sync(c, keys) PROVE KindInv'
      BY <2>3, EmptyType DEF Sync, Begin, TypeOK, Requests, NoRequest, Goto, Bring, Finish,
          Leave, KindInv
  <2>4. ASSUME NEW keys \in SUBSET Keys,
             GsmPersist(c, keys) PROVE KindInv'
      BY <2>4, EmptyType DEF GsmPersist, Begin, TypeOK, Requests, NoRequest, Goto, Bring,
          Finish, Leave, KindInv
  <2>5. CASE EnsureRead(c)
      BY <2>5, EmptyType DEF EnsureRead, TypeOK, Requests, NoRequest, Goto, Bring, Finish,
          Leave, KindInv
  <2>6. CASE Fetch(c)
      BY <2>6, EmptyType DEF Fetch, TypeOK, Requests, NoRequest, Goto, Bring, Finish, Leave,
          KindInv
  <2>7. CASE MergeRead(c)
      BY <2>7, EmptyType DEF MergeRead, TypeOK, Requests, NoRequest, Goto, Bring, Finish,
          Leave, KindInv
  <2>8. CASE MergeWrite(c)
      BY <2>8, EmptyType DEF MergeWrite, TypeOK, Requests, NoRequest, Goto, Bring, Finish,
          Leave, KindInv
  <2>9. CASE Authority(c)
      BY <2>9, EmptyType DEF Authority, TypeOK, Requests, NoRequest, Goto, Bring, Finish,
          Leave, KindInv
  <2>10. CASE ReadBucket(c)
      BY <2>10, EmptyType DEF ReadBucket, TypeOK, Requests, NoRequest, Goto, Bring, Finish,
          Leave, KindInv
  <2>11. ASSUME NEW k \in Keys,
             PutKey(c, k) PROVE KindInv'
      BY <2>11, EmptyType DEF PutKey, Put, TypeOK, Requests, NoRequest, Goto, Bring, Finish,
          Leave, KindInv
  <2>12. ASSUME NEW ref \in Refs,
             PutBucket(c, ref) PROVE KindInv'
      BY <2>12, EmptyType DEF PutBucket, Put, TypeOK, Requests, NoRequest, Goto, Bring,
          Finish, Leave, KindInv
  <2>13. CASE Fail(c)
      BY <2>13, EmptyType DEF Fail, TypeOK, Requests, NoRequest, Goto, Bring, Finish, Leave,
          KindInv
  <2> QED BY <1>1, <2>1, <2>2, <2>3, <2>4, <2>5, <2>6, <2>7, <2>8, <2>9, <2>10, <2>11, <2>12,
              <2>13 DEF Step
<1>2. CASE UNCHANGED vars
    BY <1>2 DEF vars, TypeOK, Requests, NoRequest, Goto, Bring, Finish, Leave, KindInv
<1> QED BY <1>1, <1>2 DEF Next

\* Whoever writes disturbs all others.
LEMMA ReadStep == TypeOK /\ KindInv /\ ReadInv /\ [Next]_vars => ReadInv'
<1> SUFFICES ASSUME TypeOK, KindInv, ReadInv, [Next]_vars PROVE ReadInv'
    OBVIOUS
<1>1. ASSUME NEW c \in Commands, Step(c) PROVE ReadInv'
  <2>1. ASSUME NEW keys \in SUBSET Keys, NEW padded, NEW persist \in BOOLEAN,
             NEW register \in BOOLEAN,
             Set(c, keys, padded, persist, register) PROVE ReadInv'
      BY <2>1, EmptyType DEF Set, Begin, TypeOK, Requests, NoRequest, Goto, Bring, Finish,
          Leave, Disturb, KindInv, ReadInv
  <2>2. ASSUME NEW keys \in SUBSET Keys, NEW force \in BOOLEAN, NEW persist \in BOOLEAN,
             NEW register \in BOOLEAN,
             Ensure(c, keys, force, persist, register) PROVE ReadInv'
      BY <2>2, EmptyType DEF Ensure, Begin, TypeOK, Requests, NoRequest, Goto, Bring, Finish,
          Leave, Disturb, KindInv, ReadInv
  <2>3. ASSUME NEW keys \in SUBSET Keys,
             Sync(c, keys) PROVE ReadInv'
      BY <2>3, EmptyType DEF Sync, Begin, TypeOK, Requests, NoRequest, Goto, Bring, Finish,
          Leave, Disturb, KindInv, ReadInv
  <2>4. ASSUME NEW keys \in SUBSET Keys,
             GsmPersist(c, keys) PROVE ReadInv'
      BY <2>4, EmptyType DEF GsmPersist, Begin, TypeOK, Requests, NoRequest, Goto, Bring,
          Finish, Leave, Disturb, KindInv, ReadInv
  <2>5. CASE EnsureRead(c)
      BY <2>5, EmptyType DEF EnsureRead, TypeOK, Requests, NoRequest, Goto, Bring, Finish,
          Leave, Disturb, KindInv, ReadInv
  <2>6. CASE Fetch(c)
      BY <2>6, EmptyType DEF Fetch, TypeOK, Requests, NoRequest, Goto, Bring, Finish, Leave,
          Disturb, KindInv, ReadInv
  <2>7. CASE MergeRead(c)
      BY <2>7, EmptyType DEF MergeRead, TypeOK, Requests, NoRequest, Goto, Bring, Finish,
          Leave, Disturb, KindInv, ReadInv
  <2>8. CASE MergeWrite(c)
      BY <2>8, EmptyType DEF MergeWrite, TypeOK, Requests, NoRequest, Goto, Bring, Finish,
          Leave, Disturb, KindInv, ReadInv
  <2>9. CASE Authority(c)
      BY <2>9, EmptyType DEF Authority, TypeOK, Requests, NoRequest, Goto, Bring, Finish,
          Leave, Disturb, KindInv, ReadInv
  <2>10. CASE ReadBucket(c)
      BY <2>10, EmptyType DEF ReadBucket, TypeOK, Requests, NoRequest, Goto, Bring, Finish,
          Leave, Disturb, KindInv, ReadInv
  <2>11. ASSUME NEW k \in Keys,
             PutKey(c, k) PROVE ReadInv'
      BY <2>11, EmptyType DEF PutKey, Put, TypeOK, Requests, NoRequest, Goto, Bring, Finish,
          Leave, Disturb, KindInv, ReadInv
  <2>12. ASSUME NEW ref \in Refs,
             PutBucket(c, ref) PROVE ReadInv'
      BY <2>12, EmptyType DEF PutBucket, Put, TypeOK, Requests, NoRequest, Goto, Bring,
          Finish, Leave, Disturb, KindInv, ReadInv
  <2>13. CASE Fail(c)
      BY <2>13, EmptyType DEF Fail, TypeOK, Requests, NoRequest, Goto, Bring, Finish, Leave,
          Disturb, KindInv, ReadInv
  <2> QED BY <1>1, <2>1, <2>2, <2>3, <2>4, <2>5, <2>6, <2>7, <2>8, <2>9, <2>10, <2>11, <2>12,
              <2>13 DEF Step
<1>2. CASE UNCHANGED vars
    BY <1>2 DEF vars, TypeOK, Requests, NoRequest, Goto, Bring, Finish, Leave, Disturb,
        KindInv, ReadInv
<1> QED BY <1>1, <1>2 DEF Next

\* A write to the authority: others are disturbed, and the writer has one part
\* less to do.
LEMMA PutStep ==
    ASSUME TypeOK, KindInv, AgreeInv, NEW c \in Commands, NEW written, Put(c, written),
           pc[c] \in {"put", "bucket"},
           \A k \in DOMAIN updates[c] \cap written :
               k \in DOMAIN external' /\ external'[k] = updates[c][k],
           \A k \in DOMAIN external \ written :
               k \in DOMAIN external' /\ external'[k] = external[k]
    PROVE  AgreeInv'
<1> SUFFICES ASSUME NEW d \in Commands, pc'[d] # "idle", d \notin disturbed'
             PROVE  /\ request[d].kind = "sync" => Agrees(external', d, DOMAIN updates[d])
                    /\ pc'[d] # "idle" => Agrees(vault, d, DOMAIN updates[d])
                    /\ pc'[d] \in {"put", "bucket", "ok"} /\ request[d].persist
                          => Agrees(external', d, DOMAIN updates[d] \ todo'[d])
    BY DEF Put, Finish, AgreeInv, Agrees
<1>1. d = c
    BY DEF Put, Disturb, Finish, Goto, TypeOK
<1>2. request[d].persist /\ request[d].kind # "sync"
    BY <1>1 DEF KindInv
<1>3. d \notin disturbed
    BY DEF Put, Disturb
<1>4. Agrees(vault, d, DOMAIN updates[d]) /\ Agrees(external, d, DOMAIN updates[d] \ todo[d])
    BY <1>1, <1>2, <1>3 DEF AgreeInv
<1>5. todo[d] \ written \subseteq todo'[d]
    BY <1>1 DEF Put, Finish, TypeOK
<1>6. Agrees(external', d, DOMAIN updates[d] \ todo'[d])
    BY <1>1, <1>4, <1>5 DEF Agrees
<1> QED BY <1>2, <1>4, <1>6

\* Who writes elsewhere disturbs the others, and is noted.
LEMMA AgreeStep == TypeOK /\ KindInv /\ AgreeInv /\ [Next]_vars => AgreeInv'
<1> SUFFICES ASSUME TypeOK, KindInv, AgreeInv, [Next]_vars PROVE AgreeInv'
    OBVIOUS
<1>1. ASSUME NEW c \in Commands, Step(c) PROVE AgreeInv'
  <2>1. ASSUME NEW keys \in SUBSET Keys, NEW padded, NEW persist \in BOOLEAN,
             NEW register \in BOOLEAN,
             Set(c, keys, padded, persist, register) PROVE AgreeInv'
      BY <2>1, EmptyType DEF Set, Begin, TypeOK, Requests, NoRequest, Goto, Bring, Finish,
          Leave, Disturb, KindInv, AgreeInv, Agrees
  <2>2. ASSUME NEW keys \in SUBSET Keys, NEW force \in BOOLEAN, NEW persist \in BOOLEAN,
             NEW register \in BOOLEAN,
             Ensure(c, keys, force, persist, register) PROVE AgreeInv'
      BY <2>2, EmptyType DEF Ensure, Begin, TypeOK, Requests, NoRequest, Goto, Bring, Finish,
          Leave, Disturb, KindInv, AgreeInv, Agrees
  <2>3. ASSUME NEW keys \in SUBSET Keys,
             Sync(c, keys) PROVE AgreeInv'
      BY <2>3, EmptyType DEF Sync, Begin, TypeOK, Requests, NoRequest, Goto, Bring, Finish,
          Leave, Disturb, KindInv, AgreeInv, Agrees
  <2>4. ASSUME NEW keys \in SUBSET Keys,
             GsmPersist(c, keys) PROVE AgreeInv'
    <3> DEFINE f == Stripped(Only(vault, keys))
    <3>1. \A k \in DOMAIN f : k \in DOMAIN vault /\ Strip(vault[k]) = Strip(f[k])
      <4>1. Only(vault, keys) \in Env
          BY OnlyType DEF TypeOK
      <4>2. \A k \in DOMAIN Only(vault, keys) :
                k \in DOMAIN vault /\ vault[k] = Only(vault, keys)[k]
          BY DEF Only
      <4> QED BY <4>1, <4>2, StrippedType
    <3>2. Bring(c, f)
        BY <2>4 DEF GsmPersist
    <3> HIDE DEF f
    <3> QED BY <2>4, <3>1, <3>2 DEF GsmPersist, Begin, TypeOK, Requests, NoRequest, Goto,
        Bring,
                Finish, Leave, Disturb, KindInv, AgreeInv, Agrees
  <2>5. CASE EnsureRead(c)
      BY <2>5, EmptyType DEF EnsureRead, TypeOK, Requests, NoRequest, Goto, Bring, Finish,
          Leave, Disturb, KindInv, AgreeInv, Agrees
  <2>6. CASE Fetch(c)
    <3>1. PICK k \in (request[c].keys \ DOMAIN updates[c]) \cap DOMAIN external :
             LET got == Override(updates[c], Stripped(Only(external, {k})))
             IN  /\ Bring(c, got)
                 /\ Goto(c, IF DOMAIN got = request[c].keys THEN "merge" ELSE "fetch")
        BY <2>6 DEF Fetch
    <3> DEFINE got == Override(updates[c], Stripped(Only(external, {k})))
    <3>4. Stripped(Only(external, {k})) \in Env /\ updates[c] \in Env
        BY OnlyType, StrippedType DEF TypeOK
    <3>5. got \in Env
        BY <3>4, OverrideType
    <3>2. /\ DOMAIN got = DOMAIN updates[c] \cup {k}
          /\ \A j \in DOMAIN updates[c] : got[j] = updates[c][j]
        BY DEF Override, Only, Stripped
    <3>3. updates' = [updates EXCEPT ![c] = got] /\ pc' = [pc EXCEPT ![c] = pc'[c]]
          /\ pc'[c] \in {"merge", "fetch"}
        BY <2>6, <3>1 DEF Bring, Goto, TypeOK
    <3>6. got[k] = Strip(external[k]) /\ Strip(got[k]) = Strip(external[k])
      <4>1. external[k] \in Values
          BY EnvIs DEF TypeOK
      <4> QED BY <4>1, StripType DEF Override, Only, Stripped
    <3> HIDE DEF got
    <3> QED BY <2>6, <3>2, <3>3, <3>6 DEF Fetch, TypeOK, KindInv, AgreeInv, Agrees
  <2>7. CASE MergeRead(c)
      BY <2>7, EmptyType DEF MergeRead, TypeOK, Requests, NoRequest, Goto, Bring, Finish,
          Leave, Disturb, KindInv, AgreeInv, Agrees
  <2>8. CASE MergeWrite(c)
    <3>1. \A k \in DOMAIN updates[c] : k \in DOMAIN vault' /\ vault'[k] = updates[c][k]
        BY <2>8 DEF MergeWrite, Override
    <3> QED BY <2>8, <3>1 DEF MergeWrite, TypeOK, Requests, NoRequest, Goto, Bring, Finish,
                Leave, Disturb, KindInv, AgreeInv, Agrees
  <2>9. CASE Authority(c)
      BY <2>9, EmptyType DEF Authority, TypeOK, Requests, NoRequest, Goto, Bring, Finish,
          Leave, Disturb, KindInv, AgreeInv, Agrees
  <2>10. CASE ReadBucket(c)
      BY <2>10, EmptyType DEF ReadBucket, TypeOK, Requests, NoRequest, Goto, Bring, Finish,
          Leave, Disturb, KindInv, AgreeInv, Agrees
  <2>11. ASSUME NEW k \in Keys,
             PutKey(c, k) PROVE AgreeInv'
    <3>1. /\ k \in DOMAIN external' /\ external'[k] = updates[c][k]
          /\ \A j \in DOMAIN external \ {k} :
                j \in DOMAIN external' /\ external'[j] = external[j]
        BY <2>11 DEF PutKey, TypeOK, Override, Only
    <3> QED BY <2>11, <3>1, PutStep DEF PutKey
  <2>12. ASSUME NEW ref \in Refs,
             PutBucket(c, ref) PROVE AgreeInv'
    <3> DEFINE fields == {k \in Keys : RefOf[k] = ref}
               old == Only(external, Keys \ fields)
               read == Only(snapshot[c], fields)
               new == Only(updates[c], fields)
    <3>1. /\ \A k \in fields \cap DOMAIN updates[c] :
                k \in DOMAIN external' /\ external'[k] = updates[c][k]
          /\ \A k \in DOMAIN external \ fields :
                k \in DOMAIN external' /\ external'[k] = external[k]
      <4>1. /\ DOMAIN external \subseteq Keys
            /\ external' = Override(old, Override(read, new))
          BY <2>12, EnvIs DEF PutBucket, TypeOK
      <4> HIDE DEF fields
      <4> QED BY <4>1 DEF Override, Only
    <3>2. Put(c, fields) /\ pc[c] = "bucket"
        BY <2>12 DEF PutBucket
    <3>3. \A k \in DOMAIN updates[c] \cap fields : k \in fields \cap DOMAIN updates[c]
        OBVIOUS
    <3> HIDE DEF fields
    <3> QED BY <3>1, <3>2, <3>3, PutStep
  <2>13. CASE Fail(c)
      BY <2>13, EmptyType DEF Fail, TypeOK, Requests, NoRequest, Goto, Bring, Finish, Leave,
          Disturb, KindInv, AgreeInv, Agrees
  <2> QED BY <1>1, <2>1, <2>2, <2>3, <2>4, <2>5, <2>6, <2>7, <2>8, <2>9, <2>10, <2>11, <2>12,
              <2>13 DEF Step
<1>2. CASE UNCHANGED vars
    BY <1>2 DEF vars, TypeOK, Requests, NoRequest, Goto, Bring, Finish, Leave, Disturb,
        KindInv, AgreeInv, Agrees
<1> QED BY <1>1, <1>2 DEF Next

\* The invariant of the theorems that follow.
LEMMA VaultInductive == Spec => []VaultInv
<1>1. VaultInv /\ [Next]_vars => VaultInv'
    BY TypeStep, KindStep, ReadStep, AgreeStep DEF VaultInv
<1> QED BY InvInit, <1>1, PTL DEF Spec

-----------------------------------------------------------------------------

\* A command that has persisted or synced, that reports success and that nobody
\* has overtaken leaves the file and the authority with the same values.
THEOREM AgreementHolds == Spec => []OkMeansAgreement
<1>1. VaultInv => OkMeansAgreement
    BY DEF VaultInv, KindInv, AgreeInv, Agrees, OkMeansAgreement
<1> QED BY VaultInductive, <1>1, PTL

\* Only a command that was asked to changes a credential, or one that another has
\* overtaken: merge_set rewrites the file it has read.
THEOREM ChangesAreAsked == Spec => CredentialChangedOnRequest
<1> DEFINE Kept == \A k \in DOMAIN vault :
             \/ k \in DOMAIN vault' /\ vault'[k] = vault[k]
             \/ \E c \in Commands :
                  /\ pc[c] = "write" /\ pc'[c] # "write"
                  /\ Asked(c, k) \/ c \in disturbed
<1>1. VaultInv /\ [Next]_vars => [Kept]_vars
  <2> SUFFICES ASSUME VaultInv, NEW c \in Commands, Step(c) PROVE Kept
      BY DEF Next
  <2> USE DEF Goto, Finish, Leave, Put, Begin, VaultInv, TypeOK, Requests
  <2>1. CASE MergeWrite(c)
    <3>1. CASE c \in disturbed
        BY <2>1, <3>1 DEF MergeWrite
    <3>2. CASE c \notin disturbed
      <4>1. snapshot[c] = vault /\ request[c].kind # "persist"
          BY <2>1, <3>2 DEF MergeWrite, ReadInv, KindInv
      <4>2. ASSUME NEW k \in DOMAIN vault, k \notin DOMAIN updates[c]
            PROVE  k \in DOMAIN vault' /\ vault'[k] = vault[k]
          BY <2>1, <4>1, <4>2 DEF MergeWrite, Override
      <4>3. ASSUME NEW k \in DOMAIN vault, k \in DOMAIN updates[c]
            PROVE  Asked(c, k)
          BY <2>1, <3>2, <4>1, <4>3 DEF MergeWrite, ReadInv, Asked
      <4>4. pc[c] = "write" /\ pc'[c] # "write"
          BY <2>1 DEF MergeWrite
      <4> QED BY <4>2, <4>3, <4>4
    <3> QED BY <3>1, <3>2
  <2>2. ASSUME ~MergeWrite(c) PROVE vault' = vault
      BY <2>2 DEF Step, Set, Ensure, Sync, GsmPersist, EnsureRead, Fetch, MergeRead,
          Authority, ReadBucket, PutKey, PutBucket, Fail
  <2> QED BY <2>1, <2>2
<1> QED BY VaultInductive, <1>1, PTL DEF Spec, CredentialChangedOnRequest

-----------------------------------------------------------------------------
(* The recovery of a vault                                                    *)

\* At first there is no key, no entry and no vault.
LEMMA RecoveryTypeInit == RecoveryInit => RecoveryTypeOK
<1> SUFFICES ASSUME RecoveryInit PROVE RecoveryTypeOK
    OBVIOUS
<1>1. vaults \in [Envs -> Passwords \cup {None}] /\ mishaps \in 0..MaxMishaps
    BY MishapsAssumption DEF RecoveryInit
<1>2. entry \in [password : Passwords \cup {None}, of : {"key", "old"}]
    BY DEF RecoveryInit, NoEntry
<1> QED BY <1>1, <1>2 DEF RecoveryInit, RecoveryTypeOK, RecoverSteps, BootstrapSteps

\* Every step of the recovery, of the bootstrap and of the others keeps the types.
LEMMA RecoveryTypeStep == RecoveryTypeOK /\ [RecoveryNext]_recoveryVars => RecoveryTypeOK'
<1> SUFFICES ASSUME RecoveryTypeOK, [RecoveryNext]_recoveryVars PROVE RecoveryTypeOK'
    OBVIOUS
<1> USE EnvsAssumption, MishapsAssumption DEF RecoveryTypeOK, NoEntry, RecoveryStep, Stop,
        Note, Mishap, CanDecrypt, Opens, RecoverSteps, BootstrapSteps, world
<1>1. CASE Check
    BY <1>1 DEF Check
<1>2. CASE StartBootstrap
    BY <1>2 DEF StartBootstrap
<1>3. CASE Confirm
    BY <1>3 DEF Confirm
<1>4. CASE Backup
    BY <1>4 DEF Backup
<1>5. CASE Reset
    BY <1>5 DEF Reset
<1>6. CASE ForgetIdentity
    BY <1>6 DEF ForgetIdentity
<1>7. CASE DeleteSecretKey
    BY <1>7 DEF DeleteSecretKey
<1>8. CASE DeletePublicKey
    BY <1>8 DEF DeletePublicKey
<1>9. CASE UnlinkVault
    BY <1>9 DEF UnlinkVault
<1>10. CASE EnsureSecrets
    BY <1>10 DEF EnsureSecrets
<1>11. CASE EnsureFails
    BY <1>11 DEF EnsureFails
<1>12. CASE EnsureKey
    BY <1>12 DEF EnsureKey
<1>13. CASE EnsurePassInit
    BY <1>13 DEF EnsurePassInit
<1>14. ASSUME NEW p \in Passwords, Insert(p) PROVE RecoveryTypeOK'
    BY <1>14 DEF Insert
<1>15. CASE LoseKey
    BY <1>15 DEF LoseKey
<1>16. CASE ResetCommand
    BY <1>16 DEF ResetCommand
<1>17. CASE CutOff
    BY <1>17 DEF CutOff
<1>18. ASSUME NEW e \in Envs, WriteVault(e) PROVE RecoveryTypeOK'
    BY <1>18 DEF WriteVault
<1>19. CASE DeployReads
    BY <1>19 DEF DeployReads
<1>20. CASE Destroy
  <2>1. counted' \in BOOLEAN
    BY <1>20 DEF Destroy
  <2>2. deployed' = "no" => counted' = FALSE
    BY <1>20 DEF Destroy
  <2> QED BY <1>20, <2>1, <2>2 DEF Destroy
<1>21. CASE DeployRuns
  <2>1. counted' \in BOOLEAN
    BY <1>21 DEF DeployRuns
  <2>2. deployed' = "no" => counted' = FALSE
    BY <1>21 DEF DeployRuns
  <2> QED BY <1>21, <2>1, <2>2 DEF DeployRuns
<1>22. CASE DeploySucceeds
  <2>1. counted' \in BOOLEAN
    BY <1>22 DEF DeploySucceeds
  <2>2. deployed' = "no" => counted' = FALSE
    BY <1>22 DEF DeploySucceeds, Made
  <2> QED BY <1>22, <2>1, <2>2 DEF DeploySucceeds, Made
<1>23. CASE DeployFails
  <2>1. counted' \in BOOLEAN
    BY <1>23 DEF DeployFails
  <2>2. deployed' = "no" => counted' = FALSE
    BY <1>23 DEF DeployFails, Made
  <2> QED BY <1>23, <2>1, <2>2 DEF DeployFails, Made
<1>24. CASE DestroyFails
  <2>1. counted' \in BOOLEAN
    BY <1>24 DEF DestroyFails
  <2>2. deployed' = "no" => counted' = FALSE
    BY <1>24 DEF DestroyFails
  <2> QED BY <1>24, <2>1, <2>2 DEF DestroyFails
<1>25. CASE StateSpoilt
  <2>1. counted' \in BOOLEAN
    BY <1>25 DEF StateSpoilt
  <2>2. deployed' = "no" => counted' = FALSE
    BY <1>25 DEF StateSpoilt
  <2> QED BY <1>25, <2>1, <2>2 DEF StateSpoilt
<1>26. CASE UNCHANGED recoveryVars
    BY <1>26 DEF recoveryVars
<1> QED BY <1>1, <1>2, <1>3, <1>4, <1>5, <1>6, <1>7, <1>8, <1>9, <1>10, <1>11, <1>12, <1>13,
            <1>14, <1>15, <1>16, <1>17, <1>18, <1>19, <1>20, <1>21, <1>22, <1>23, <1>24, <1>25,
            <1>26 DEF RecoveryNext, CommandStep, Elsewhere

\* Type correctness of the recovery: a command has a step exactly while it runs, and
\* the steps of a recovery are a recovery's.
THEOREM RecoveryTypeCorrect == RecoverySpec => []RecoveryTypeOK
BY RecoveryTypeInit, RecoveryTypeStep, PTL DEF RecoverySpec

-----------------------------------------------------------------------------
(* What a recovery has checked stays so, or what made it untrue is noted.     *)

\* No other environment has got a file.
OthersInv == (\A e \in Others : vaults[e] = None) \/ "vault" \in late

\* From the backup to the removal of the file the backup holds its content.
SavedInv ==
    at \in {"reset", "forget", "secret", "public", "unlink"} => saved \/ "write" \in late

\* A deploy has read the credentials, and is noted, before its state says "ok".
UncountedInv == (~counted /\ consuming = "no") \/ "deploy" \in late

\* All of it is known of a recovery under way.
CheckedInv == job = "recover" => OthersInv /\ SavedInv /\ UncountedInv

\* Who makes one of them untrue meanwhile is noted in late.
LEMMA CheckedStep == RecoveryTypeOK /\ CheckedInv /\ [RecoveryNext]_recoveryVars => CheckedInv'
<1> SUFFICES ASSUME RecoveryTypeOK, CheckedInv, [RecoveryNext]_recoveryVars PROVE CheckedInv'
    OBVIOUS
<1> USE EnvsAssumption DEF RecoveryTypeOK, RecoveryStep, Stop, Note, Mishap, RecoverSteps,
        BootstrapSteps, world, Others, CheckedInv, OthersInv, SavedInv, UncountedInv
<1>1. CASE Check
    BY <1>1 DEF Check
<1>2. CASE StartBootstrap
    BY <1>2 DEF StartBootstrap
<1>3. CASE Confirm
    BY <1>3 DEF Confirm
<1>4. CASE Backup
    BY <1>4 DEF Backup
<1>5. CASE Reset
    BY <1>5 DEF Reset
<1>6. CASE ForgetIdentity
    BY <1>6 DEF ForgetIdentity
<1>7. CASE DeleteSecretKey
    BY <1>7 DEF DeleteSecretKey
<1>8. CASE DeletePublicKey
    BY <1>8 DEF DeletePublicKey
<1>9. CASE UnlinkVault
    BY <1>9 DEF UnlinkVault
<1>10. CASE EnsureSecrets
    BY <1>10 DEF EnsureSecrets
<1>11. CASE EnsureFails
    BY <1>11 DEF EnsureFails
<1>12. CASE EnsureKey
    BY <1>12 DEF EnsureKey
<1>13. CASE EnsurePassInit
    BY <1>13 DEF EnsurePassInit
<1>14. ASSUME NEW p \in Passwords, Insert(p) PROVE CheckedInv'
    BY <1>14 DEF Insert
<1>15. CASE LoseKey
    BY <1>15 DEF LoseKey
<1>16. CASE ResetCommand
    BY <1>16 DEF ResetCommand
<1>17. CASE CutOff
    BY <1>17 DEF CutOff
<1>18. ASSUME NEW e \in Envs, WriteVault(e) PROVE CheckedInv'
    BY <1>18 DEF WriteVault
<1>19. CASE DeployReads
    BY <1>19 DEF DeployReads
<1>20. CASE Destroy
    BY <1>20 DEF Destroy
<1>21. CASE DeployRuns
    BY <1>21 DEF DeployRuns
<1>22. CASE DeploySucceeds
    BY <1>22 DEF DeploySucceeds, Made
<1>23. CASE DeployFails
    BY <1>23 DEF DeployFails, Made
<1>24. CASE DestroyFails
    BY <1>24 DEF DestroyFails
<1>25. CASE StateSpoilt
    BY <1>25 DEF StateSpoilt
<1>26. CASE UNCHANGED recoveryVars
    BY <1>26 DEF recoveryVars
<1> QED BY <1>1, <1>2, <1>3, <1>4, <1>5, <1>6, <1>7, <1>8, <1>9, <1>10, <1>11, <1>12, <1>13,
            <1>14, <1>15, <1>16, <1>17, <1>18, <1>19, <1>20, <1>21, <1>22, <1>23, <1>24, <1>25,
            <1>26 DEF RecoveryNext, CommandStep, Elsewhere

\* A recovery changes the shared password while no other environment has a file,
\* and removes its own file only with the content in the backup and with no step
\* of its blueprint in a state that says "ok", but for what other terminals did
\* since its checks.  A resource behind any other state is not counted.
THEOREM CheckedFirst == RecoverySpec => OnlyWhatWasChecked
<1> DEFINE Careful ==
        job = "recover" =>
         /\ entry'.password # entry.password
              => (\A e \in Others : vaults[e] = None) \/ "vault" \in late
         /\ vaults[Selected] # None /\ vaults'[Selected] = None
              => /\ saved \/ "write" \in late
                 /\ ~counted \/ "deploy" \in late
<1>1. RecoveryInit => CheckedInv
    BY DEF RecoveryInit, CheckedInv
<1>2. RecoveryTypeOK /\ CheckedInv /\ [RecoveryNext]_recoveryVars => [Careful]_recoveryVars
  <2> SUFFICES ASSUME RecoveryTypeOK, CheckedInv, RecoveryNext, job = "recover",
                      vaults[Selected] # None, vaults'[Selected] = None
               PROVE  SavedInv /\ at = "unlink"
      BY DEF CheckedInv, OthersInv, SavedInv, UncountedInv
  <2>1. vaults' = vaults \/ UnlinkVault \/ EnsureSecrets \/ \E e \in Envs : WriteVault(e)
      BY DEF RecoveryNext, CommandStep, Elsewhere, Check, StartBootstrap, Confirm, Backup,
          Reset, ForgetIdentity, DeleteSecretKey, DeletePublicKey, EnsureFails, EnsureKey,
          EnsurePassInit, Insert, LoseKey, ResetCommand, CutOff, DeployReads, Destroy,
          DeployRuns, DeploySucceeds, DeployFails, DestroyFails, StateSpoilt, world
  <2>2. ~EnsureSecrets /\ ~\E e \in Envs : WriteVault(e)
      BY EnvsAssumption DEF EnsureSecrets, WriteVault, CanDecrypt, RecoveryTypeOK
  <2> QED BY <2>1, <2>2 DEF UnlinkVault, RecoveryStep, CheckedInv
<1> QED BY <1>1, <1>2, RecoveryTypeCorrect, CheckedStep, PTL DEF RecoverySpec,
            OnlyWhatWasChecked
=============================================================================
