------------------------- MODULE ProxmoxInit_proofs --------------------------
(* Proofs about ProxmoxInit, for any runs, environments and secrets.          *)
EXTENDS ProxmoxInit, TLAPS

\* At first there is no token, no user and no file.
LEMMA TypeInit == Init => TypeOK
BY SecretsAssumption DEF Init, TypeOK, Steps, Script

\* Every step of the command, of its script and of the operator keeps the types.
LEMMA TypeStep == TypeOK /\ [Next]_vars => TypeOK'
<1> SUFFICES ASSUME TypeOK, [Next]_vars PROVE TypeOK'
    OBVIOUS
<1> USE SecretsAssumption DEF TypeOK, Goto, End, Merge, Undo, Alone, Abandon, Env,
        Forced, Cut, Steps, Script, Jobs, host, files, command, history
<1>1. ASSUME NEW r \in Runs, NEW j \in Jobs, Begin(r, j) PROVE TypeOK'
    BY <1>1 DEF Begin
<1>2. ASSUME NEW r \in Runs, Check(r) PROVE TypeOK'
    BY <1>2 DEF Check
<1>3. ASSUME NEW r \in Runs, Search(r) PROVE TypeOK'
    BY <1>3 DEF Search
<1>4. ASSUME NEW r \in Runs, Adopt(r) PROVE TypeOK'
    BY <1>4 DEF Adopt
<1>5. ASSUME NEW r \in Runs, Plan(r) PROVE TypeOK'
    BY <1>5 DEF Plan
<1>6. ASSUME NEW r \in Runs, Refuse(r) PROVE TypeOK'
    BY <1>6 DEF Refuse
<1>7. ASSUME NEW r \in Runs, EnsureUser(r) PROVE TypeOK'
    BY <1>7 DEF EnsureUser
<1>8. ASSUME NEW r \in Runs, List(r) PROVE TypeOK'
    BY <1>8 DEF List
<1>9. ASSUME NEW r \in Runs, Remove(r) PROVE TypeOK'
    BY <1>9 DEF Remove
<1>10. ASSUME NEW r \in Runs, Add(r) PROVE TypeOK'
    BY <1>10 DEF Add
<1>11. ASSUME NEW r \in Runs, Grant(r) PROVE TypeOK'
    BY <1>11 DEF Grant
<1>12. ASSUME NEW r \in Runs, ScriptFails(r) PROVE TypeOK'
    BY <1>12 DEF ScriptFails
<1>13. ASSUME NEW r \in Runs, Trap(r) PROVE TypeOK'
    BY <1>13 DEF Trap
<1>14. ASSUME NEW r \in Runs, Return(r) PROVE TypeOK'
    BY <1>14 DEF Return
<1>15. ASSUME NEW r \in Runs, Persist(r) PROVE TypeOK'
    BY <1>15 DEF Persist
<1>16. ASSUME NEW r \in Runs, PersistFails(r) PROVE TypeOK'
    BY <1>16 DEF PersistFails
<1>17. ASSUME NEW r \in Runs, Rollback(r) PROVE TypeOK'
    BY <1>17 DEF Rollback
<1>18. ASSUME NEW r \in Runs, Validate(r) PROVE TypeOK'
    BY <1>18 DEF Validate
<1>19. ASSUME NEW r \in Runs, ValidateFails(r) PROVE TypeOK'
    BY <1>19 DEF ValidateFails
<1>20. ASSUME NEW r \in Runs, WriteCreds(r) PROVE TypeOK'
    BY <1>20 DEF WriteCreds
<1>21. ASSUME NEW r \in Runs, Mark(r) PROVE TypeOK'
    BY <1>21 DEF Mark
<1>22. ASSUME NEW r \in Runs, Stops(r) PROVE TypeOK'
    BY <1>22 DEF Stops
<1>23. ASSUME NEW e \in Envs, Forget(e) PROVE TypeOK'
    BY <1>23 DEF Forget
<1>24. ASSUME NEW r \in Runs, Interrupted(r) PROVE TypeOK'
    BY <1>24 DEF Interrupted
<1>25. CASE UNCHANGED vars
    BY <1>25 DEF vars
<1> QED BY <1>1, <1>2, <1>3, <1>4, <1>5, <1>6, <1>7, <1>8, <1>9, <1>10, <1>11, <1>12, <1>13,
            <1>14, <1>15, <1>16, <1>17, <1>18, <1>19, <1>20, <1>21, <1>22, <1>23,
            <1>24, <1>25 DEF Next

-----------------------------------------------------------------------------
(* A secret that is being made is nobody else's, so that the clean-up of its  *)
(* maker takes it from nobody; and whatever else takes down a token is        *)
(* accounted for.                                                             *)

\* The steps of a command before it makes a token, and while it has its own.
Before == {"idle", "check", "search", "adopt", "plan", "user", "list", "remove", "add"}
Making == {"acl", "return", "trap", "persist", "rollback"}

\* A run has a token of its own making only once it has made one, and removes one
\* only when it is forced to.
MadeInv ==
    \A r \in Runs : /\ pc[r] \in Before => "token" \notin made[r]
                    /\ pc[r] = "remove" => Forced(r)

\* The secret of that token is in no file and with no other run.
FreshInv ==
    \A r \in Runs : pc[r] \in Making /\ "token" \in made[r] =>
        /\ secret[r] # None
        /\ \A e \in Envs : vault[e] # secret[r] /\ creds[e] # secret[r]
        /\ \A q \in Runs \ {r} : secret[q] # secret[r]

\* A secret that is used is the token's, or was revoked knowingly.
Accounted(s) == s # None => s = token \/ s \in revoked

\* What is marked ready, or about to be, uses such a secret.
WorkInv ==
    /\ \A e \in Envs : Accounted(creds[e])
    /\ \A r \in Runs : pc[r] \in {"write", "mark"} => Accounted(secret[r])

\* At first nobody has a secret.
LEMMA InvInit == Init => MadeInv /\ FreshInv /\ WorkInv
BY DEF Init, MadeInv, FreshInv, WorkInv, Accounted, Before, Making

\* A token is in made[r] between its making and the end of the run.
LEMMA MadeStep ==
    TypeOK /\ MadeInv /\ [Next]_vars => MadeInv'
<1> SUFFICES ASSUME TypeOK, MadeInv, [Next]_vars PROVE MadeInv'
    OBVIOUS
<1> USE SecretsAssumption DEF TypeOK, Goto, End, Merge, Undo, Alone, Abandon, Env,
        Forced, Cut, Steps, Script, Jobs, host, files, command, history, MadeInv, Before
<1>1. ASSUME NEW r \in Runs, NEW j \in Jobs, Begin(r, j) PROVE MadeInv'
    BY <1>1 DEF Begin
<1>2. ASSUME NEW r \in Runs, Check(r) PROVE MadeInv'
    BY <1>2 DEF Check
<1>3. ASSUME NEW r \in Runs, Search(r) PROVE MadeInv'
    BY <1>3 DEF Search
<1>4. ASSUME NEW r \in Runs, Adopt(r) PROVE MadeInv'
    BY <1>4 DEF Adopt
<1>5. ASSUME NEW r \in Runs, Plan(r) PROVE MadeInv'
    BY <1>5 DEF Plan
<1>6. ASSUME NEW r \in Runs, Refuse(r) PROVE MadeInv'
    BY <1>6 DEF Refuse
<1>7. ASSUME NEW r \in Runs, EnsureUser(r) PROVE MadeInv'
    BY <1>7 DEF EnsureUser
<1>8. ASSUME NEW r \in Runs, List(r) PROVE MadeInv'
    BY <1>8 DEF List
<1>9. ASSUME NEW r \in Runs, Remove(r) PROVE MadeInv'
    BY <1>9 DEF Remove
<1>10. ASSUME NEW r \in Runs, Add(r) PROVE MadeInv'
    BY <1>10 DEF Add
<1>11. ASSUME NEW r \in Runs, Grant(r) PROVE MadeInv'
    BY <1>11 DEF Grant
<1>12. ASSUME NEW r \in Runs, ScriptFails(r) PROVE MadeInv'
    BY <1>12 DEF ScriptFails
<1>13. ASSUME NEW r \in Runs, Trap(r) PROVE MadeInv'
    BY <1>13 DEF Trap
<1>14. ASSUME NEW r \in Runs, Return(r) PROVE MadeInv'
    BY <1>14 DEF Return
<1>15. ASSUME NEW r \in Runs, Persist(r) PROVE MadeInv'
    BY <1>15 DEF Persist
<1>16. ASSUME NEW r \in Runs, PersistFails(r) PROVE MadeInv'
    BY <1>16 DEF PersistFails
<1>17. ASSUME NEW r \in Runs, Rollback(r) PROVE MadeInv'
    BY <1>17 DEF Rollback
<1>18. ASSUME NEW r \in Runs, Validate(r) PROVE MadeInv'
    BY <1>18 DEF Validate
<1>19. ASSUME NEW r \in Runs, ValidateFails(r) PROVE MadeInv'
    BY <1>19 DEF ValidateFails
<1>20. ASSUME NEW r \in Runs, WriteCreds(r) PROVE MadeInv'
    BY <1>20 DEF WriteCreds
<1>21. ASSUME NEW r \in Runs, Mark(r) PROVE MadeInv'
    BY <1>21 DEF Mark
<1>22. ASSUME NEW r \in Runs, Stops(r) PROVE MadeInv'
    BY <1>22 DEF Stops
<1>23. ASSUME NEW e \in Envs, Forget(e) PROVE MadeInv'
    BY <1>23 DEF Forget
<1>24. ASSUME NEW r \in Runs, Interrupted(r) PROVE MadeInv'
    BY <1>24 DEF Interrupted
<1>25. CASE UNCHANGED vars
    BY <1>25 DEF vars
<1> QED BY <1>1, <1>2, <1>3, <1>4, <1>5, <1>6, <1>7, <1>8, <1>9, <1>10, <1>11, <1>12, <1>13,
            <1>14, <1>15, <1>16, <1>17, <1>18, <1>19, <1>20, <1>21, <1>22, <1>23, <1>24, <1>25
            DEF Next

\* A secret that is being made is given away only when the run persists it.
LEMMA FreshStep ==
    TypeOK /\ MadeInv /\ FreshInv /\ [Next]_vars => FreshInv'
<1> SUFFICES ASSUME TypeOK, MadeInv, FreshInv, [Next]_vars PROVE FreshInv'
    OBVIOUS
<1> USE SecretsAssumption DEF TypeOK, Goto, End, Merge, Undo, Alone, Abandon, Env,
        Forced, Cut, Steps, Script, Jobs, host, files, command, history, MadeInv, FreshInv,
        Before, Making
<1>1. ASSUME NEW r \in Runs, NEW j \in Jobs, Begin(r, j) PROVE FreshInv'
    BY <1>1 DEF Begin
<1>2. ASSUME NEW r \in Runs, Check(r) PROVE FreshInv'
    BY <1>2 DEF Check
<1>3. ASSUME NEW r \in Runs, Search(r) PROVE FreshInv'
    BY <1>3 DEF Search, Offered
<1>4. ASSUME NEW r \in Runs, Adopt(r) PROVE FreshInv'
    BY <1>4 DEF Adopt
<1>5. ASSUME NEW r \in Runs, Plan(r) PROVE FreshInv'
    BY <1>5 DEF Plan
<1>6. ASSUME NEW r \in Runs, Refuse(r) PROVE FreshInv'
    BY <1>6 DEF Refuse
<1>7. ASSUME NEW r \in Runs, EnsureUser(r) PROVE FreshInv'
    BY <1>7 DEF EnsureUser
<1>8. ASSUME NEW r \in Runs, List(r) PROVE FreshInv'
    BY <1>8 DEF List
<1>9. ASSUME NEW r \in Runs, Remove(r) PROVE FreshInv'
    BY <1>9 DEF Remove
<1>10. ASSUME NEW r \in Runs, Add(r) PROVE FreshInv'
    BY <1>10 DEF Add, InUse
<1>11. ASSUME NEW r \in Runs, Grant(r) PROVE FreshInv'
    BY <1>11 DEF Grant
<1>12. ASSUME NEW r \in Runs, ScriptFails(r) PROVE FreshInv'
    BY <1>12 DEF ScriptFails
<1>13. ASSUME NEW r \in Runs, Trap(r) PROVE FreshInv'
    BY <1>13 DEF Trap
<1>14. ASSUME NEW r \in Runs, Return(r) PROVE FreshInv'
    BY <1>14 DEF Return
<1>15. ASSUME NEW r \in Runs, Persist(r) PROVE FreshInv'
    BY <1>15 DEF Persist
<1>16. ASSUME NEW r \in Runs, PersistFails(r) PROVE FreshInv'
    BY <1>16 DEF PersistFails
<1>17. ASSUME NEW r \in Runs, Rollback(r) PROVE FreshInv'
    BY <1>17 DEF Rollback
<1>18. ASSUME NEW r \in Runs, Validate(r) PROVE FreshInv'
    BY <1>18 DEF Validate
<1>19. ASSUME NEW r \in Runs, ValidateFails(r) PROVE FreshInv'
    BY <1>19 DEF ValidateFails
<1>20. ASSUME NEW r \in Runs, WriteCreds(r) PROVE FreshInv'
    BY <1>20 DEF WriteCreds
<1>21. ASSUME NEW r \in Runs, Mark(r) PROVE FreshInv'
    BY <1>21 DEF Mark
<1>22. ASSUME NEW r \in Runs, Stops(r) PROVE FreshInv'
    BY <1>22 DEF Stops
<1>23. ASSUME NEW e \in Envs, Forget(e) PROVE FreshInv'
    BY <1>23 DEF Forget
<1>24. ASSUME NEW r \in Runs, Interrupted(r) PROVE FreshInv'
    BY <1>24 DEF Interrupted
<1>25. CASE UNCHANGED vars
    BY <1>25 DEF vars
<1> QED BY <1>1, <1>2, <1>3, <1>4, <1>5, <1>6, <1>7, <1>8, <1>9, <1>10, <1>11, <1>12, <1>13,
            <1>14, <1>15, <1>16, <1>17, <1>18, <1>19, <1>20, <1>21, <1>22, <1>23, <1>24, <1>25
            DEF Next

\* Whoever takes a token down accounts for those who use it.
LEMMA WorkStep ==
    TypeOK /\ MadeInv /\ FreshInv /\ WorkInv /\ [Next]_vars => WorkInv'
<1> SUFFICES ASSUME TypeOK, MadeInv, FreshInv, WorkInv, [Next]_vars PROVE WorkInv'
    OBVIOUS
<1> USE SecretsAssumption DEF TypeOK, Goto, End, Merge, Undo, Alone, Abandon, Env,
        Forced, Cut, Steps, Script, Jobs, host, files, command, history, MadeInv, FreshInv,
        WorkInv, Accounted, Making
<1>1. ASSUME NEW r \in Runs, NEW j \in Jobs, Begin(r, j) PROVE WorkInv'
    BY <1>1 DEF Begin
<1>2. ASSUME NEW r \in Runs, Check(r) PROVE WorkInv'
    BY <1>2 DEF Check
<1>3. ASSUME NEW r \in Runs, Search(r) PROVE WorkInv'
    BY <1>3 DEF Search
<1>4. ASSUME NEW r \in Runs, Adopt(r) PROVE WorkInv'
    BY <1>4 DEF Adopt
<1>5. ASSUME NEW r \in Runs, Plan(r) PROVE WorkInv'
    BY <1>5 DEF Plan
<1>6. ASSUME NEW r \in Runs, Refuse(r) PROVE WorkInv'
    BY <1>6 DEF Refuse
<1>7. ASSUME NEW r \in Runs, EnsureUser(r) PROVE WorkInv'
    BY <1>7 DEF EnsureUser
<1>8. ASSUME NEW r \in Runs, List(r) PROVE WorkInv'
    BY <1>8 DEF List
<1>9. ASSUME NEW r \in Runs, Remove(r) PROVE WorkInv'
    BY <1>9 DEF Remove
<1>10. ASSUME NEW r \in Runs, Add(r) PROVE WorkInv'
    BY <1>10 DEF Add, InUse
<1>11. ASSUME NEW r \in Runs, Grant(r) PROVE WorkInv'
    BY <1>11 DEF Grant
<1>12. ASSUME NEW r \in Runs, ScriptFails(r) PROVE WorkInv'
    BY <1>12 DEF ScriptFails
<1>13. ASSUME NEW r \in Runs, Trap(r) PROVE WorkInv'
    BY <1>13 DEF Trap
<1>14. ASSUME NEW r \in Runs, Return(r) PROVE WorkInv'
    BY <1>14 DEF Return
<1>15. ASSUME NEW r \in Runs, Persist(r) PROVE WorkInv'
    BY <1>15 DEF Persist
<1>16. ASSUME NEW r \in Runs, PersistFails(r) PROVE WorkInv'
    BY <1>16 DEF PersistFails
<1>17. ASSUME NEW r \in Runs, Rollback(r) PROVE WorkInv'
    BY <1>17 DEF Rollback
<1>18. ASSUME NEW r \in Runs, Validate(r) PROVE WorkInv'
    BY <1>18 DEF Validate
<1>19. ASSUME NEW r \in Runs, ValidateFails(r) PROVE WorkInv'
    BY <1>19 DEF ValidateFails
<1>20. ASSUME NEW r \in Runs, WriteCreds(r) PROVE WorkInv'
    BY <1>20 DEF WriteCreds
<1>21. ASSUME NEW r \in Runs, Mark(r) PROVE WorkInv'
    BY <1>21 DEF Mark
<1>22. ASSUME NEW r \in Runs, Stops(r) PROVE WorkInv'
    BY <1>22 DEF Stops
<1>23. ASSUME NEW e \in Envs, Forget(e) PROVE WorkInv'
    BY <1>23 DEF Forget
<1>24. ASSUME NEW r \in Runs, Interrupted(r) PROVE WorkInv'
    BY <1>24 DEF Interrupted
<1>25. CASE UNCHANGED vars
    BY <1>25 DEF vars
<1> QED BY <1>1, <1>2, <1>3, <1>4, <1>5, <1>6, <1>7, <1>8, <1>9, <1>10, <1>11, <1>12, <1>13,
            <1>14, <1>15, <1>16, <1>17, <1>18, <1>19, <1>20, <1>21, <1>22, <1>23, <1>24, <1>25
            DEF Next

\* A ready environment can use the host until a command with --force, or the
\* clean-up of a command that had made something, came in between: whatever
\* fails or stops, and however many commands run at once.
THEOREM ReadyStays == Spec => []ReadyWorks
<1>1. /\ TypeOK /\ MadeInv /\ FreshInv /\ WorkInv
      /\ [Next]_vars
      => TypeOK' /\ MadeInv' /\ FreshInv' /\ WorkInv'
    BY TypeStep, MadeStep, FreshStep, WorkStep
<1>2. WorkInv => ReadyWorks
    BY DEF WorkInv, Accounted, ReadyWorks
<1> QED BY TypeInit, InvInit, <1>1, <1>2, PTL DEF Spec

-----------------------------------------------------------------------------
(* Somebody has the secret of the token.                                      *)

\* Until it is lost, the secret of the token is in a vault or with its maker.
HeldInv ==
    token # None =>
        \/ lost
        \/ \E e \in Envs : vault[e] = token
        \/ \E r \in Runs : pc[r] \in Making /\ Alone(r) /\ ~Cut(r)

\* Nobody lets go of the secret of a token that stands.
LEMMA HeldStep ==
    TypeOK /\ MadeInv /\ HeldInv /\ [Next]_vars => HeldInv'
<1> SUFFICES ASSUME TypeOK, MadeInv, HeldInv, [Next]_vars PROVE HeldInv'
    OBVIOUS
<1> USE SecretsAssumption DEF TypeOK, Goto, End, Merge, Undo, Alone, Abandon, Env,
        Forced, Cut, Steps, Script, Jobs, host, files, command, history, MadeInv, HeldInv,
        Before, Making
<1>1. ASSUME NEW r \in Runs, NEW j \in Jobs, Begin(r, j) PROVE HeldInv'
    BY <1>1 DEF Begin
<1>2. ASSUME NEW r \in Runs, Check(r) PROVE HeldInv'
    BY <1>2 DEF Check
<1>3. ASSUME NEW r \in Runs, Search(r) PROVE HeldInv'
    BY <1>3 DEF Search
<1>4. ASSUME NEW r \in Runs, Adopt(r) PROVE HeldInv'
    BY <1>4 DEF Adopt
<1>5. ASSUME NEW r \in Runs, Plan(r) PROVE HeldInv'
    BY <1>5 DEF Plan
<1>6. ASSUME NEW r \in Runs, Refuse(r) PROVE HeldInv'
    BY <1>6 DEF Refuse
<1>7. ASSUME NEW r \in Runs, EnsureUser(r) PROVE HeldInv'
    BY <1>7 DEF EnsureUser
<1>8. ASSUME NEW r \in Runs, List(r) PROVE HeldInv'
    BY <1>8 DEF List
<1>9. ASSUME NEW r \in Runs, Remove(r) PROVE HeldInv'
    BY <1>9 DEF Remove
<1>10. ASSUME NEW r \in Runs, Add(r) PROVE HeldInv'
    BY <1>10 DEF Add
<1>11. ASSUME NEW r \in Runs, Grant(r) PROVE HeldInv'
    BY <1>11 DEF Grant
<1>12. ASSUME NEW r \in Runs, ScriptFails(r) PROVE HeldInv'
    BY <1>12 DEF ScriptFails
<1>13. ASSUME NEW r \in Runs, Trap(r) PROVE HeldInv'
    BY <1>13 DEF Trap
<1>14. ASSUME NEW r \in Runs, Return(r) PROVE HeldInv'
    BY <1>14 DEF Return
<1>15. ASSUME NEW r \in Runs, Persist(r) PROVE HeldInv'
    BY <1>15 DEF Persist
<1>16. ASSUME NEW r \in Runs, PersistFails(r) PROVE HeldInv'
    BY <1>16 DEF PersistFails
<1>17. ASSUME NEW r \in Runs, Rollback(r) PROVE HeldInv'
    BY <1>17 DEF Rollback
<1>18. ASSUME NEW r \in Runs, Validate(r) PROVE HeldInv'
    BY <1>18 DEF Validate
<1>19. ASSUME NEW r \in Runs, ValidateFails(r) PROVE HeldInv'
    BY <1>19 DEF ValidateFails
<1>20. ASSUME NEW r \in Runs, WriteCreds(r) PROVE HeldInv'
    BY <1>20 DEF WriteCreds
<1>21. ASSUME NEW r \in Runs, Mark(r) PROVE HeldInv'
    BY <1>21 DEF Mark
<1>22. ASSUME NEW r \in Runs, Stops(r) PROVE HeldInv'
    BY <1>22 DEF Stops
<1>23. ASSUME NEW e \in Envs, Forget(e) PROVE HeldInv'
    BY <1>23 DEF Forget
<1>24. ASSUME NEW r \in Runs, Interrupted(r) PROVE HeldInv'
    BY <1>24 DEF Interrupted
<1>25. CASE UNCHANGED vars
    BY <1>25 DEF vars
<1> QED BY <1>1, <1>2, <1>3, <1>4, <1>5, <1>6, <1>7, <1>8, <1>9, <1>10, <1>11, <1>12, <1>13,
            <1>14, <1>15, <1>16, <1>17, <1>18, <1>19, <1>20, <1>21, <1>22, <1>23, <1>24, <1>25
            DEF Next

\* The secret of the token is in a vault or with the command that made it,
\* unless that command was stopped or a vault file removed or overtaken.
THEOREM TokenIsHeld == Spec => []NoTokenIsLost
<1>1. TypeOK /\ MadeInv /\ HeldInv /\ [Next]_vars => TypeOK' /\ MadeInv' /\ HeldInv'
    BY TypeStep, MadeStep, HeldStep
<1>2. HeldInv => NoTokenIsLost
    BY DEF HeldInv, NoTokenIsLost
<1>3. Init => HeldInv
    BY DEF Init, HeldInv
<1> QED BY TypeInit, InvInit, <1>1, <1>2, <1>3, PTL DEF Spec

\* Type correctness for any runs, environments and secrets.
THEOREM TypeCorrect == Spec => []TypeOK
BY TypeInit, TypeStep, PTL DEF Spec
=============================================================================
