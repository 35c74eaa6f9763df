------------------------ MODULE LifecycleLock_proofs ------------------------
(* Theorems about the lifecycle lock, for any processes on any hosts.        *)
EXTENDS LifecycleLock, TLAPS

\* While nobody has been robbed, the directory of a claimant exists, so that no
\* other mkdir can succeed.
ClaimInv ==
    ~breach =>
        /\ \A p \in Procs : pc[p] \in Claiming => dir
        /\ \A p, q \in Procs : pc[p] \in Claiming /\ pc[q] \in Claiming => p = q

\* Before the first stale verdict nobody is clearing, so that owner.json is the
\* file of the process that wrote it.
VerdictInv ==
    ~staled =>
        /\ ~breach
        /\ \A p \in Procs : /\ pc[p] \notin Clearing
                            /\ pc[p] \in {"sync", "held", "free"} => owner = p

\* The inductive invariant of both.
IInv == TypeOK /\ ClaimInv /\ VerdictInv

\* At first there is no directory, no claim and no verdict.
LEMMA InitIInv == Init => IInv
<1> SUFFICES ASSUME Init PROVE IInv
    OBVIOUS
<1> USE DEF Init
<1>1. TypeOK
  <2>1. pc \in [Procs -> Steps]
    BY DEF Steps
  <2>2. tries \in [Procs -> 0..MaxTries]
    BY DEF MaxTries
  <2> QED BY <2>1, <2>2 DEF TypeOK
<1>2. \A p \in Procs : pc[p] \notin Claiming \cup Clearing
    BY DEF Claiming, Writing, Giving, Clearing
<1>3. ClaimInv
    BY <1>2 DEF ClaimInv
<1>4. VerdictInv
    BY <1>2 DEF VerdictInv, Claiming, Writing, Giving
<1> QED BY <1>1, <1>3, <1>4 DEF IInv

\* Every step keeps the variables in their sets.
LEMMA TypeStep == TypeOK /\ [Next]_vars => TypeOK'
<1> USE NoneAssumption DEF TypeOK, Steps, Claiming, Clearing, Asking, Writing, Giving,
        Ended,
        MaxTries, Goto, files, history
<1> SUFFICES ASSUME TypeOK, [Next]_vars PROVE TypeOK'
    OBVIOUS
<1>1. CASE Age
    BY <1>1 DEF Age
<1>2. ASSUME NEW p \in Procs, Process(p) PROVE TypeOK'
  <2>1. CASE Begin(p) BY <2>1 DEF Begin
  <2>2. CASE Mkdir(p)
    <3>1. tries' \in [Procs -> 0..MaxTries]
        BY <2>2 DEF Mkdir
    <3>2. dir' \in BOOLEAN /\ aged' \in BOOLEAN
        BY <2>2 DEF Mkdir
    <3>3. pc' \in [Procs -> Steps]
        BY <2>2 DEF Mkdir
    <3> QED BY <2>2, <3>1, <3>2, <3>3 DEF Mkdir
  <2>3. CASE GiveUp(p) BY <2>3 DEF GiveUp
  <2>4. CASE MakeTemp(p) BY <2>4 DEF MakeTemp
  <2>5. CASE Replace(p) BY <2>5 DEF Replace
  <2>6. CASE Sync(p) BY <2>6 DEF Sync
  <2>7. CASE Undo(p) BY <2>7 DEF Undo, Rmdir, CanRmdir, UsedByAnother
  <2>8. CASE ReadOwner(p) BY <2>8 DEF ReadOwner
  <2>9. CASE Probe(p) BY <2>9 DEF Probe, LooksStale
  <2>10. CASE ClearOwner(p) BY <2>10 DEF ClearOwner, Unlink
  <2>11. CASE ClearDir(p) BY <2>11 DEF ClearDir, Rmdir, CanRmdir, UsedByAnother
  <2>12. CASE FreeOwner(p) BY <2>12 DEF FreeOwner, Unlink
  <2>13. CASE FreeDir(p) BY <2>13 DEF FreeDir, Rmdir, CanRmdir, UsedByAnother
  <2>14. CASE WriteFails(p) BY <2>14 DEF WriteFails
  <2>15. CASE Release(p) BY <2>15 DEF Release
  <2>16. CASE Exit(p) BY <2>16 DEF Exit
  <2>17. CASE Crash(p) BY <2>17 DEF Crash
  <2> QED BY <1>2, <2>1, <2>2, <2>3, <2>4, <2>5, <2>6, <2>7, <2>8, <2>9, <2>10, <2>11,
             <2>12, <2>13, <2>14, <2>15, <2>16, <2>17 DEF Process, Attempt
<1>3. CASE UNCHANGED vars
    BY <1>3 DEF vars
<1> QED BY <1>1, <1>2, <1>3 DEF Next

\* The claim invariant, one step per action; only Mkdir makes a claimant and
\* only the three rmdir calls take a directory away.
LEMMA ClaimStep == TypeOK /\ ClaimInv /\ [Next]_vars => ClaimInv'
<1> SUFFICES ASSUME TypeOK, ClaimInv, [Next]_vars, ~breach' PROVE
        /\ \A p \in Procs : pc'[p] \in Claiming => dir'
        /\ \A p, q \in Procs : pc'[p] \in Claiming /\ pc'[q] \in Claiming => p = q
    BY DEF ClaimInv
<1> DEFINE Claim == /\ \A p \in Procs : pc[p] \in Claiming => dir
                    /\ \A p, q \in Procs : pc[p] \in Claiming /\ pc[q] \in Claiming => p = q
<1> SUFFICES Claim'
    OBVIOUS
<1>0. ~breach => Claim
    BY DEF ClaimInv
<1> HIDE DEF Claim
<1> USE DEF Claiming, Clearing, Asking, Writing, Giving, Ended, Goto, files, history
<1>1. CASE Age
    BY <1>0, <1>1 DEF Age, Claim
<1>2. ASSUME NEW p \in Procs, Process(p) PROVE Claim'
  <2> USE DEF TypeOK, Claim
  <2>1. CASE Begin(p) BY <1>0, <2>1 DEF Begin
  <2>2. CASE Mkdir(p) BY <1>0, <2>2 DEF Mkdir
  <2>3. CASE GiveUp(p) BY <1>0, <2>3 DEF GiveUp
  <2>4. CASE MakeTemp(p) BY <1>0, <2>4 DEF MakeTemp
  <2>5. CASE Replace(p) BY <1>0, <2>5 DEF Replace
  <2>6. CASE Sync(p) BY <1>0, <2>6 DEF Sync
  <2>7. CASE Undo(p) BY <1>0, <2>7 DEF Undo, Rmdir, UsedByAnother
  <2>8. CASE ReadOwner(p) BY <1>0, <2>8 DEF ReadOwner
  <2>9. CASE Probe(p) BY <1>0, <2>9 DEF Probe
  <2>10. CASE ClearOwner(p) BY <1>0, <2>10 DEF ClearOwner, Unlink
  <2>11. CASE ClearDir(p) BY <1>0, <2>11 DEF ClearDir, Rmdir, UsedByAnother
  <2>12. CASE FreeOwner(p) BY <1>0, <2>12 DEF FreeOwner, Unlink
  <2>13. CASE FreeDir(p) BY <1>0, <2>13 DEF FreeDir, Rmdir, UsedByAnother
  <2>14. CASE WriteFails(p) BY <1>0, <2>14 DEF WriteFails
  <2>15. CASE Release(p) BY <1>0, <2>15 DEF Release
  <2>16. CASE Exit(p) BY <1>0, <2>16 DEF Exit
  <2>17. CASE Crash(p) BY <1>0, <2>17 DEF Crash
  <2> QED BY <1>2, <2>1, <2>2, <2>3, <2>4, <2>5, <2>6, <2>7, <2>8, <2>9, <2>10, <2>11,
             <2>12, <2>13, <2>14, <2>15, <2>16, <2>17 DEF Process, Attempt
<1>3. CASE UNCHANGED vars
    BY <1>0, <1>3 DEF vars, Claim
<1> QED BY <1>1, <1>2, <1>3 DEF Next

\* Before a stale verdict the only removals are those of the one claimant.
LEMMA VerdictStep == TypeOK /\ ClaimInv /\ VerdictInv /\ [Next]_vars => VerdictInv'
<1> SUFFICES ASSUME TypeOK, ClaimInv, VerdictInv, [Next]_vars, ~staled' PROVE VerdictInv'
    BY DEF VerdictInv
<1> DEFINE Files == \A q \in Procs : /\ pc[q] \notin Clearing
                                     /\ pc[q] \in {"sync", "held", "free"} => owner = q
           Alone(p) == \A q \in Procs \ {p} : pc[q] \notin Claiming
<1>1. ~staled
    BY DEF Next, vars, Age, Process, Attempt, Begin, Mkdir, GiveUp, MakeTemp, Replace, Sync,
           Undo, ReadOwner, Probe, ClearOwner, ClearDir, FreeOwner, FreeDir, WriteFails,
           Release, Exit, Crash, history
<1>2. breach = FALSE /\ Files
    BY <1>1 DEF VerdictInv, TypeOK
<1>3. \A p \in Procs : pc[p] \in Claiming => Alone(p)
    BY <1>2 DEF ClaimInv
<1>4. pc \in [Procs -> Steps]
    BY DEF TypeOK
<1>5. SUFFICES breach' = FALSE /\ Files'
    BY DEF VerdictInv
<1>6. CASE Age \/ UNCHANGED vars
    BY <1>2, <1>6 DEF Age, vars, history
<1>7. ASSUME NEW p \in Procs, Process(p) PROVE breach' = FALSE /\ Files'
  \* The actions that change neither owner.json nor the history.
  <2>1. CASE Begin(p) \/ Mkdir(p) \/ GiveUp(p) \/ MakeTemp(p) \/ WriteFails(p) \/ Exit(p)
             \/ Crash(p) \/ ReadOwner(p)
    <3>1. breach' = FALSE /\ owner' = owner
        BY <1>2, <2>1 DEF Begin, Mkdir, GiveUp, MakeTemp, WriteFails, Exit, Crash, ReadOwner,
                          files, history
    <3>2. \E step \in {"mkdir", "tmp", "judge", "idle", "replace", "undo", "exited", "crashed",
                       "probe"} : pc' = [pc EXCEPT ![p] = step]
        BY <2>1 DEF Begin, Mkdir, GiveUp, MakeTemp, WriteFails, Exit, Crash, ReadOwner, Goto
    <3> QED BY <1>2, <1>4, <3>1, <3>2 DEF Clearing
  <2>2. CASE Sync(p) \/ Release(p)
    <3>1. breach' = FALSE /\ owner' = owner
        BY <1>2, <2>2 DEF Sync, Release, files, history
    <3>2. owner = p
        BY <1>2, <2>2 DEF Sync, Release
    <3>3. \E step \in {"held", "free"} : pc' = [pc EXCEPT ![p] = step]
        BY <2>2, <3>2 DEF Sync, Release, Goto
    <3> QED BY <1>2, <1>4, <3>1, <3>2, <3>3 DEF Clearing
  <2>3. CASE Replace(p)
    <3>1. Alone(p)
        BY <1>3, <2>3 DEF Replace, Claiming, Writing
    <3>2. \A q \in Procs \ {p} : pc[q] \notin {"sync", "held", "free"}
        BY <3>1 DEF Claiming, Writing, Giving
    <3> QED BY <1>2, <1>4, <2>3, <3>2 DEF Replace, Goto, history, Clearing
  <2>4. CASE Undo(p) \/ FreeDir(p)
    <3>1. Alone(p)
        BY <1>3, <2>4 DEF Undo, FreeDir, Claiming, Writing, Giving
    <3>2. breach' = FALSE /\ owner' = owner
        BY <1>2, <2>4, <3>1 DEF Undo, FreeDir, Rmdir, UsedByAnother, files
    <3>3. pc' = [pc EXCEPT ![p] = "idle"]
        BY <2>4 DEF Undo, FreeDir, Goto
    <3> QED BY <1>2, <1>4, <3>2, <3>3 DEF Clearing
  <2>5. CASE FreeOwner(p)
    <3>1. Alone(p)
        BY <1>3, <2>5 DEF FreeOwner, Claiming, Giving
    <3>2. breach' = FALSE
        BY <1>2, <2>5, <3>1 DEF FreeOwner, Unlink
    <3>3. \A q \in Procs \ {p} : pc[q] \notin {"sync", "held", "free"}
        BY <3>1 DEF Claiming, Writing, Giving
    <3> QED BY <1>2, <1>4, <2>5, <3>2, <3>3 DEF FreeOwner, Goto, Clearing
  <2>6. CASE Probe(p)
    <3>1. ~LooksStale(p)
        BY <2>6 DEF Probe
    <3> QED BY <1>2, <1>4, <2>6, <3>1 DEF Probe, Goto, files, Clearing
  <2>7. ~ClearOwner(p) /\ ~ClearDir(p)
    BY <1>2 DEF ClearOwner, ClearDir, Clearing
  <2> QED BY <1>7, <2>1, <2>2, <2>3, <2>4, <2>5, <2>6, <2>7 DEF Process, Attempt
<1> QED BY <1>6, <1>7 DEF Next

\* It holds whoever crashes.
LEMMA LockInductive == Spec => []IInv
<1>1. IInv /\ [Next]_vars => IInv'
    BY TypeStep, ClaimStep, VerdictStep DEF IInv
<1> QED BY InitIInv, <1>1, PTL DEF Spec

\* Type correctness of the lock, whatever the processes do.
THEOREM TypeCorrect == Spec => []TypeOK
<1>1. IInv => TypeOK
    BY DEF IInv
<1> QED BY LockInductive, <1>1, PTL

\* Exclusion: as long as no process lost its directory or its owner file to
\* another one, one process at most is between its mkdir and its rmdir.
THEOREM Exclusion == Spec => []ExclusiveUntilBreach
<1>1. IInv => ExclusiveUntilBreach
    BY DEF IInv, ClaimInv, ExclusiveUntilBreach
<1> QED BY LockInductive, <1>1, PTL

\* Where exclusion can be lost: only _clear_stale can take the lock away from
\* the process that holds it.
THEOREM OnlyStaleVerdictsBreach == Spec => []BreachNeedsStaleVerdict
<1>1. IInv => BreachNeedsStaleVerdict
    BY DEF IInv, VerdictInv, BreachNeedsStaleVerdict
<1> QED BY LockInductive, <1>1, PTL

\* Together: a lock that was never judged stale excludes, whoever crashes.
THEOREM ExclusionUntilVerdict == Spec => [](~staled => MutualExclusion)
<1>1. IInv => (~staled => MutualExclusion)
    BY DEF IInv, VerdictInv, ClaimInv, MutualExclusion, Claiming
<1> QED BY LockInductive, <1>1, PTL

-----------------------------------------------------------------------------
(* A directory without an owner                                               *)

\* The places from which a process makes an ownerless directory owned or
\* removes it, and the one where it will do neither any more.
Tending == {"tmp", "replace", "undo", "drop", "rmdir", "crashed"}

\* Somebody tends to an ownerless directory, and the temporary file that keeps
\* rmdir from removing it is of a process that tends to it.
TendedInv ==
    /\ dir /\ owner = None => \E p \in Procs : pc[p] \in Tending
    /\ \A p \in tmps : pc[p] \in {"replace", "crashed"}

\* A process may leave a directory it could not remove: somebody else has made
\* it owned or is still at it.
LEMMA LeftTended ==
    ASSUME TypeOK, TendedInv, NEW p \in Procs, pc[p] \notin {"replace", "crashed"},
           NEW step \in Steps, Goto(p, step),
           (Rmdir(p) /\ dir' = FALSE) \/ (~CanRmdir /\ UNCHANGED files)
    PROVE  TendedInv'
<1>1. \A q \in Procs \ {p} : pc'[q] = pc[q]
    BY DEF TypeOK, Goto
<1>2. tmps' = tmps /\ owner' = owner /\ p \notin tmps
    BY DEF Rmdir, files, TendedInv
<1>3. \A q \in tmps' : pc'[q] \in {"replace", "crashed"}
    BY <1>1, <1>2 DEF TendedInv, TypeOK
<1>4. ASSUME dir', owner' = None PROVE \E q \in Procs : pc'[q] \in Tending
  <2>1. PICK q \in tmps : TRUE
    BY <1>2, <1>4 DEF CanRmdir, files
  <2> QED BY <1>2, <1>3, <2>1 DEF Tending, TypeOK
<1> QED BY <1>3, <1>4 DEF TendedInv

\* Every step leaves an ownerless directory to somebody.
LEMMA TendedStep == TypeOK /\ TendedInv /\ [Next]_vars => TendedInv'
<1> SUFFICES ASSUME TypeOK, TendedInv, [Next]_vars PROVE TendedInv'
    OBVIOUS
<1> USE DEF files, history
<1>1. CASE Age \/ UNCHANGED vars
    BY <1>1 DEF Age, vars, TendedInv
<1>2. ASSUME NEW p \in Procs, Process(p) PROVE TendedInv'
  <2> USE DEF TypeOK, TendedInv, Tending, Goto
  <2>1. CASE Begin(p) \/ GiveUp(p) \/ ReadOwner(p) \/ Probe(p) \/ Release(p) \/ Exit(p)
    BY <2>1 DEF Begin, GiveUp, ReadOwner, Probe, Release, Exit
  <2>2. CASE Mkdir(p)
    BY <2>2 DEF Mkdir
  <2>3. CASE MakeTemp(p)
    BY <2>3 DEF MakeTemp
  <2>4. CASE Replace(p)
    BY <2>4, NoneAssumption DEF Replace
  <2>5. CASE Sync(p)
    BY <2>5 DEF Sync
  <2>6. CASE WriteFails(p)
    BY <2>6 DEF WriteFails
  <2>7. CASE Undo(p) \/ ClearDir(p) \/ FreeDir(p)
    <3>1. pc[p] \notin {"replace", "crashed"}
      BY <2>7 DEF Undo, ClearDir, FreeDir
    <3>2. \E step \in Steps : Goto(p, step)
      BY <2>7 DEF Undo, ClearDir, FreeDir, Steps, Asking
    <3>3. (Rmdir(p) /\ dir' = FALSE) \/ (~CanRmdir /\ UNCHANGED files)
      BY <2>7 DEF Undo, ClearDir, FreeDir, Rmdir
    <3> QED BY <3>1, <3>2, <3>3, LeftTended
  <2>8. CASE ClearOwner(p) \/ FreeOwner(p)
    BY <2>8 DEF ClearOwner, FreeOwner, Unlink
  <2>9. CASE Crash(p)
    BY <2>9 DEF Crash
  <2> QED BY <1>2, <2>1, <2>2, <2>3, <2>4, <2>5, <2>6, <2>7, <2>8, <2>9 DEF Process, Attempt
<1> QED BY <1>1, <1>2 DEF Next

\* When no process died in the middle, no directory without an owner is left
\* behind, whatever was judged stale or robbed and whichever write failed.
THEOREM NoOrphans == Spec => []NoOrphanDirectory
<1>1. Init => TendedInv
    BY DEF Init, TendedInv
<1>2. IInv => TypeOK
    BY DEF IInv
<1>3. TypeOK /\ TendedInv => NoOrphanDirectory
    BY DEF TendedInv, Tending, NoOrphanDirectory
<1> QED BY LockInductive, <1>1, <1>2, <1>3, TendedStep, PTL DEF Spec

-----------------------------------------------------------------------------
(* The implementation of LockService                                          *)

\* Where a step takes its process decides what it does to the service's users.
Users == {p \in Procs : pc[p] \in Claiming}

LEMMA UsersAfter ==
    ASSUME TypeOK, NEW p \in Procs, NEW step, Goto(p, step)
    PROVE  Users' = IF step \in Claiming THEN Users \cup {p} ELSE Users \ {p}
BY DEF TypeOK, Goto, Users

\* Every step of the lock is one of the service's steps or changes nothing of it.
LEMMA ServiceStep == IInv /\ [Next]_vars => [Service!Next]_(Service!vars)
<1> SUFFICES ASSUME IInv, [Next]_vars PROVE [Service!Next]_(Service!vars)
    OBVIOUS
<1> DEFINE Same == Users' = Users /\ breach' = breach
<1> USE DEF files, history
<1>1. Same => [Service!Next]_(Service!vars)
    BY DEF Service!vars, Users
<1>2. ASSUME NEW p \in Procs,
             \/ /\ Users = {} \/ breach
                /\ Users' = Users \cup {p} /\ breach' = breach
             \/ /\ Users' = Users \ {p} /\ breach' = breach
             \/ /\ p \notin Users /\ Users # {}
                /\ Users' = Users /\ breach' = TRUE
      PROVE  [Service!Next]_(Service!vars)
  <2>1. CASE /\ Users = {} \/ breach
             /\ Users' = Users \cup {p} /\ breach' = breach
    BY <2>1 DEF Service!Next, Service!Enter, Users
  <2>2. CASE Users' = Users \ {p} /\ breach' = breach
    <3>1. CASE p \in Users
        BY <2>2, <3>1 DEF Service!Next, Service!Leave, Users
    <3>2. CASE p \notin Users
        BY <1>1, <2>2, <3>2
    <3> QED BY <3>1, <3>2
  <2>3. CASE /\ p \notin Users /\ Users # {}
             /\ Users' = Users /\ breach' = TRUE
    BY <2>3 DEF Service!Next, Service!Break, Users
  <2> QED BY <1>2, <2>1, <2>2, <2>3
<1>3. breach \in BOOLEAN
    BY DEF IInv, TypeOK
\* A process that uses the lock can rob nobody who has not been robbed already.
<1>4. ASSUME NEW p \in Procs, pc[p] \in Claiming PROVE ~breach => Users = {p}
    BY <1>4 DEF IInv, ClaimInv, Users
<1>5. CASE Age \/ UNCHANGED vars
    BY <1>1, <1>5 DEF Age, vars, Users
<1>6. ASSUME NEW p \in Procs, Process(p) PROVE [Service!Next]_(Service!vars)
  <2>1. TypeOK
    BY DEF IInv
  \* The steps that stay where they were with respect to the lock.
  <2>2. CASE \/ Begin(p) \/ GiveUp(p) \/ ReadOwner(p) \/ Probe(p) \/ Exit(p)
             \/ MakeTemp(p) \/ Replace(p) \/ Sync(p) \/ WriteFails(p)
    <3>1. breach' = breach
        BY <2>2 DEF Begin, GiveUp, ReadOwner, Probe, Exit, MakeTemp, Replace, Sync, WriteFails
    <3>2. \E step \in Steps : Goto(p, step) /\ (step \in Claiming <=> pc[p] \in Claiming)
        BY <2>2 DEF Begin, GiveUp, ReadOwner, Probe, Exit, MakeTemp, Replace, Sync, WriteFails,
                    Steps, Asking, Clearing, Claiming, Writing, Giving, Ended
    <3>3. Users' = Users
        BY <2>1, <3>2, UsersAfter DEF Users
    <3> QED BY <1>1, <3>1, <3>3
  <2>3. CASE Mkdir(p)
    <3>1. breach' = breach
        BY <2>3 DEF Mkdir
    <3>2. CASE ~dir /\ Goto(p, "tmp")
      <4>1. Users' = Users \cup {p}
        BY <2>1, <3>2, UsersAfter DEF Claiming, Writing
      <4>2. Users = {} \/ breach
        BY <3>2 DEF IInv, ClaimInv, Users
      <4> QED BY <1>2, <3>1, <4>1, <4>2
    <3>3. CASE Goto(p, "judge")
      <4>1. Users' = Users \ {p}
        BY <2>1, <3>3, UsersAfter DEF Claiming, Writing, Giving
      <4> QED BY <1>2, <3>1, <4>1
    <3> QED BY <2>3, <3>2, <3>3 DEF Mkdir
  <2>4. CASE Undo(p) \/ FreeDir(p)
    <3>1. pc[p] \in Claiming
        BY <2>4 DEF Undo, FreeDir, Claiming, Writing, Giving
    <3>2. Users' = Users \ {p}
        BY <2>1, <2>4, UsersAfter DEF Undo, FreeDir, Claiming, Writing, Giving
    <3>3. UsedByAnother(p) => breach
        BY <1>3, <1>4, <3>1 DEF UsedByAnother, Users
    <3>4. breach' = breach
        BY <1>3, <2>4, <3>3 DEF Undo, FreeDir, Rmdir
    <3> QED BY <1>2, <3>2, <3>4
  <2>5. CASE FreeOwner(p)
    <3>1. pc[p] \in Claiming
        BY <2>5 DEF FreeOwner, Claiming, Giving
    <3>2. Users' = Users
      <4>1. Users' = Users \cup {p}
        BY <2>1, <2>5, UsersAfter DEF FreeOwner, Claiming, Giving
      <4> QED BY <3>1, <4>1 DEF Users
    <3>3. (\E q \in Procs \ {p} : owner = q /\ pc[q] \in Claiming) => breach
        BY <1>3, <1>4, <3>1 DEF Users
    <3>4. breach' = breach
        BY <1>3, <2>5, <3>3 DEF FreeOwner, Unlink
    <3> QED BY <1>1, <3>2, <3>4
  <2>6. CASE ClearOwner(p) \/ ClearDir(p)
    <3>1. p \notin Users
        BY <2>6 DEF ClearOwner, ClearDir, Users, Claiming, Writing, Giving
    <3>2. Users' = Users
      <4>1. Users' = Users \ {p}
        BY <2>1, <2>6, UsersAfter DEF ClearOwner, ClearDir, Claiming, Writing, Giving
      <4> QED BY <3>1, <4>1
    <3>3. breach' = breach \/ (breach' = TRUE /\ Users # {})
        BY <1>3, <2>6 DEF ClearOwner, ClearDir, Unlink, Rmdir, UsedByAnother, Users
    <3> QED BY <1>1, <1>2, <3>1, <3>2, <3>3
  <2>7. CASE Release(p)
    <3>1. breach' = breach
        BY <2>7 DEF Release
    <3>2. Users' = Users \ {p} \/ Users' = Users \cup {p}
        BY <2>1, <2>7, UsersAfter DEF Release
    <3>3. p \in Users
        BY <2>7 DEF Release, Users, Claiming
    <3> QED BY <1>1, <1>2, <3>1, <3>2, <3>3
  <2>8. CASE Crash(p)
    <3>1. breach' = breach
        BY <2>8 DEF Crash
    <3>2. Users' = Users \ {p}
        BY <2>1, <2>8, UsersAfter DEF Crash, Claiming, Writing, Giving
    <3> QED BY <1>2, <3>1, <3>2
  <2> QED BY <1>6, <2>2, <2>3, <2>4, <2>5, <2>6, <2>7, <2>8 DEF Process, Attempt
<1> QED BY <1>5, <1>6 DEF Next

\* The directory and its files implement the lock service, for any processes on
\* any hosts.
THEOREM Implementation == Spec => ImplementsLockService
<1>1. Init => Service!Init
    BY DEF Init, Service!Init, Claiming, Writing, Giving
<1> QED BY LockInductive, <1>1, ServiceStep, PTL DEF Spec, ImplementsLockService, Service!Spec
=============================================================================
