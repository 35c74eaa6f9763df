------------------------ MODULE AccessSession_proofs ------------------------
(* Theorems about access sessions, for any number of access commands and     *)
(* terminals, any clock and any session length.                              *)
EXTENDS AccessSession, TLAPS

\* Whoever is inside a handler that needs the lock holds it.
LockInv == \A p \in Parties : pc[p] \in Locked => lock = p

\* The copies the supervisors hold are of their own session, with the status
\* their next write gives it.
CopyInv ==
    /\ \A s \in Supervisors :
        /\ pc[s] \in {"start", "starting"} => mine[s].id = s /\ mine[s].status = "active"
        /\ pc[s] \in {"execute", "destroy"} => mine[s].id = s /\ mine[s].status = "executing"
        /\ pc[s] \in {"settle", "stale", "closing", "overwrite"} =>
               mine[s].id = s /\ mine[s].status \in FinalStates
    /\ \A o \in Operators :
        pc[o] = "write" => /\ mine[o].id \in Supervisors
                           /\ mine[o].status \in {"active"} \cup FinalStates
    /\ rec.status \in Statuses => rec.id \in Supervisors

\* Nobody knows a session that has not been written yet.
Fresh(s) == pc[s] \in {"new", "start", "starting"}
\* The record, the finished sessions and the copies of the others know none.
FreshInv == \A s \in Supervisors : Fresh(s) =>
    /\ rec.id # s
    /\ s \notin finished
    /\ \A p \in Parties \ {s} : mine[p].id # s

\* The copies that could still make a session active or executing.
Reviving(p) == pc[p] \in {"starting", "execute", "write"} /\ mine[p].status \notin FinalStates

\* A copy that is about to be written does not revive a finished session that no
\* handler has written over meanwhile.
ReviveInv == \A p \in Parties : Reviving(p) => mine[p].id \notin finished \ raced

\* The supervisor of a session whose record was written twice at once has ended.
RacedInv == \A s \in raced : pc[s] = "gone"

\* The parts about sessions, about the protocol of lock and copies, and about ends.
SessionInv == FreshInv /\ ReviveInv /\ RacedInv /\ FinishedNeverRevived
ProtocolInv == TypeOK /\ LockInv /\ CopyInv
CancelInv == cancelled \subseteq finished /\ CancelledNeverReleased

\* The inductive invariant, in the order its parts rest on one another.
IInv == ProtocolInv /\ SessionInv /\ CancelInv

\* Before the first command nothing is held, known or finished.
LEMMA InitIInv == Init => IInv
<1> SUFFICES ASSUME Init PROVE IInv
    OBVIOUS
<1> USE PartiesAssumption, BoundsAssumption DEF Init, Parties, NoRecord
<1>1. ProtocolInv
  <2>1. /\ rec \in Record /\ mine \in [Parties -> Record]
        /\ rec.status \notin Statuses
    BY DEF Record, Statuses, FinalStates, Parties
  <2>2. /\ pc \in [Parties -> SupervisorSteps \cup OperatorSteps]
        /\ \A s \in Supervisors : pc[s] = "new"
        /\ \A o \in Operators : pc[o] = "ready"
    BY DEF SupervisorSteps, OperatorSteps
  <2>3. TypeOK
    <3>1. /\ \A s \in Supervisors : pc[s] \in SupervisorSteps
          /\ \A o \in Operators : pc[o] \in OperatorSteps
        BY <2>2 DEF SupervisorSteps, OperatorSteps
    <3>2. /\ lock \in Parties \cup {None} /\ generation \in 0..MaxGeneration
          /\ now \in 0..MaxTime /\ overtaken \in SUBSET Supervisors
          /\ cancelled \in SUBSET Supervisors /\ finished \in SUBSET Supervisors
          /\ raced \in SUBSET Supervisors
        OBVIOUS
    <3> HIDE DEF Init
    <3> QED BY <2>1, <2>2, <3>1, <3>2 DEF TypeOK
  <2>4. LockInv /\ CopyInv
    BY <2>1, <2>2 DEF LockInv, CopyInv, Locked, SupervisorLocked, OperatorLocked
  <2> QED BY <2>3, <2>4 DEF ProtocolInv
<1>2. SessionInv
    BY DEF SessionInv, FreshInv, Fresh, ReviveInv, Reviving, RacedInv, FinishedNeverRevived
<1>3. CancelInv
    BY DEF CancelInv, CancelledNeverReleased
<1> QED BY <1>1, <1>2, <1>3 DEF IInv

\* Only the holder enters and leaves the locked part of a handler, and each copy
\* is made for the write that follows it.
LEMMA ProtocolStep == ProtocolInv /\ [Next]_vars => ProtocolInv'
<1> SUFFICES ASSUME ProtocolInv, [Next]_vars PROVE ProtocolInv'
    OBVIOUS
<1> USE PartiesAssumption, BoundsAssumption DEF ProtocolInv, TypeOK, LockInv, CopyInv, Record,
        NoRecord, Statuses, FinalStates, SupervisorLocked, OperatorLocked, Locked,
        SupervisorSteps, OperatorSteps, Parties, Goto, history
<1>1. ASSUME NEW s \in Supervisors, Supervisor(s) PROVE ProtocolInv'
  <2>1. CASE ReadState(s) BY <2>1 DEF ReadState, Remember
  <2>2. CASE StartSession(s) BY <2>2 DEF StartSession, Acquire, Remember
  <2>3. CASE StartRefused(s) BY <2>3 DEF StartRefused, Forget, Remember
  <2>4. CASE SessionStarted(s) BY <2>4 DEF SessionStarted, Unlock, Save, Forget, Remember
  <2>5. CASE Watch(s) BY <2>5 DEF Watch, Remember
  <2>6. CASE Decide(s) BY <2>6 DEF Decide, Forget, Remember
  <2>7. CASE CloseIgnored(s) BY <2>7 DEF CloseIgnored
  <2>8. CASE Close(s) BY <2>8 DEF Close, Acquire, SetStatus, Remember
  <2>9. CASE ExpireBusy(s) BY <2>9 DEF ExpireBusy
  <2>10. CASE ExpireRefused(s) BY <2>10 DEF ExpireRefused
  <2>11. CASE Expire(s) BY <2>11 DEF Expire, Acquire, SetStatus, Remember
  <2>12. CASE Execute(s) BY <2>12 DEF Execute, Save
  <2>13. CASE DestroyReturns(s) BY <2>13 DEF DestroyReturns, SetStatus, Remember
  <2>14. CASE Settle(s) BY <2>14 DEF Settle, Unlock, Save, Forget, Remember
  <2>15. CASE Handler(s) BY <2>15 DEF Handler, SetStatus, Remember
  <2>16. CASE Overwrite(s) BY <2>16 DEF Overwrite, Save, Forget, Remember
  <2>17. CASE AccessEnds(s) BY <2>17 DEF AccessEnds, Forget, Remember
  <2>18. CASE WaitEnds(s) BY <2>18 DEF WaitEnds
  <2>19. CASE ReleaseRaises(s) BY <2>19 DEF ReleaseRaises, Save, Forget, Remember
  <2>20. CASE Killed(s) BY <2>20 DEF Killed, Forget, Remember
  <2> QED BY <1>1, <2>1, <2>2, <2>3, <2>4, <2>5, <2>6, <2>7, <2>8, <2>9, <2>10, <2>11, <2>12,
              <2>13, <2>14, <2>15, <2>16, <2>17, <2>18, <2>19, <2>20 DEF Supervisor, Supervise
<1>2. ASSUME NEW o \in Operators, Operator(o) PROVE ProtocolInv'
  <2>1. CASE Extend(o) BY <2>1 DEF Extend, Acquire, EffectiveStatus, Remember
  <2>2. CASE ExtendFindsStale(o) BY <2>2
      DEF ExtendFindsStale, Acquire, SetStatus, EffectiveStatus, Remember
  <2>3. CASE Cancel(o) BY <2>3 DEF Cancel, Acquire, SetStatus, Remember
  <2>4. CASE SessionWritten(o) BY <2>4 DEF SessionWritten, Unlock, Save, Forget, Remember
  <2>5. CASE Lifecycle(o) BY <2>5 DEF Lifecycle, Acquire
  <2>6. CASE LifecycleStep(o) BY <2>6 DEF LifecycleStep
  <2>7. CASE LifecycleEnds(o) BY <2>7 DEF LifecycleEnds, Unlock
  <2>8. CASE CommandFails(o) BY <2>8 DEF CommandFails, Unlock, Save, Forget, Remember
  <2> QED BY <1>2, <2>1, <2>2, <2>3, <2>4, <2>5, <2>6, <2>7, <2>8 DEF Operator
<1>3. CASE Deploy BY <1>3 DEF Deploy
<1>4. CASE Tick BY <1>4 DEF Tick
<1>5. CASE UNCHANGED vars BY <1>5 DEF vars
<1> QED BY <1>1, <1>2, <1>3, <1>4, <1>5 DEF Next

\* A reviving copy is made under the lock from an active record, which is not
\* finished; only a handler, which writes without it, ends a session meanwhile.
LEMMA SessionStep == ProtocolInv /\ SessionInv /\ [Next]_vars => SessionInv'
<1> SUFFICES ASSUME ProtocolInv, SessionInv, [Next]_vars PROVE SessionInv'
    OBVIOUS
<1> USE PartiesAssumption DEF ProtocolInv, TypeOK, LockInv, CopyInv, SessionInv, FreshInv,
        Fresh, ReviveInv, Reviving, RacedInv, FinishedNeverRevived, Record, NoRecord,
        Statuses, FinalStates, SupervisorLocked, OperatorLocked, Locked, SupervisorSteps,
        OperatorSteps, Parties, Goto, history
<1>1. ASSUME NEW s \in Supervisors, Supervisor(s) PROVE SessionInv'
  <2>1. CASE ReadState(s) BY <2>1 DEF ReadState, Remember
  <2>2. CASE StartSession(s) BY <2>2 DEF StartSession, Acquire, Remember
  <2>3. CASE StartRefused(s) BY <2>3 DEF StartRefused, Forget, Remember
  <2>4. CASE SessionStarted(s) BY <2>4 DEF SessionStarted, Unlock, Save, Forget, Remember
  <2>5. CASE Watch(s) BY <2>5 DEF Watch, Remember
  <2>6. CASE Decide(s) BY <2>6 DEF Decide, Forget, Remember
  <2>7. CASE CloseIgnored(s) BY <2>7 DEF CloseIgnored
  <2>8. CASE Close(s) BY <2>8 DEF Close, Acquire, SetStatus, Remember
  <2>9. CASE ExpireBusy(s) BY <2>9 DEF ExpireBusy
  <2>10. CASE ExpireRefused(s) BY <2>10 DEF ExpireRefused
  <2>11. CASE Expire(s) BY <2>11 DEF Expire, Acquire, SetStatus, Remember
  <2>12. CASE Execute(s) BY <2>12 DEF Execute, Save
  <2>13. CASE DestroyReturns(s) BY <2>13 DEF DestroyReturns, SetStatus, Remember
  <2>14. CASE Settle(s) BY <2>14 DEF Settle, Unlock, Save, Forget, Remember
  <2>15. CASE Handler(s) BY <2>15 DEF Handler, SetStatus, Remember
  <2>16. CASE Overwrite(s) BY <2>16 DEF Overwrite, Save, Forget, Remember
  <2>17. CASE AccessEnds(s) BY <2>17 DEF AccessEnds, Forget, Remember
  <2>18. CASE WaitEnds(s) BY <2>18 DEF WaitEnds
  <2>19. CASE ReleaseRaises(s) BY <2>19 DEF ReleaseRaises, Save, Forget, Remember
  <2>20. CASE Killed(s) BY <2>20 DEF Killed, Forget, Remember
  <2> QED BY <1>1, <2>1, <2>2, <2>3, <2>4, <2>5, <2>6, <2>7, <2>8, <2>9, <2>10, <2>11, <2>12,
              <2>13, <2>14, <2>15, <2>16, <2>17, <2>18, <2>19, <2>20 DEF Supervisor, Supervise
<1>2. ASSUME NEW o \in Operators, Operator(o) PROVE SessionInv'
  <2>1. CASE Extend(o) BY <2>1 DEF Extend, Acquire, EffectiveStatus, Remember
  <2>2. CASE ExtendFindsStale(o) BY <2>2
      DEF ExtendFindsStale, Acquire, SetStatus, EffectiveStatus, Remember
  <2>3. CASE Cancel(o) BY <2>3 DEF Cancel, Acquire, SetStatus, Remember
  <2>4. CASE SessionWritten(o) BY <2>4 DEF SessionWritten, Unlock, Save, Forget, Remember
  <2>5. CASE Lifecycle(o) BY <2>5 DEF Lifecycle, Acquire
  <2>6. CASE LifecycleStep(o) BY <2>6 DEF LifecycleStep
  <2>7. CASE LifecycleEnds(o) BY <2>7 DEF LifecycleEnds, Unlock
  <2>8. CASE CommandFails(o) BY <2>8 DEF CommandFails, Unlock, Save, Forget, Remember
  <2> QED BY <1>2, <2>1, <2>2, <2>3, <2>4, <2>5, <2>6, <2>7, <2>8 DEF Operator
<1>3. CASE Deploy BY <1>3 DEF Deploy
<1>4. CASE Tick BY <1>4 DEF Tick
<1>5. CASE UNCHANGED vars BY <1>5 DEF vars
<1> QED BY <1>1, <1>2, <1>3, <1>4, <1>5 DEF Next

\* An expiry that passes its check holds the lock until its outcome is written,
\* so that no cancel command comes in between.
LEMMA CancelStep == ProtocolInv /\ SessionInv /\ CancelInv /\ [Next]_vars => CancelInv'
<1> SUFFICES ASSUME ProtocolInv, SessionInv, CancelInv, [Next]_vars PROVE CancelInv'
    OBVIOUS
<1> USE PartiesAssumption DEF ProtocolInv, TypeOK, LockInv, CopyInv, SessionInv,
        RacedInv, FinishedNeverRevived, CancelInv, CancelledNeverReleased, Releasing, Statuses,
        FinalStates, SupervisorLocked, OperatorLocked, Locked, SupervisorSteps, OperatorSteps,
        Parties, Goto, history
<1>1. ASSUME NEW s \in Supervisors, Supervisor(s) PROVE CancelInv'
  <2>1. CASE ReadState(s) BY <2>1 DEF ReadState, Remember
  <2>2. CASE StartSession(s) BY <2>2 DEF StartSession, Acquire, Remember
  <2>3. CASE StartRefused(s) BY <2>3 DEF StartRefused, Forget, Remember
  <2>4. CASE SessionStarted(s) BY <2>4 DEF SessionStarted, Unlock, Save, Forget, Remember
  <2>5. CASE Watch(s) BY <2>5 DEF Watch, Remember
  <2>6. CASE Decide(s) BY <2>6 DEF Decide, Forget, Remember
  <2>7. CASE CloseIgnored(s) BY <2>7 DEF CloseIgnored
  <2>8. CASE Close(s) BY <2>8 DEF Close, Acquire, SetStatus, Remember
  <2>9. CASE ExpireBusy(s) BY <2>9 DEF ExpireBusy
  <2>10. CASE ExpireRefused(s) BY <2>10 DEF ExpireRefused
  <2>11. CASE Expire(s) BY <2>11 DEF Expire, Acquire, SetStatus, Remember
  <2>12. CASE Execute(s) BY <2>12 DEF Execute, Save
  <2>13. CASE DestroyReturns(s) BY <2>13 DEF DestroyReturns, SetStatus, Remember
  <2>14. CASE Settle(s) BY <2>14 DEF Settle, Unlock, Save, Forget, Remember
  <2>15. CASE Handler(s) BY <2>15 DEF Handler, SetStatus, Remember
  <2>16. CASE Overwrite(s) BY <2>16 DEF Overwrite, Save, Forget, Remember
  <2>17. CASE AccessEnds(s) BY <2>17 DEF AccessEnds, Forget, Remember
  <2>18. CASE WaitEnds(s) BY <2>18 DEF WaitEnds
  <2>19. CASE ReleaseRaises(s) BY <2>19 DEF ReleaseRaises, Save, Forget, Remember
  <2>20. CASE Killed(s) BY <2>20 DEF Killed, Forget, Remember
  <2> QED BY <1>1, <2>1, <2>2, <2>3, <2>4, <2>5, <2>6, <2>7, <2>8, <2>9, <2>10, <2>11, <2>12,
              <2>13, <2>14, <2>15, <2>16, <2>17, <2>18, <2>19, <2>20 DEF Supervisor, Supervise
<1>2. ASSUME NEW o \in Operators, Operator(o) PROVE CancelInv'
  <2>1. CASE Extend(o) BY <2>1 DEF Extend, Acquire, EffectiveStatus, Remember
  <2>2. CASE ExtendFindsStale(o) BY <2>2
      DEF ExtendFindsStale, Acquire, SetStatus, EffectiveStatus, Remember
  <2>3. CASE Cancel(o) BY <2>3 DEF Cancel, Acquire, SetStatus, Remember
  <2>4. CASE SessionWritten(o) BY <2>4 DEF SessionWritten, Unlock, Save, Forget, Remember
  <2>5. CASE Lifecycle(o) BY <2>5 DEF Lifecycle, Acquire
  <2>6. CASE LifecycleStep(o) BY <2>6 DEF LifecycleStep
  <2>7. CASE LifecycleEnds(o) BY <2>7 DEF LifecycleEnds, Unlock
  <2>8. CASE CommandFails(o) BY <2>8 DEF CommandFails, Unlock, Save, Forget, Remember
  <2> QED BY <1>2, <2>1, <2>2, <2>3, <2>4, <2>5, <2>6, <2>7, <2>8 DEF Operator
<1>3. CASE Deploy BY <1>3 DEF Deploy
<1>4. CASE Tick BY <1>4 DEF Tick
<1>5. CASE UNCHANGED vars BY <1>5 DEF vars
<1> QED BY <1>1, <1>2, <1>3, <1>4, <1>5 DEF Next

\* But for deploys, which the history records, the generation changes under the
\* lock only.
LEMMA GenerationStep ==
    ProtocolInv /\ ReleaseOnAuthorisedGeneration /\ [Next]_vars => ReleaseOnAuthorisedGeneration'
<1> SUFFICES ASSUME ProtocolInv, ReleaseOnAuthorisedGeneration, [Next]_vars
             PROVE  ReleaseOnAuthorisedGeneration'
    OBVIOUS
<1> USE PartiesAssumption DEF ProtocolInv, TypeOK, LockInv, ReleaseOnAuthorisedGeneration,
        Releasing, Record, NoRecord, SupervisorLocked, OperatorLocked, Locked,
        SupervisorSteps, OperatorSteps, Parties, Goto, history
<1>1. ASSUME NEW s \in Supervisors, Supervisor(s) PROVE ReleaseOnAuthorisedGeneration'
  <2>1. CASE ReadState(s) BY <2>1 DEF ReadState, Remember
  <2>2. CASE StartSession(s) BY <2>2 DEF StartSession, Acquire, Remember
  <2>3. CASE StartRefused(s) BY <2>3 DEF StartRefused, Forget, Remember
  <2>4. CASE SessionStarted(s) BY <2>4 DEF SessionStarted, Unlock, Save, Forget, Remember
  <2>5. CASE Watch(s) BY <2>5 DEF Watch, Remember
  <2>6. CASE Decide(s) BY <2>6 DEF Decide, Forget, Remember
  <2>7. CASE CloseIgnored(s) BY <2>7 DEF CloseIgnored
  <2>8. CASE Close(s) BY <2>8 DEF Close, Acquire, SetStatus, Remember
  <2>9. CASE ExpireBusy(s) BY <2>9 DEF ExpireBusy
  <2>10. CASE ExpireRefused(s) BY <2>10 DEF ExpireRefused
  <2>11. CASE Expire(s) BY <2>11 DEF Expire, Acquire, SetStatus, Remember
  <2>12. CASE Execute(s) BY <2>12 DEF Execute, Save
  <2>13. CASE DestroyReturns(s) BY <2>13 DEF DestroyReturns, SetStatus, Remember
  <2>14. CASE Settle(s) BY <2>14 DEF Settle, Unlock, Save, Forget, Remember
  <2>15. CASE Handler(s) BY <2>15 DEF Handler, SetStatus, Remember
  <2>16. CASE Overwrite(s) BY <2>16 DEF Overwrite, Save, Forget, Remember
  <2>17. CASE AccessEnds(s) BY <2>17 DEF AccessEnds, Forget, Remember
  <2>18. CASE WaitEnds(s) BY <2>18 DEF WaitEnds
  <2>19. CASE ReleaseRaises(s) BY <2>19 DEF ReleaseRaises, Save, Forget, Remember
  <2>20. CASE Killed(s) BY <2>20 DEF Killed, Forget, Remember
  <2> QED BY <1>1, <2>1, <2>2, <2>3, <2>4, <2>5, <2>6, <2>7, <2>8, <2>9, <2>10, <2>11, <2>12,
              <2>13, <2>14, <2>15, <2>16, <2>17, <2>18, <2>19, <2>20 DEF Supervisor, Supervise
<1>2. ASSUME NEW o \in Operators, Operator(o) PROVE ReleaseOnAuthorisedGeneration'
  <2>1. CASE Extend(o) BY <2>1 DEF Extend, Acquire, EffectiveStatus, Remember
  <2>2. CASE ExtendFindsStale(o) BY <2>2
      DEF ExtendFindsStale, Acquire, SetStatus, EffectiveStatus, Remember
  <2>3. CASE Cancel(o) BY <2>3 DEF Cancel, Acquire, SetStatus, Remember
  <2>4. CASE SessionWritten(o) BY <2>4 DEF SessionWritten, Unlock, Save, Forget, Remember
  <2>5. CASE Lifecycle(o) BY <2>5 DEF Lifecycle, Acquire
  <2>6. CASE LifecycleStep(o) BY <2>6 DEF LifecycleStep
  <2>7. CASE LifecycleEnds(o) BY <2>7 DEF LifecycleEnds, Unlock
  <2>8. CASE CommandFails(o) BY <2>8 DEF CommandFails, Unlock, Save, Forget, Remember
  <2> QED BY <1>2, <2>1, <2>2, <2>3, <2>4, <2>5, <2>6, <2>7, <2>8 DEF Operator
<1>3. CASE Deploy BY <1>3 DEF Deploy
<1>4. CASE Tick BY <1>4 DEF Tick
<1>5. CASE UNCHANGED vars BY <1>5 DEF vars
<1> QED BY <1>1, <1>2, <1>3, <1>4, <1>5 DEF Next

\* The invariant of the theorems that follow.
LEMMA SessionInductive == Spec => []IInv
<1>1. IInv /\ [Next]_vars => IInv'
    BY ProtocolStep, SessionStep, CancelStep DEF IInv
<1> QED BY InitIInv, <1>1, PTL DEF Spec

\* Type correctness of the session protocol.
THEOREM TypeCorrect == Spec => []TypeOK
<1>1. IInv => TypeOK
    BY DEF IInv, ProtocolInv
<1> QED BY SessionInductive, <1>1, PTL

\* A session an operator was told is cancelled is never released: the resources
\* it was to take down at its deadline stay.
THEOREM CancelHolds == Spec => []CancelledNeverReleased
<1>1. IInv => CancelledNeverReleased
    BY DEF IInv, CancelInv
<1> QED BY SessionInductive, <1>1, PTL

\* No write brings a finished session back, but for that of a command which had
\* the record when an exception handler wrote over it.
THEOREM FinishedStaysFinished == Spec => []FinishedNeverRevived
<1>1. IInv => FinishedNeverRevived
    BY DEF IInv, SessionInv
<1> QED BY SessionInductive, <1>1, PTL

\* Both: what an operator was told of the end of a session stays so.
THEOREM EndsStay == Spec => []EndsHold
<1>1. IInv => EndsHold
    BY DEF IInv, CancelInv, SessionInv, EndsHold
<1> QED BY SessionInductive, <1>1, PTL

\* When no deploy overtakes it, a protected release takes down the resources
\* its session was authorised for and no others.
THEOREM AuthorisedRelease == Spec => []ReleaseOnAuthorisedGeneration
<1>1. Init => ReleaseOnAuthorisedGeneration
    BY DEF Init, ReleaseOnAuthorisedGeneration, Releasing, Parties
<1>2. IInv /\ ReleaseOnAuthorisedGeneration /\ [Next]_vars => ReleaseOnAuthorisedGeneration'
    BY GenerationStep DEF IInv
<1> QED BY SessionInductive, <1>1, <1>2, PTL DEF Spec

-----------------------------------------------------------------------------
(* What a supervised session is replaced by.                                  *)

\* The session whose record a handler under the lock is about to write.
Owner(p) == IF p \in Supervisors THEN p ELSE mine[p].id
\* The record is of a session whose supervisor runs.
Supervised == EffectiveStatus(rec) \in {"active", "executing"}

\* A handler that is to write has found its own session's record or one that
\* nobody supervises; until it has written, only an exception handler can put
\* another record there, and that one has ended.
KeptInv == \A p \in Parties :
    pc[p] \in Locked \ {"operation"} /\ Supervised => rec.id = Owner(p)

\* The invariant is kept, and with it a supervised record, but for that handler.
LEMMA KeptStep ==
    ProtocolInv /\ KeptInv /\ [Next]_vars =>
        KeptInv' /\ (Supervised /\ rec'.id # rec.id => pc[rec'.id] = "overwrite")
<1> DEFINE Goal == KeptInv' /\ (Supervised /\ rec'.id # rec.id => pc[rec'.id] = "overwrite")
<1> SUFFICES ASSUME ProtocolInv, KeptInv, [Next]_vars PROVE Goal
    OBVIOUS
<1> USE PartiesAssumption DEF ProtocolInv, TypeOK, LockInv, CopyInv, KeptInv, Owner,
        Supervised, EffectiveStatus, SupervisorRuns, Record, NoRecord, Statuses, FinalStates,
        SupervisorLocked, OperatorLocked, Locked, SupervisorSteps, OperatorSteps, Parties,
        Goto, history
<1>1. ASSUME NEW s \in Supervisors, Supervisor(s) PROVE Goal
  <2>1. CASE ReadState(s) BY <2>1 DEF ReadState, Remember
  <2>2. CASE StartSession(s) BY <2>2 DEF StartSession, Acquire, Remember
  <2>3. CASE StartRefused(s) BY <2>3 DEF StartRefused, Forget, Remember
  <2>4. CASE SessionStarted(s) BY <2>4 DEF SessionStarted, Unlock, Save, Forget, Remember
  <2>5. CASE Watch(s) BY <2>5 DEF Watch, Remember
  <2>6. CASE Decide(s) BY <2>6 DEF Decide, Forget, Remember
  <2>7. CASE CloseIgnored(s) BY <2>7 DEF CloseIgnored
  <2>8. CASE Close(s) BY <2>8 DEF Close, Acquire, SetStatus, Remember
  <2>9. CASE ExpireBusy(s) BY <2>9 DEF ExpireBusy
  <2>10. CASE ExpireRefused(s) BY <2>10 DEF ExpireRefused
  <2>11. CASE Expire(s) BY <2>11 DEF Expire, Acquire, SetStatus, Remember
  <2>12. CASE Execute(s) BY <2>12 DEF Execute, Save
  <2>13. CASE DestroyReturns(s) BY <2>13 DEF DestroyReturns, SetStatus, Remember
  <2>14. CASE Settle(s) BY <2>14 DEF Settle, Unlock, Save, Forget, Remember
  <2>15. CASE Handler(s) BY <2>15 DEF Handler, SetStatus, Remember
  <2>16. CASE Overwrite(s) BY <2>16 DEF Overwrite, Save, Forget, Remember
  <2>17. CASE AccessEnds(s) BY <2>17 DEF AccessEnds, Forget, Remember
  <2>18. CASE WaitEnds(s) BY <2>18 DEF WaitEnds
  <2>19. CASE ReleaseRaises(s) BY <2>19 DEF ReleaseRaises, Save, Forget, Remember
  <2>20. CASE Killed(s) BY <2>20 DEF Killed, Forget, Remember
  <2> QED BY <1>1, <2>1, <2>2, <2>3, <2>4, <2>5, <2>6, <2>7, <2>8, <2>9, <2>10, <2>11, <2>12,
              <2>13, <2>14, <2>15, <2>16, <2>17, <2>18, <2>19, <2>20 DEF Supervisor, Supervise
<1>2. ASSUME NEW o \in Operators, Operator(o) PROVE Goal
  <2>1. CASE Extend(o) BY <2>1 DEF Extend, Acquire, Remember
  <2>2. CASE ExtendFindsStale(o) BY <2>2 DEF ExtendFindsStale, Acquire, SetStatus, Remember
  <2>3. CASE Cancel(o) BY <2>3 DEF Cancel, Acquire, SetStatus, Remember
  <2>4. CASE SessionWritten(o) BY <2>4 DEF SessionWritten, Unlock, Save, Forget, Remember
  <2>5. CASE Lifecycle(o) BY <2>5 DEF Lifecycle, Acquire
  <2>6. CASE LifecycleStep(o) BY <2>6 DEF LifecycleStep
  <2>7. CASE LifecycleEnds(o) BY <2>7 DEF LifecycleEnds, Unlock
  <2>8. CASE CommandFails(o) BY <2>8 DEF CommandFails, Unlock, Save, Forget, Remember
  <2> QED BY <1>2, <2>1, <2>2, <2>3, <2>4, <2>5, <2>6, <2>7, <2>8 DEF Operator
<1>3. CASE Deploy BY <1>3 DEF Deploy
<1>4. CASE Tick BY <1>4 DEF Tick
<1>5. CASE UNCHANGED vars BY <1>5 DEF vars
<1> QED BY <1>1, <1>2, <1>3, <1>4, <1>5 DEF Next

\* The record of a session whose supervisor runs is replaced by that of another
\* only by the exception handler of the other's release.
THEOREM SupervisedIsKept == Spec => SupervisedSessionKept
<1>1. Init => KeptInv
    BY DEF Init, KeptInv, Locked, SupervisorLocked, OperatorLocked, Parties
<1>2. IInv /\ KeptInv /\ [Next]_vars => KeptInv'
    BY KeptStep DEF IInv
<1>3. IInv /\ KeptInv /\ [Next]_vars =>
          [(EffectiveStatus(rec) \in {"active", "executing"} /\ rec'.id # rec.id) =>
              pc[rec'.id] = "overwrite"]_vars
    BY KeptStep DEF IInv, Supervised
<1> QED BY SessionInductive, <1>1, <1>2, <1>3, PTL DEF Spec, SupervisedSessionKept
=============================================================================
