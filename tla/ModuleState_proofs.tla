------------------------- MODULE ModuleState_proofs -------------------------
(* Theorems about a module's state slot, for any runs, resources and backends. *)
EXTENDS ModuleState, TLAPS

\* A run that builds and whose driver has been called, or may be without another
\* write, has its own "running" in the file, and the backend is forgotten.
DrivingInv ==
    \A r \in Runs :
        (/\ pc[r] \in {"marked", "publish"} \cup Driving
         /\ cmd[r] \notin {"destroy", "detach"})
            => marker = "running" /\ binding = None

\* What a driver call has dealt with is there, or is gone.
ProgressInv ==
    \A r \in Runs :
        /\ pc[r] \in {"idle", "preflight", "guard"} \cup Marking => done[r] = {}
        /\ (pc[r] = "drive" /\ cmd[r] = "destroy") => res[space[r]] \cap done[r] = {}
        /\ (pc[r] = "drive" /\ cmd[r] \in Building) => done[r] \subseteq res[space[r]]
        /\ (pc[r] = "publish" /\ cmd[r] = "destroy") => res[space[r]] = {}
        /\ (pc[r] = "publish" /\ cmd[r] \in {"apply", "status"}) => res[space[r]] = Res

\* A run the guard has let through has nothing elsewhere, and so has a slot that
\* names its backend.
NothingBut(w) == \A v \in Spaces \ left : v # w => res[v] = {}
GuardInv == \A r \in Runs : pc[r] \in {"drive", "publish"} => NothingBut(space[r])
BindingInv == marker \notin Terminal /\ binding # None => NothingBut(binding)

\* Only one run is under way.
Alone == \A r, s \in Runs : pc[r] \in Active /\ pc[s] \in Active => r = s

\* The invariant of runs that do not overlap.
SerialInv ==
    /\ Alone
    /\ DrivingInv
    /\ ProgressInv
    /\ GuardInv
    /\ BindingInv
    /\ TerminalMeansGone
    /\ OkMeansComplete
    /\ OneHome

\* An apply that is on its way to "error" has called its driver.
BlameInv ==
    /\ marker = "error" => writer \in Runs
    /\ \A r \in Runs : pc[r] \in {"publish"} \cup Driving => r \in called
    /\ \A r \in Runs :
          pc[r] \in Failing => r \in called \/ cmd[r] = "status"
    /\ ErrorNeedsDriverCall

\* At first the slot is empty and nobody is at it.
LEMMA InitInv == Init => TypeOK /\ BlameInv /\ SerialInv
<1> SUFFICES ASSUME Init PROVE TypeOK /\ BlameInv /\ SerialInv
    OBVIOUS
<1> USE DEF Init
<1>1. TypeOK
    BY DEF TypeOK, Markers, Terminal
<1>2. BlameInv
    BY DEF BlameInv, ErrorNeedsDriverCall, Failing, Driving
<1>3. Alone /\ DrivingInv
    BY DEF Alone, DrivingInv, Active, Marking, Failing, Driving
<1>4. ProgressInv
    BY DEF ProgressInv
<1>5. GuardInv /\ BindingInv
    BY DEF GuardInv, BindingInv, Terminal
<1>6. TerminalMeansGone /\ OkMeansComplete /\ OneHome
    BY DEF TerminalMeansGone, OkMeansComplete, OneHome
<1> QED BY <1>1, <1>2, <1>3, <1>4, <1>5, <1>6 DEF SerialInv

\* Every step keeps the variables in their sets.
LEMMA TypeStep == TypeOK /\ [Next]_vars => TypeOK'
<1> SUFFICES ASSUME TypeOK, [Next]_vars PROVE TypeOK'
    OBVIOUS
<1> USE NoneAssumption DEF TypeOK, Markers, Terminal,
        Active, Marking, Driving, Failing, Ended, Goto, file, world, own, Commands,
        Building
<1>1. ASSUME NEW r \in Runs, RunStep(r) PROVE TypeOK'
  <2>1. CASE Start(r)
    BY <2>1 DEF Start, MayStart, AfterPreflight
  <2>2. CASE StartDetach(r)
    BY <2>2 DEF StartDetach, MayStart
  <2>3. CASE PreflightPasses(r)
    BY <2>3 DEF PreflightPasses, AfterPreflight, Guard, Elsewhere
  <2>4. CASE PreflightFails(r)
    BY <2>4 DEF PreflightFails, AfterFailure
  <2>5. CASE Peek(r)
    BY <2>5 DEF Peek, ReadPrevious
  <2>6. CASE MarkRunning(r)
    BY <2>6 DEF MarkRunning, StoreMutation, Store
  <2>7. CASE MarkFails(r)
    BY <2>7 DEF MarkFails, AfterFailure, StoreMutationFails, StoreMutation, Store
  <2>8. CASE CallDriver(r)
    BY <2>8 DEF CallDriver
  <2>9. CASE GuardPasses(r)
    BY <2>9 DEF GuardPasses, Guard, Elsewhere
  <2>10. ASSUME NEW x \in Res, Mutate(r, x) PROVE TypeOK'
    BY <2>10 DEF Mutate
  <2>11. ASSUME NEW x \in Res, Detach(r, x) PROVE TypeOK'
    BY <2>11 DEF Detach
  <2>12. CASE DriverSucceeds(r)
    BY <2>12 DEF DriverSucceeds, Succeeded
  <2>13. CASE DriverFails(r)
    BY <2>13 DEF DriverFails, AfterFailure
  <2>14. CASE PeekError(r)
    BY <2>14 DEF PeekError, ReadPrevious
  <2>15. CASE MarkError(r)
    BY <2>15 DEF MarkError, StoreMutation, Store
  <2>16. CASE MarkErrorFails(r)
    BY <2>16 DEF MarkErrorFails, StoreMutationFails, StoreMutation, Store
  <2>17. CASE Publish(r)
    BY <2>17 DEF Publish, StoreResult, Store, Outcome
  <2>18. CASE PublishFails(r)
    BY <2>18 DEF PublishFails, StoreResult, Store, Outcome
  <2>19. CASE PublishDetached(r)
    BY <2>19 DEF PublishDetached, Store
  <2>20. CASE Interrupt(r)
    BY <2>20 DEF Interrupt, AfterFailure
  <2>21. CASE Crash(r)
    BY <2>21 DEF Crash
  <2> QED BY <1>1, <2>1, <2>2, <2>3, <2>4, <2>5, <2>6, <2>7, <2>8, <2>9, <2>10, <2>11,
      <2>12, <2>13, <2>14, <2>15, <2>16, <2>17, <2>18, <2>19, <2>20, <2>21 DEF
      RunStep
<1>2. CASE UNCHANGED vars
    BY <1>2 DEF vars
<1> QED BY <1>1, <1>2 DEF Next

\* Runs may overlap: the argument looks at one run only.
LEMMA BlameStep == TypeOK /\ BlameInv /\ [Next]_vars => BlameInv'
<1> SUFFICES ASSUME TypeOK, BlameInv, [Next]_vars PROVE BlameInv'
    OBVIOUS
<1> USE NoneAssumption DEF TypeOK, BlameInv, ErrorNeedsDriverCall,
        Active, Marking, Driving, Failing, Ended, Goto, file, world, own, Commands,
        Building
<1>1. ASSUME NEW r \in Runs, RunStep(r) PROVE BlameInv'
  <2>1. CASE Start(r)
    BY <2>1 DEF Start, MayStart, AfterPreflight
  <2>2. CASE StartDetach(r)
    BY <2>2 DEF StartDetach, MayStart
  <2>3. CASE PreflightPasses(r)
    BY <2>3 DEF PreflightPasses, AfterPreflight, Guard
  <2>4. CASE PreflightFails(r)
    BY <2>4 DEF PreflightFails, AfterFailure
  <2>5. CASE Peek(r)
    BY <2>5 DEF Peek, ReadPrevious
  <2>6. CASE MarkRunning(r)
    BY <2>6 DEF MarkRunning, StoreMutation, Store
  <2>7. CASE MarkFails(r)
    BY <2>7 DEF MarkFails, AfterFailure, StoreMutationFails, StoreMutation, Store
  <2>8. CASE CallDriver(r)
    BY <2>8 DEF CallDriver
  <2>9. CASE GuardPasses(r)
    BY <2>9 DEF GuardPasses, Guard
  <2>10. ASSUME NEW x \in Res, Mutate(r, x) PROVE BlameInv'
    BY <2>10 DEF Mutate
  <2>11. ASSUME NEW x \in Res, Detach(r, x) PROVE BlameInv'
    BY <2>11 DEF Detach
  <2>12. CASE DriverSucceeds(r)
    BY <2>12 DEF DriverSucceeds, Succeeded
  <2>13. CASE DriverFails(r)
    BY <2>13 DEF DriverFails, AfterFailure
  <2>14. CASE PeekError(r)
    BY <2>14 DEF PeekError, ReadPrevious
  <2>15. CASE MarkError(r)
    BY <2>15 DEF MarkError, StoreMutation, Store
  <2>16. CASE MarkErrorFails(r)
    BY <2>16 DEF MarkErrorFails, StoreMutationFails, StoreMutation, Store
  <2>17. CASE Publish(r)
    BY <2>17 DEF Publish, StoreResult, Store, Outcome
  <2>18. CASE PublishFails(r)
    BY <2>18 DEF PublishFails, StoreResult, Store, Outcome
  <2>19. CASE PublishDetached(r)
    BY <2>19 DEF PublishDetached, Store
  <2>20. CASE Interrupt(r)
    BY <2>20 DEF Interrupt, AfterFailure
  <2>21. CASE Crash(r)
    BY <2>21 DEF Crash
  <2> QED BY <1>1, <2>1, <2>2, <2>3, <2>4, <2>5, <2>6, <2>7, <2>8, <2>9, <2>10, <2>11,
      <2>12, <2>13, <2>14, <2>15, <2>16, <2>17, <2>18, <2>19, <2>20, <2>21 DEF
      RunStep
<1>2. CASE UNCHANGED vars
    BY <1>2 DEF vars
<1> QED BY <1>1, <1>2 DEF Next

\* A run begins only when the slot is quiet.
LEMMA AloneStep == TypeOK /\ Serial /\ Alone /\ [Next]_vars => Alone'
<1> SUFFICES ASSUME TypeOK, Serial, Alone, [Next]_vars PROVE Alone'
    OBVIOUS
<1> USE DEF TypeOK, Alone,
        Active, Marking, Driving, Failing, Ended, Goto, file, world, own, Commands,
        Building
<1>1. ASSUME NEW r \in Runs, RunStep(r) PROVE Alone'
  <2>1. CASE Start(r)
    BY <2>1 DEF Start, MayStart, AfterPreflight
  <2>2. CASE StartDetach(r)
    BY <2>2 DEF StartDetach, MayStart
  <2>3. CASE PreflightPasses(r)
    BY <2>3 DEF PreflightPasses, AfterPreflight, Guard
  <2>4. CASE PreflightFails(r)
    BY <2>4 DEF PreflightFails, AfterFailure
  <2>5. CASE Peek(r)
    BY <2>5 DEF Peek, ReadPrevious
  <2>6. CASE MarkRunning(r)
    BY <2>6 DEF MarkRunning, StoreMutation, Store
  <2>7. CASE MarkFails(r)
    BY <2>7 DEF MarkFails, AfterFailure, StoreMutationFails, StoreMutation, Store
  <2>8. CASE CallDriver(r)
    BY <2>8 DEF CallDriver
  <2>9. CASE GuardPasses(r)
    BY <2>9 DEF GuardPasses, Guard
  <2>10. ASSUME NEW x \in Res, Mutate(r, x) PROVE Alone'
    BY <2>10 DEF Mutate
  <2>11. ASSUME NEW x \in Res, Detach(r, x) PROVE Alone'
    BY <2>11 DEF Detach
  <2>12. CASE DriverSucceeds(r)
    BY <2>12 DEF DriverSucceeds, Succeeded
  <2>13. CASE DriverFails(r)
    BY <2>13 DEF DriverFails, AfterFailure
  <2>14. CASE PeekError(r)
    BY <2>14 DEF PeekError, ReadPrevious
  <2>15. CASE MarkError(r)
    BY <2>15 DEF MarkError, StoreMutation, Store
  <2>16. CASE MarkErrorFails(r)
    BY <2>16 DEF MarkErrorFails, StoreMutationFails, StoreMutation, Store
  <2>17. CASE Publish(r)
    BY <2>17 DEF Publish, StoreResult, Store, Outcome
  <2>18. CASE PublishFails(r)
    BY <2>18 DEF PublishFails, StoreResult, Store, Outcome
  <2>19. CASE PublishDetached(r)
    BY <2>19 DEF PublishDetached, Store
  <2>20. CASE Interrupt(r)
    BY <2>20 DEF Interrupt, AfterFailure
  <2>21. CASE Crash(r)
    BY <2>21 DEF Crash
  <2> QED BY <1>1, <2>1, <2>2, <2>3, <2>4, <2>5, <2>6, <2>7, <2>8, <2>9, <2>10, <2>11,
      <2>12, <2>13, <2>14, <2>15, <2>16, <2>17, <2>18, <2>19, <2>20, <2>21 DEF
      RunStep
<1>2. CASE UNCHANGED vars
    BY <1>2 DEF vars
<1> QED BY <1>1, <1>2 DEF Next

\* Only the run itself writes while it is in progress.
LEMMA DrivingStep == TypeOK /\ Alone /\ DrivingInv /\ [Next]_vars => DrivingInv'
<1> SUFFICES ASSUME TypeOK, Alone, DrivingInv, [Next]_vars PROVE DrivingInv'
    OBVIOUS
<1> USE DEF TypeOK, Alone, DrivingInv,
        Active, Marking, Driving, Failing, Ended, Goto, file, world, own, Commands,
        Building
<1>1. ASSUME NEW r \in Runs, RunStep(r) PROVE DrivingInv'
  <2>1. CASE Start(r)
    BY <2>1 DEF Start, MayStart, AfterPreflight
  <2>2. CASE StartDetach(r)
    BY <2>2 DEF StartDetach, MayStart
  <2>3. CASE PreflightPasses(r)
    BY <2>3 DEF PreflightPasses, AfterPreflight, Guard
  <2>4. CASE PreflightFails(r)
    BY <2>4 DEF PreflightFails, AfterFailure
  <2>5. CASE Peek(r)
    BY <2>5 DEF Peek, ReadPrevious
  <2>6. CASE MarkRunning(r)
    BY <2>6 DEF MarkRunning, StoreMutation, Store
  <2>7. CASE MarkFails(r)
    BY <2>7 DEF MarkFails, AfterFailure, StoreMutationFails, StoreMutation, Store
  <2>8. CASE CallDriver(r)
    BY <2>8 DEF CallDriver
  <2>9. CASE GuardPasses(r)
    BY <2>9 DEF GuardPasses, Guard
  <2>10. ASSUME NEW x \in Res, Mutate(r, x) PROVE DrivingInv'
    BY <2>10 DEF Mutate
  <2>11. ASSUME NEW x \in Res, Detach(r, x) PROVE DrivingInv'
    BY <2>11 DEF Detach
  <2>12. CASE DriverSucceeds(r)
    BY <2>12 DEF DriverSucceeds, Succeeded
  <2>13. CASE DriverFails(r)
    BY <2>13 DEF DriverFails, AfterFailure
  <2>14. CASE PeekError(r)
    BY <2>14 DEF PeekError, ReadPrevious
  <2>15. CASE MarkError(r)
    BY <2>15 DEF MarkError, StoreMutation, Store
  <2>16. CASE MarkErrorFails(r)
    BY <2>16 DEF MarkErrorFails, StoreMutationFails, StoreMutation, Store
  <2>17. CASE Publish(r)
    BY <2>17 DEF Publish, StoreResult, Store, Outcome
  <2>18. CASE PublishFails(r)
    BY <2>18 DEF PublishFails, StoreResult, Store, Outcome
  <2>19. CASE PublishDetached(r)
    BY <2>19 DEF PublishDetached, Store
  <2>20. CASE Interrupt(r)
    BY <2>20 DEF Interrupt, AfterFailure
  <2>21. CASE Crash(r)
    BY <2>21 DEF Crash
  <2> QED BY <1>1, <2>1, <2>2, <2>3, <2>4, <2>5, <2>6, <2>7, <2>8, <2>9, <2>10, <2>11,
      <2>12, <2>13, <2>14, <2>15, <2>16, <2>17, <2>18, <2>19, <2>20, <2>21 DEF
      RunStep
<1>2. CASE UNCHANGED vars
    BY <1>2 DEF vars
<1> QED BY <1>1, <1>2 DEF Next

\* Only the run itself changes resources while it is in progress.
LEMMA ProgressStep == TypeOK /\ Alone /\ ProgressInv /\ [Next]_vars => ProgressInv'
<1> SUFFICES ASSUME TypeOK, Alone, ProgressInv, [Next]_vars PROVE ProgressInv'
    OBVIOUS
<1> USE DEF TypeOK, Alone, ProgressInv,
        Active, Marking, Driving, Failing, Ended, Goto, file, world, own, Commands,
        Building
<1>1. ASSUME NEW r \in Runs, RunStep(r) PROVE ProgressInv'
  <2>1. CASE Start(r)
    BY <2>1 DEF Start, MayStart, AfterPreflight
  <2>2. CASE StartDetach(r)
    BY <2>2 DEF StartDetach, MayStart
  <2>3. CASE PreflightPasses(r)
    BY <2>3 DEF PreflightPasses, AfterPreflight, Guard
  <2>4. CASE PreflightFails(r)
    BY <2>4 DEF PreflightFails, AfterFailure
  <2>5. CASE Peek(r)
    BY <2>5 DEF Peek, ReadPrevious
  <2>6. CASE MarkRunning(r)
    BY <2>6 DEF MarkRunning, StoreMutation, Store
  <2>7. CASE MarkFails(r)
    BY <2>7 DEF MarkFails, AfterFailure, StoreMutationFails, StoreMutation, Store
  <2>8. CASE CallDriver(r)
    BY <2>8 DEF CallDriver
  <2>9. CASE GuardPasses(r)
    BY <2>9 DEF GuardPasses, Guard
  <2>10. ASSUME NEW x \in Res, Mutate(r, x) PROVE ProgressInv'
    BY <2>10 DEF Mutate
  <2>11. ASSUME NEW x \in Res, Detach(r, x) PROVE ProgressInv'
    BY <2>11 DEF Detach
  <2>12. CASE DriverSucceeds(r)
    <3>1. res[space[r]] \subseteq Res
      OBVIOUS
    <3>2. cmd[r] = "destroy" => res[space[r]] = {}
      BY <2>12, <3>1 DEF DriverSucceeds, Succeeded
    <3>3. cmd[r] \in {"apply", "status"} => res[space[r]] = Res
      BY <2>12, <3>1 DEF DriverSucceeds, Succeeded
    <3> QED BY <2>12, <3>2, <3>3 DEF DriverSucceeds
  <2>13. CASE DriverFails(r)
    BY <2>13 DEF DriverFails, AfterFailure
  <2>14. CASE PeekError(r)
    BY <2>14 DEF PeekError, ReadPrevious
  <2>15. CASE MarkError(r)
    BY <2>15 DEF MarkError, StoreMutation, Store
  <2>16. CASE MarkErrorFails(r)
    BY <2>16 DEF MarkErrorFails, StoreMutationFails, StoreMutation, Store
  <2>17. CASE Publish(r)
    BY <2>17 DEF Publish, StoreResult, Store, Outcome
  <2>18. CASE PublishFails(r)
    BY <2>18 DEF PublishFails, StoreResult, Store, Outcome
  <2>19. CASE PublishDetached(r)
    BY <2>19 DEF PublishDetached, Store
  <2>20. CASE Interrupt(r)
    BY <2>20 DEF Interrupt, AfterFailure
  <2>21. CASE Crash(r)
    BY <2>21 DEF Crash
  <2> QED BY <1>1, <2>1, <2>2, <2>3, <2>4, <2>5, <2>6, <2>7, <2>8, <2>9, <2>10, <2>11,
      <2>12, <2>13, <2>14, <2>15, <2>16, <2>17, <2>18, <2>19, <2>20, <2>21 DEF
      RunStep
<1>2. CASE UNCHANGED vars
    BY <1>2 DEF vars
<1> QED BY <1>1, <1>2 DEF Next

\* The guard finds out what the others hold, or sets it aside.
LEMMA GuardStep ==
    TypeOK /\ Alone /\ BindingInv /\ TerminalMeansGone /\ GuardInv /\ [Next]_vars
    => GuardInv'
<1> SUFFICES ASSUME TypeOK, Alone, BindingInv, TerminalMeansGone, GuardInv,
                    [Next]_vars
             PROVE  GuardInv'
    OBVIOUS
<1> USE NoneAssumption DEF TypeOK, Alone, BindingInv, TerminalMeansGone, GuardInv,
        NothingBut,
        Active, Marking, Driving, Failing, Ended, Goto, file, world, own, Commands,
        Building
<1>1. ASSUME NEW r \in Runs, RunStep(r) PROVE GuardInv'
  <2>1. CASE Start(r)
    BY <2>1 DEF Start, MayStart, AfterPreflight
  <2>2. CASE StartDetach(r)
    BY <2>2 DEF StartDetach, MayStart
  <2>3. CASE PreflightPasses(r)
    BY <2>3 DEF PreflightPasses, AfterPreflight, Guard, Elsewhere
  <2>4. CASE PreflightFails(r)
    BY <2>4 DEF PreflightFails, AfterFailure
  <2>5. CASE Peek(r)
    BY <2>5 DEF Peek, ReadPrevious
  <2>6. CASE MarkRunning(r)
    BY <2>6 DEF MarkRunning, StoreMutation, Store
  <2>7. CASE MarkFails(r)
    BY <2>7 DEF MarkFails, AfterFailure, StoreMutationFails, StoreMutation, Store
  <2>8. CASE CallDriver(r)
    BY <2>8 DEF CallDriver
  <2>9. CASE GuardPasses(r)
    BY <2>9 DEF GuardPasses, Guard, Bound, Elsewhere
  <2>10. ASSUME NEW x \in Res, Mutate(r, x) PROVE GuardInv'
    BY <2>10 DEF Mutate
  <2>11. ASSUME NEW x \in Res, Detach(r, x) PROVE GuardInv'
    BY <2>11 DEF Detach
  <2>12. CASE DriverSucceeds(r)
    BY <2>12 DEF DriverSucceeds, Succeeded
  <2>13. CASE DriverFails(r)
    BY <2>13 DEF DriverFails, AfterFailure
  <2>14. CASE PeekError(r)
    BY <2>14 DEF PeekError, ReadPrevious
  <2>15. CASE MarkError(r)
    BY <2>15 DEF MarkError, StoreMutation, Store
  <2>16. CASE MarkErrorFails(r)
    BY <2>16 DEF MarkErrorFails, StoreMutationFails, StoreMutation, Store
  <2>17. CASE Publish(r)
    BY <2>17 DEF Publish, StoreResult, Store, Outcome
  <2>18. CASE PublishFails(r)
    BY <2>18 DEF PublishFails, StoreResult, Store, Outcome
  <2>19. CASE PublishDetached(r)
    BY <2>19 DEF PublishDetached, Store
  <2>20. CASE Interrupt(r)
    BY <2>20 DEF Interrupt, AfterFailure
  <2>21. CASE Crash(r)
    BY <2>21 DEF Crash
  <2> QED BY <1>1, <2>1, <2>2, <2>3, <2>4, <2>5, <2>6, <2>7, <2>8, <2>9, <2>10, <2>11,
      <2>12, <2>13, <2>14, <2>15, <2>16, <2>17, <2>18, <2>19, <2>20, <2>21 DEF
      RunStep
<1>2. CASE UNCHANGED vars
    BY <1>2 DEF vars
<1> QED BY <1>1, <1>2 DEF Next

\* Only a run the guard has let through names a backend.
LEMMA BindingStep ==
    TypeOK /\ DrivingInv /\ ProgressInv /\ GuardInv /\ BindingInv /\ [Next]_vars
    => BindingInv'
<1> SUFFICES ASSUME TypeOK, DrivingInv, ProgressInv, GuardInv, BindingInv,
                    [Next]_vars
             PROVE  BindingInv'
    OBVIOUS
<1> USE NoneAssumption DEF TypeOK, DrivingInv, ProgressInv, GuardInv, BindingInv,
        NothingBut,        Terminal,
        Active, Marking, Driving, Failing, Ended, Goto, file, world, own, Commands,
        Building
<1>1. ASSUME NEW r \in Runs, RunStep(r) PROVE BindingInv'
  <2>1. CASE Start(r)
    BY <2>1 DEF Start, MayStart, AfterPreflight
  <2>2. CASE StartDetach(r)
    BY <2>2 DEF StartDetach, MayStart
  <2>3. CASE PreflightPasses(r)
    BY <2>3 DEF PreflightPasses, AfterPreflight, Guard
  <2>4. CASE PreflightFails(r)
    BY <2>4 DEF PreflightFails, AfterFailure
  <2>5. CASE Peek(r)
    BY <2>5 DEF Peek, ReadPrevious
  <2>6. CASE MarkRunning(r)
    BY <2>6 DEF MarkRunning, StoreMutation, Store
  <2>7. CASE MarkFails(r)
    BY <2>7 DEF MarkFails, AfterFailure, StoreMutationFails, StoreMutation, Store
  <2>8. CASE CallDriver(r)
    BY <2>8 DEF CallDriver
  <2>9. CASE GuardPasses(r)
    BY <2>9 DEF GuardPasses, Guard
  <2>10. ASSUME NEW x \in Res, Mutate(r, x) PROVE BindingInv'
    BY <2>10 DEF Mutate
  <2>11. ASSUME NEW x \in Res, Detach(r, x) PROVE BindingInv'
    BY <2>11 DEF Detach
  <2>12. CASE DriverSucceeds(r)
    BY <2>12 DEF DriverSucceeds, Succeeded
  <2>13. CASE DriverFails(r)
    BY <2>13 DEF DriverFails, AfterFailure
  <2>14. CASE PeekError(r)
    BY <2>14 DEF PeekError, ReadPrevious
  <2>15. CASE MarkError(r)
    BY <2>15 DEF MarkError, StoreMutation, Store
  <2>16. CASE MarkErrorFails(r)
    BY <2>16 DEF MarkErrorFails, StoreMutationFails, StoreMutation, Store
  <2>17. CASE Publish(r)
    BY <2>17 DEF Publish, StoreResult, Store, Outcome
  <2>18. CASE PublishFails(r)
    BY <2>18 DEF PublishFails, StoreResult, Store, Outcome
  <2>19. CASE PublishDetached(r)
    BY <2>19 DEF PublishDetached, Store
  <2>20. CASE Interrupt(r)
    BY <2>20 DEF Interrupt, AfterFailure
  <2>21. CASE Crash(r)
    BY <2>21 DEF Crash
  <2> QED BY <1>1, <2>1, <2>2, <2>3, <2>4, <2>5, <2>6, <2>7, <2>8, <2>9, <2>10, <2>11,
      <2>12, <2>13, <2>14, <2>15, <2>16, <2>17, <2>18, <2>19, <2>20, <2>21 DEF
      RunStep
<1>2. CASE UNCHANGED vars
    BY <1>2 DEF vars
<1> QED BY <1>1, <1>2 DEF Next

\* "destroyed" is written over nothing, and resources appear under "running".
LEMMA TerminalStep ==
    TypeOK /\ DrivingInv /\ ProgressInv /\ GuardInv /\ TerminalMeansGone /\ [Next]_vars
    => TerminalMeansGone'
<1> SUFFICES ASSUME TypeOK, DrivingInv, ProgressInv, GuardInv, TerminalMeansGone,
                    [Next]_vars
             PROVE  TerminalMeansGone'
    OBVIOUS
<1> USE DEF TypeOK, TerminalMeansGone, DrivingInv, ProgressInv, GuardInv, NothingBut,
        Terminal,
        Active, Marking, Driving, Failing, Ended, Goto, file, world, own, Commands,
        Building
<1>1. ASSUME NEW r \in Runs, RunStep(r) PROVE TerminalMeansGone'
  <2>1. CASE Start(r)
    BY <2>1 DEF Start, MayStart, AfterPreflight
  <2>2. CASE StartDetach(r)
    BY <2>2 DEF StartDetach, MayStart
  <2>3. CASE PreflightPasses(r)
    BY <2>3 DEF PreflightPasses, AfterPreflight, Guard
  <2>4. CASE PreflightFails(r)
    BY <2>4 DEF PreflightFails, AfterFailure
  <2>5. CASE Peek(r)
    BY <2>5 DEF Peek, ReadPrevious
  <2>6. CASE MarkRunning(r)
    BY <2>6 DEF MarkRunning, StoreMutation, Store
  <2>7. CASE MarkFails(r)
    BY <2>7 DEF MarkFails, AfterFailure, StoreMutationFails, StoreMutation, Store
  <2>8. CASE CallDriver(r)
    BY <2>8 DEF CallDriver
  <2>9. CASE GuardPasses(r)
    BY <2>9 DEF GuardPasses, Guard
  <2>10. ASSUME NEW x \in Res, Mutate(r, x) PROVE TerminalMeansGone'
    BY <2>10 DEF Mutate
  <2>11. ASSUME NEW x \in Res, Detach(r, x) PROVE TerminalMeansGone'
    BY <2>11 DEF Detach
  <2>12. CASE DriverSucceeds(r)
    BY <2>12 DEF DriverSucceeds, Succeeded
  <2>13. CASE DriverFails(r)
    BY <2>13 DEF DriverFails, AfterFailure
  <2>14. CASE PeekError(r)
    BY <2>14 DEF PeekError, ReadPrevious
  <2>15. CASE MarkError(r)
    BY <2>15 DEF MarkError, StoreMutation, Store
  <2>16. CASE MarkErrorFails(r)
    BY <2>16 DEF MarkErrorFails, StoreMutationFails, StoreMutation, Store
  <2>17. CASE Publish(r)
    BY <2>17 DEF Publish, StoreResult, Store, Outcome
  <2>18. CASE PublishFails(r)
    BY <2>18 DEF PublishFails, StoreResult, Store, Outcome
  <2>19. CASE PublishDetached(r)
    BY <2>19 DEF PublishDetached, Store
  <2>20. CASE Interrupt(r)
    BY <2>20 DEF Interrupt, AfterFailure
  <2>21. CASE Crash(r)
    BY <2>21 DEF Crash
  <2> QED BY <1>1, <2>1, <2>2, <2>3, <2>4, <2>5, <2>6, <2>7, <2>8, <2>9, <2>10, <2>11,
      <2>12, <2>13, <2>14, <2>15, <2>16, <2>17, <2>18, <2>19, <2>20, <2>21 DEF
      RunStep
<1>2. CASE UNCHANGED vars
    BY <1>2 DEF vars
<1> QED BY <1>1, <1>2 DEF Next

\* "ok" is written over everything, and only a destroy or detach takes away under it.
LEMMA CompleteStep ==
    TypeOK /\ DrivingInv /\ ProgressInv /\ OkMeansComplete /\ [Next]_vars
    => OkMeansComplete'
<1> SUFFICES ASSUME TypeOK, DrivingInv, ProgressInv, OkMeansComplete,
                    [Next]_vars
             PROVE  OkMeansComplete'
    OBVIOUS
<1> USE DEF TypeOK, OkMeansComplete, DrivingInv, ProgressInv,
        Active, Marking, Driving, Failing, Ended, Goto, file, world, own, Commands,
        Building
<1>1. ASSUME NEW r \in Runs, RunStep(r) PROVE OkMeansComplete'
  <2>1. CASE Start(r)
    BY <2>1 DEF Start, MayStart, AfterPreflight
  <2>2. CASE StartDetach(r)
    BY <2>2 DEF StartDetach, MayStart
  <2>3. CASE PreflightPasses(r)
    BY <2>3 DEF PreflightPasses, AfterPreflight, Guard
  <2>4. CASE PreflightFails(r)
    BY <2>4 DEF PreflightFails, AfterFailure
  <2>5. CASE Peek(r)
    BY <2>5 DEF Peek, ReadPrevious
  <2>6. CASE MarkRunning(r)
    BY <2>6 DEF MarkRunning, StoreMutation, Store
  <2>7. CASE MarkFails(r)
    BY <2>7 DEF MarkFails, AfterFailure, StoreMutationFails, StoreMutation, Store
  <2>8. CASE CallDriver(r)
    BY <2>8 DEF CallDriver
  <2>9. CASE GuardPasses(r)
    BY <2>9 DEF GuardPasses, Guard
  <2>10. ASSUME NEW x \in Res, Mutate(r, x) PROVE OkMeansComplete'
    BY <2>10 DEF Mutate
  <2>11. ASSUME NEW x \in Res, Detach(r, x) PROVE OkMeansComplete'
    BY <2>11 DEF Detach
  <2>12. CASE DriverSucceeds(r)
    BY <2>12 DEF DriverSucceeds, Succeeded
  <2>13. CASE DriverFails(r)
    BY <2>13 DEF DriverFails, AfterFailure
  <2>14. CASE PeekError(r)
    BY <2>14 DEF PeekError, ReadPrevious
  <2>15. CASE MarkError(r)
    BY <2>15 DEF MarkError, StoreMutation, Store
  <2>16. CASE MarkErrorFails(r)
    BY <2>16 DEF MarkErrorFails, StoreMutationFails, StoreMutation, Store
  <2>17. CASE Publish(r)
    BY <2>17 DEF Publish, StoreResult, Store, Outcome
  <2>18. CASE PublishFails(r)
    <3>1. CASE StoreResult(r)
      BY <2>18, <3>1 DEF PublishFails, StoreResult, Store, Outcome
    <3>2. CASE UNCHANGED <<file, partial>>
      BY <2>18, <3>2 DEF PublishFails
    <3> QED BY <2>18, <3>1, <3>2 DEF PublishFails
  <2>19. CASE PublishDetached(r)
    BY <2>19 DEF PublishDetached, Store
  <2>20. CASE Interrupt(r)
    BY <2>20 DEF Interrupt, AfterFailure
  <2>21. CASE Crash(r)
    BY <2>21 DEF Crash
  <2> QED BY <1>1, <2>1, <2>2, <2>3, <2>4, <2>5, <2>6, <2>7, <2>8, <2>9, <2>10, <2>11,
      <2>12, <2>13, <2>14, <2>15, <2>16, <2>17, <2>18, <2>19, <2>20, <2>21 DEF
      RunStep
<1>2. CASE UNCHANGED vars
    BY <1>2 DEF vars
<1> QED BY <1>1, <1>2 DEF Next

\* Resources appear only where the guard has let a run through.
LEMMA HomeStep ==
    TypeOK /\ GuardInv /\ ProgressInv /\ OneHome /\ [Next]_vars
    => OneHome'
<1> SUFFICES ASSUME TypeOK, GuardInv, ProgressInv, OneHome, [Next]_vars PROVE OneHome'
    OBVIOUS
<1> USE DEF TypeOK, GuardInv, NothingBut, ProgressInv, OneHome,
        Active, Marking, Driving, Failing, Ended, Goto, file, world, own, Commands,
        Building
<1>1. ASSUME NEW r \in Runs, RunStep(r) PROVE OneHome'
  <2>1. CASE Start(r)
    BY <2>1 DEF Start, MayStart, AfterPreflight
  <2>2. CASE StartDetach(r)
    BY <2>2 DEF StartDetach, MayStart
  <2>3. CASE PreflightPasses(r)
    BY <2>3 DEF PreflightPasses, AfterPreflight, Guard
  <2>4. CASE PreflightFails(r)
    BY <2>4 DEF PreflightFails, AfterFailure
  <2>5. CASE Peek(r)
    BY <2>5 DEF Peek, ReadPrevious
  <2>6. CASE MarkRunning(r)
    BY <2>6 DEF MarkRunning, StoreMutation, Store
  <2>7. CASE MarkFails(r)
    BY <2>7 DEF MarkFails, AfterFailure, StoreMutationFails, StoreMutation, Store
  <2>8. CASE CallDriver(r)
    BY <2>8 DEF CallDriver
  <2>9. CASE GuardPasses(r)
    BY <2>9 DEF GuardPasses, Guard
  <2>10. ASSUME NEW x \in Res, Mutate(r, x) PROVE OneHome'
    BY <2>10 DEF Mutate
  <2>11. ASSUME NEW x \in Res, Detach(r, x) PROVE OneHome'
    BY <2>11 DEF Detach
  <2>12. CASE DriverSucceeds(r)
    BY <2>12 DEF DriverSucceeds, Succeeded
  <2>13. CASE DriverFails(r)
    BY <2>13 DEF DriverFails, AfterFailure
  <2>14. CASE PeekError(r)
    BY <2>14 DEF PeekError, ReadPrevious
  <2>15. CASE MarkError(r)
    BY <2>15 DEF MarkError, StoreMutation, Store
  <2>16. CASE MarkErrorFails(r)
    BY <2>16 DEF MarkErrorFails, StoreMutationFails, StoreMutation, Store
  <2>17. CASE Publish(r)
    BY <2>17 DEF Publish, StoreResult, Store, Outcome
  <2>18. CASE PublishFails(r)
    BY <2>18 DEF PublishFails, StoreResult, Store, Outcome
  <2>19. CASE PublishDetached(r)
    BY <2>19 DEF PublishDetached, Store
  <2>20. CASE Interrupt(r)
    BY <2>20 DEF Interrupt, AfterFailure
  <2>21. CASE Crash(r)
    BY <2>21 DEF Crash
  <2> QED BY <1>1, <2>1, <2>2, <2>3, <2>4, <2>5, <2>6, <2>7, <2>8, <2>9, <2>10, <2>11,
      <2>12, <2>13, <2>14, <2>15, <2>16, <2>17, <2>18, <2>19, <2>20, <2>21 DEF
      RunStep
<1>2. CASE UNCHANGED vars
    BY <1>2 DEF vars
<1> QED BY <1>1, <1>2 DEF Next

\* What holds of any runs, overlapping or not.
LEMMA AnyInductive == Spec => [](TypeOK /\ BlameInv)
<1>1. TypeOK /\ BlameInv /\ [Next]_vars => (TypeOK /\ BlameInv)'
    BY TypeStep, BlameStep
<1> QED BY InitInv, <1>1, PTL DEF Spec

\* What holds of runs that do not overlap.
LEMMA SerialInductive == ASSUME Serial PROVE Spec => []SerialInv
<1>1. Init => SerialInv
    BY InitInv
<1>2. TypeOK /\ SerialInv /\ [Next]_vars => SerialInv'
    BY AloneStep, DrivingStep, ProgressStep, GuardStep, BindingStep, TerminalStep,
       CompleteStep, HomeStep DEF SerialInv
<1> QED BY AnyInductive, <1>1, <1>2, PTL DEF Spec

\* Type correctness of the slot and its runs, overlapping or not.
THEOREM TypeCorrect == Spec => []TypeOK
BY AnyInductive, PTL

\* An apply stopped by its preflight leaves "ok" and "destroyed" alone, whatever
\* else is running: the marker says "error" only for a run that reached the
\* driver, or for a status check.
THEOREM ErrorsAreEarned == Spec => []ErrorNeedsDriverCall
<1>1. BlameInv => ErrorNeedsDriverCall
    BY DEF BlameInv
<1> QED BY AnyInductive, <1>1, PTL

\* Runs that do not overlap leave no resource behind a marker that tells the
\* next destroy there is nothing to do, wherever they fail, crash or lose a write.
THEOREM TerminalIsGone == ASSUME Serial PROVE Spec => []TerminalMeansGone
<1>1. SerialInv => TerminalMeansGone
    BY DEF SerialInv
<1> QED BY SerialInductive, <1>1, PTL

\* The resources of a slot stay in one backend as long as no run is let past
\* the guard.
THEOREM HomeIsOne == ASSUME Serial PROVE Spec => []OneHome
<1>1. SerialInv => OneHome
    BY DEF SerialInv
<1> QED BY SerialInductive, <1>1, PTL

\* And "ok" stands for a complete module until a destroy begins to take it down.
THEOREM OkIsComplete == ASSUME Serial PROVE Spec => []OkMeansComplete
<1>1. SerialInv => OkMeansComplete
    BY DEF SerialInv
<1> QED BY SerialInductive, <1>1, PTL

-----------------------------------------------------------------------------
(* Outputs                                                                    *)

\* Between the read and the write of persist_mutation_state nobody else writes.
PeekInv == \A r \in Runs :
    pc[r] \in {"mark", "markError"} => previous[r] \in {outputs, None}

\* Outputs change with a good apply, an end of the module, or a file not read.
Kept == (outputs # None /\ outputs' # outputs) =>
            \/ marker' \in {"ok", "destroyed", "detached"}
            \/ \E r \in Runs :
                  pc[r] \in {"mark", "markError"} /\ previous[r] = None

\* A run alone writes back the outputs it has read.
LEMMA OutputsStep == TypeOK /\ Alone /\ PeekInv /\ [Next]_vars => PeekInv' /\ Kept
<1> DEFINE Goal == PeekInv' /\ Kept
<1> SUFFICES ASSUME TypeOK, Alone, PeekInv, [Next]_vars PROVE Goal
    OBVIOUS
<1> USE DEF TypeOK, Alone, PeekInv, Kept,
        Active, Marking, Driving, Failing, Ended, Goto, file, world, own, Commands,
        Building
<1>1. ASSUME NEW r \in Runs, RunStep(r) PROVE Goal
  <2>1. CASE Start(r)
    BY <2>1 DEF Start, MayStart, AfterPreflight
  <2>2. CASE StartDetach(r)
    BY <2>2 DEF StartDetach, MayStart
  <2>3. CASE PreflightPasses(r)
    BY <2>3 DEF PreflightPasses, AfterPreflight, Guard
  <2>4. CASE PreflightFails(r)
    BY <2>4 DEF PreflightFails, AfterFailure
  <2>5. CASE Peek(r)
    BY <2>5 DEF Peek, ReadPrevious
  <2>6. CASE MarkRunning(r)
    BY <2>6 DEF MarkRunning, StoreMutation, Store
  <2>7. CASE MarkFails(r)
    BY <2>7 DEF MarkFails, AfterFailure, StoreMutationFails, StoreMutation, Store
  <2>8. CASE CallDriver(r)
    BY <2>8 DEF CallDriver
  <2>9. CASE GuardPasses(r)
    BY <2>9 DEF GuardPasses, Guard
  <2>10. ASSUME NEW x \in Res, Mutate(r, x) PROVE Goal
    BY <2>10 DEF Mutate
  <2>11. ASSUME NEW x \in Res, Detach(r, x) PROVE Goal
    BY <2>11 DEF Detach
  <2>12. CASE DriverSucceeds(r)
    BY <2>12 DEF DriverSucceeds, Succeeded
  <2>13. CASE DriverFails(r)
    BY <2>13 DEF DriverFails, AfterFailure
  <2>14. CASE PeekError(r)
    BY <2>14 DEF PeekError, ReadPrevious
  <2>15. CASE MarkError(r)
    BY <2>15 DEF MarkError, StoreMutation, Store
  <2>16. CASE MarkErrorFails(r)
    BY <2>16 DEF MarkErrorFails, StoreMutationFails, StoreMutation, Store
  <2>17. CASE Publish(r)
    BY <2>17 DEF Publish, StoreResult, Store, Outcome
  <2>18. CASE PublishFails(r)
    BY <2>18 DEF PublishFails, StoreResult, Store, Outcome
  <2>19. CASE PublishDetached(r)
    BY <2>19 DEF PublishDetached, Store
  <2>20. CASE Interrupt(r)
    BY <2>20 DEF Interrupt, AfterFailure
  <2>21. CASE Crash(r)
    BY <2>21 DEF Crash
  <2> QED BY <1>1, <2>1, <2>2, <2>3, <2>4, <2>5, <2>6, <2>7, <2>8, <2>9, <2>10, <2>11,
      <2>12, <2>13, <2>14, <2>15, <2>16, <2>17, <2>18, <2>19, <2>20, <2>21 DEF
      RunStep
<1>2. CASE UNCHANGED vars
    BY <1>2 DEF vars
<1> QED BY <1>1, <1>2 DEF Next

\* For runs that do not overlap: what a completed apply has published stays
\* readable through every later run that fails, dies or is refused, unless that
\* run could not read it.
THEOREM OutputsStay == ASSUME Serial PROVE Spec => OutputsOutliveFailures
<1>1. Init => PeekInv
    BY DEF Init, PeekInv
<1>2. TypeOK /\ SerialInv /\ PeekInv /\ [Next]_vars => PeekInv'
    BY OutputsStep DEF SerialInv
<1>3. TypeOK /\ SerialInv /\ PeekInv /\ [Next]_vars =>
          [(outputs # None /\ outputs' # outputs) =>
              \/ marker' \in {"ok", "destroyed", "detached"}
              \/ \E r \in Runs :
                    pc[r] \in {"mark", "markError"} /\ previous[r] = None]_vars
    BY OutputsStep DEF SerialInv, Kept
<1> QED BY AnyInductive, SerialInductive, <1>1, <1>2, <1>3, PTL
        DEF Spec, OutputsOutliveFailures
=============================================================================
