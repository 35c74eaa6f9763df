-------------------------- MODULE Blueprint_proofs ---------------------------
(* Theorems about the destroy, the deploy and the rebuild of a blueprint, for *)
(* any steps, authorities and policies.                                       *)
EXTENDS BlueprintRebuild, TLAPS

-----------------------------------------------------------------------------
(* THE DESTROY                                                                *)

\* In the loop over the steps.
Looping == {"loop", "finish"}

\* The resources of a child are in those of its parent.
Inside == \A c \in Steps : (c \in live /\ Parent[c] # 0) => Parent[c] \in live

\* finish_subsumed_steps works for a parent that is gone.
FinishInv ==
    IF destroyPc = "finish"
    THEN destroyAt \in Steps /\ destroyAt \notin live /\ pending \subseteq Children(destroyAt)
    ELSE pending = {}

\* What the command has removed is behind it, and before the loop that is nothing.
LostInv ==
    /\ destroyPc \in {"select", "archive"} => destroyAt = N
    /\ destroyPc \notin Looping => lost = {}
    /\ destroyPc = "loop" => \A s \in lost : s > destroyAt
    /\ destroyPc = "finish" => \A s \in lost : s >= destroyAt

\* The loop is past step s.
Past(s) == destroyPc \in Looping /\ (destroyAt < s \/ (destroyPc = "finish" /\ destroyAt = s))

\* A gate the loop has passed has preserved, or had nothing to preserve; and
\* when it failed the loop was over.
GateInv ==
    mode # "skip" =>
        \A g \in Gates : (Past(g) /\ destroyAt # 0) =>
            g \in preserved \/ Requires[g] \cap live = {}

\* The steps a destroy may leave standing.
Kept == Retained \cup excused \cup (IF mode = "skip" THEN Gates ELSE {})

\* What the loop has passed and left standing is accounted for, or its marker is
\* still to be written.
AccountInv ==
    \/ cancelled
    \/ failures # {}
    \/ \A s \in Steps : (Past(s) /\ marker[s] \notin Gone) => s \in Kept \cup deferred \cup pending

\* At first there is nothing to lose and nothing to account for.
LEMMA DestroyInitInv ==
    DestroyInit => DestroyTypeOK /\ MarkedGone /\ Inside /\ FinishInv /\ LostInv /\ GateInv
                   /\ GateBeforeLoss /\ ArchiveBeforeLoss /\ AccountInv
<1> SUFFICES ASSUME DestroyInit
             PROVE  DestroyTypeOK /\ MarkedGone /\ Inside /\ FinishInv /\ LostInv
                    /\ GateInv /\ GateBeforeLoss /\ ArchiveBeforeLoss /\ AccountInv
    OBVIOUS
<1> USE DEF DestroyInit
<1>1. DestroyTypeOK
  <2>1. destroyAt \in 0..N /\ N \in 0..N
    BY NAssumption
  <2>2. record \in Records
    BY DEF Records
  <2> QED BY <2>1, <2>2 DEF DestroyTypeOK, Markers
<1>2. MarkedGone /\ Inside /\ FinishInv
    BY DEF MarkedGone, Inside, FinishInv
<1>3. LostInv /\ GateInv /\ GateBeforeLoss
    BY DEF LostInv, GateInv, GateBeforeLoss, Past, Looping
<1>4. ArchiveBeforeLoss /\ AccountInv
    BY DEF ArchiveBeforeLoss, AccountInv, Past, Looping
<1> QED BY <1>1, <1>2, <1>3, <1>4

\* What a module run that did not return 0 may have done.
LEMMA Attempted ==
    ASSUME DestroyTypeOK, NEW s \in Steps, Attempt(s)
    PROVE  /\ marker' \in [Steps -> Markers]
           /\ live' \in SUBSET Steps /\ lost' \in SUBSET Steps
           /\ \A x \in Steps :
                 (marker'[x] = marker[x])
                 \/ (x = s /\ marker'[x] = "destroyed" /\ live' = live \ Taken(s))
           /\ \/ live' = live /\ lost' = lost
              \/ live' = live \ Taken(s) /\ lost' = lost \cup Taken(s)
<1> USE DEF DestroyTypeOK, Attempt, world, Remove, Markers
<1>0. Taken(s) \in SUBSET Steps
    BY DEF Taken
<1>1. CASE UNCHANGED <<world, lost>>
    BY <1>1
<1>2. CASE Remove(s) /\ marker' = marker
    BY <1>0, <1>2
<1>3. CASE Remove(s) /\ marker' = [marker EXCEPT ![s] = "destroyed"]
    BY <1>0, <1>3
<1> QED BY <1>1, <1>2, <1>3

\* Every step keeps the variables in their sets.
LEMMA DestroyTypeStep ==
    DestroyTypeOK /\ FinishInv /\ [DestroyNext]_destroyVars => DestroyTypeOK'
<1> SUFFICES ASSUME DestroyTypeOK, FinishInv, [DestroyNext]_destroyVars PROVE DestroyTypeOK'
    OBVIOUS
<1> USE NAssumption, OrderAssumption, StepAssumption, ParentAssumption, DestroyAssumption
        DEF DestroyTypeOK, Steps, Markers, world, tally, destroyHistory
<1>1. ASSUME NEW s \in Steps, Deploy(s) PROVE DestroyTypeOK'
    BY <1>1 DEF Deploy
<1>2. CASE StartDestroy
    BY <1>2 DEF StartDestroy, Write, Records
<1>3. CASE Decline
  <2>1. record' \in Records
    BY <1>3 DEF Decline, Write, Records
  <2>2. destroyPc' \in {"idle"} /\ mode' \in {"none"} /\ destroyAt' \in 0..N
    BY <1>3, NAssumption DEF Decline, ReturnDestroy
  <2> QED BY <1>3, <2>1, <2>2 DEF Decline, ReturnDestroy
<1>4. CASE Proceed
    BY <1>4 DEF Proceed, Modes
<1>5. CASE ArchiveVerified
    BY <1>5 DEF ArchiveVerified
<1>6. CASE ArchiveFails
  <2>1. record' \in Records
    BY <1>6 DEF ArchiveFails, Write, Records
  <2>2. destroyPc' \in {"idle"} /\ mode' \in {"none"} /\ destroyAt' \in 0..N
    BY <1>6, NAssumption DEF ArchiveFails, ReturnDestroy
  <2> QED BY <1>6, <2>1, <2>2 DEF ArchiveFails, ReturnDestroy
<1>7. CASE Bypass
    BY <1>7 DEF Bypass, Next1
<1>8. CASE SkipNoState
    BY <1>8 DEF SkipNoState, Next1
<1>9. CASE SkipDestroyed
    BY <1>9 DEF SkipDestroyed, StartFinish, Children
<1>10. CASE Defer
    BY <1>10 DEF Defer, Next1
<1>11. CASE DestroySucceeds
    BY <1>11 DEF DestroySucceeds, StartFinish, Children, Remove, Taken, Due, Passed
<1>12. CASE DestroyFails
  <2>1. destroyAt \in Steps /\ Attempt(destroyAt)
    BY <1>12 DEF DestroyFails, Steps
  <2>2. /\ marker' \in [Steps -> Markers]
        /\ live' \in SUBSET Steps /\ lost' \in SUBSET Steps
    BY <2>1, Attempted DEF DestroyTypeOK
  <2>3. destroyAt' \in 0..N
    BY <1>12, <2>1 DEF DestroyFails, Next1
  <2>4. failures' \in SUBSET Steps /\ excused' \in SUBSET Steps
    BY <1>12, <2>1 DEF DestroyFails
  <2> QED BY <1>12, <2>2, <2>3, <2>4 DEF DestroyFails
<1>13. CASE DestroyCancelled
  <2>1. destroyAt \in Steps /\ Attempt(destroyAt)
    BY <1>13 DEF DestroyCancelled, Steps
  <2>2. /\ marker' \in [Steps -> Markers]
        /\ live' \in SUBSET Steps /\ lost' \in SUBSET Steps
    BY <2>1, Attempted DEF DestroyTypeOK
  <2>3. destroyAt' \in 0..N
    BY <1>13, <2>1 DEF DestroyCancelled, Next1
  <2>4. failures' \in SUBSET Steps /\ excused' \in SUBSET Steps
    BY <1>13, <2>1 DEF DestroyCancelled
  <2> QED BY <1>13, <2>2, <2>3, <2>4 DEF DestroyCancelled
<1>14. ASSUME NEW c \in Steps, MarkChild(c) PROVE DestroyTypeOK'
    BY <1>14 DEF MarkChild
<1>15. ASSUME NEW c \in Steps, MarkChildFails(c) PROVE DestroyTypeOK'
    BY <1>15 DEF MarkChildFails
<1>16. CASE Finished
    BY <1>16 DEF Finished, Next1, FinishInv
<1>17. CASE ConcludeDestroy
  <2>1. record' \in Records
    BY <1>17 DEF ConcludeDestroy, Write, Records, DestroyOutcome
  <2>2. destroyPc' \in {"idle"} /\ mode' \in {"none"} /\ destroyAt' \in 0..N
    BY <1>17, NAssumption DEF ConcludeDestroy, ReturnDestroy
  <2> QED BY <1>17, <2>1, <2>2 DEF ConcludeDestroy, ReturnDestroy
<1>18. CASE CrashDestroy
  <2>1. destroyAt' \in 0..N
    BY <1>18 DEF CrashDestroy, ReturnDestroy
  <2> QED BY <1>18, <2>1 DEF CrashDestroy, ReturnDestroy
<1>19. CASE UNCHANGED destroyVars
    BY <1>19 DEF destroyVars
<1> QED BY <1>1, <1>2, <1>3, <1>4, <1>5, <1>6, <1>7, <1>8, <1>9, <1>10, <1>11, <1>12, <1>13,
            <1>14, <1>15, <1>16, <1>17, <1>18, <1>19 DEF DestroyNext, LoopStep

\* A parent takes its children with it, and no child has children of its own.
LEMMA InsideStep == DestroyTypeOK /\ Inside /\ [DestroyNext]_destroyVars => Inside'
<1> SUFFICES ASSUME DestroyTypeOK, Inside, [DestroyNext]_destroyVars PROVE Inside'
    OBVIOUS
<1> USE NAssumption, OrderAssumption, StepAssumption, ParentAssumption, DestroyAssumption,
        FlatAssumption DEF DestroyTypeOK, Inside, Steps, world, tally, destroyHistory
<1>1. ASSUME NEW s \in Steps, Deploy(s) PROVE Inside'
    BY <1>1 DEF Deploy
<1>2. CASE StartDestroy
    BY <1>2 DEF StartDestroy, Write
<1>3. CASE Decline
    BY <1>3 DEF Decline, ReturnDestroy, Write
<1>4. CASE Proceed
    BY <1>4 DEF Proceed
<1>5. CASE ArchiveVerified
    BY <1>5 DEF ArchiveVerified
<1>6. CASE ArchiveFails
    BY <1>6 DEF ArchiveFails, ReturnDestroy, Write
<1>7. CASE Bypass
    BY <1>7 DEF Bypass, Next1
<1>8. CASE SkipNoState
    BY <1>8 DEF SkipNoState, Next1
<1>9. CASE SkipDestroyed
    BY <1>9 DEF SkipDestroyed, StartFinish, Children
<1>10. CASE Defer
    BY <1>10 DEF Defer, Next1
<1>11. CASE DestroySucceeds
    BY <1>11 DEF DestroySucceeds, StartFinish, Children, Remove, Taken, Due, Passed
<1>12. CASE DestroyFails
  <2>1. destroyAt \in Steps /\ Attempt(destroyAt)
    BY <1>12 DEF DestroyFails, Steps
  <2>2. CASE live' = live /\ lost' = lost
    BY <1>12, <2>1, <2>2, Attempted DEF DestroyFails, Next1
  <2>3. CASE live' = live \ Taken(destroyAt) /\ lost' = lost \cup Taken(destroyAt)
    BY <1>12, <2>1, <2>3, Attempted DEF DestroyFails, Next1, Taken, Children
  <2> QED BY <2>1, <2>2, <2>3, Attempted
<1>13. CASE DestroyCancelled
  <2>1. destroyAt \in Steps /\ Attempt(destroyAt)
    BY <1>13 DEF DestroyCancelled, Steps
  <2>2. CASE live' = live /\ lost' = lost
    BY <1>13, <2>1, <2>2, Attempted DEF DestroyCancelled, Next1
  <2>3. CASE live' = live \ Taken(destroyAt) /\ lost' = lost \cup Taken(destroyAt)
    BY <1>13, <2>1, <2>3, Attempted DEF DestroyCancelled, Next1, Taken, Children
  <2> QED BY <2>1, <2>2, <2>3, Attempted
<1>14. ASSUME NEW c \in Steps, MarkChild(c) PROVE Inside'
    BY <1>14 DEF MarkChild
<1>15. ASSUME NEW c \in Steps, MarkChildFails(c) PROVE Inside'
    BY <1>15 DEF MarkChildFails
<1>16. CASE Finished
    BY <1>16 DEF Finished, Next1
<1>17. CASE ConcludeDestroy
    BY <1>17 DEF ConcludeDestroy, ReturnDestroy, Write
<1>18. CASE CrashDestroy
    BY <1>18 DEF CrashDestroy, ReturnDestroy
<1>19. CASE UNCHANGED destroyVars
    BY <1>19 DEF destroyVars
<1> QED BY <1>1, <1>2, <1>3, <1>4, <1>5, <1>6, <1>7, <1>8, <1>9, <1>10, <1>11, <1>12, <1>13,
            <1>14, <1>15, <1>16, <1>17, <1>18, <1>19 DEF DestroyNext, LoopStep

\* A parent is finished after its own destroy, or when its marker says destroyed.
LEMMA FinishStep ==
    DestroyTypeOK /\ MarkedGone /\ FinishInv /\ [DestroyNext]_destroyVars => FinishInv'
<1> SUFFICES ASSUME DestroyTypeOK, MarkedGone, FinishInv,
                    [DestroyNext]_destroyVars
             PROVE  FinishInv'
    OBVIOUS
<1> USE NAssumption, OrderAssumption, StepAssumption, ParentAssumption, DestroyAssumption
        DEF DestroyTypeOK, FinishInv, Steps, world, tally, destroyHistory
<1>1. ASSUME NEW s \in Steps, Deploy(s) PROVE FinishInv'
    BY <1>1 DEF Deploy
<1>2. CASE StartDestroy
    BY <1>2 DEF StartDestroy, Write
<1>3. CASE Decline
    BY <1>3 DEF Decline, ReturnDestroy, Write
<1>4. CASE Proceed
    BY <1>4 DEF Proceed
<1>5. CASE ArchiveVerified
    BY <1>5 DEF ArchiveVerified
<1>6. CASE ArchiveFails
    BY <1>6 DEF ArchiveFails, ReturnDestroy, Write
<1>7. CASE Bypass
    BY <1>7 DEF Bypass, Next1
<1>8. CASE SkipNoState
    BY <1>8 DEF SkipNoState, Next1
<1>9. CASE SkipDestroyed
    BY <1>9 DEF SkipDestroyed, StartFinish, Children, MarkedGone, Gone
<1>10. CASE Defer
    BY <1>10 DEF Defer, Next1
<1>11. CASE DestroySucceeds
    BY <1>11 DEF DestroySucceeds, StartFinish, Children, Remove, Taken, Due, Passed
<1>12. CASE DestroyFails
  <2>1. destroyAt \in Steps /\ Attempt(destroyAt)
    BY <1>12 DEF DestroyFails, Steps
  <2>2. CASE live' = live /\ lost' = lost
    BY <1>12, <2>1, <2>2, Attempted DEF DestroyFails, Next1
  <2>3. CASE live' = live \ Taken(destroyAt) /\ lost' = lost \cup Taken(destroyAt)
    BY <1>12, <2>1, <2>3, Attempted DEF DestroyFails, Next1, Taken, Children
  <2> QED BY <2>1, <2>2, <2>3, Attempted
<1>13. CASE DestroyCancelled
  <2>1. destroyAt \in Steps /\ Attempt(destroyAt)
    BY <1>13 DEF DestroyCancelled, Steps
  <2>2. CASE live' = live /\ lost' = lost
    BY <1>13, <2>1, <2>2, Attempted DEF DestroyCancelled, Next1
  <2>3. CASE live' = live \ Taken(destroyAt) /\ lost' = lost \cup Taken(destroyAt)
    BY <1>13, <2>1, <2>3, Attempted DEF DestroyCancelled, Next1, Taken, Children
  <2> QED BY <2>1, <2>2, <2>3, Attempted
<1>14. ASSUME NEW c \in Steps, MarkChild(c) PROVE FinishInv'
    BY <1>14 DEF MarkChild, Children
<1>15. ASSUME NEW c \in Steps, MarkChildFails(c) PROVE FinishInv'
    BY <1>15 DEF MarkChildFails, Children
<1>16. CASE Finished
    BY <1>16 DEF Finished, Next1
<1>17. CASE ConcludeDestroy
    BY <1>17 DEF ConcludeDestroy, ReturnDestroy, Write
<1>18. CASE CrashDestroy
    BY <1>18 DEF CrashDestroy, ReturnDestroy
<1>19. CASE UNCHANGED destroyVars
    BY <1>19 DEF destroyVars
<1> QED BY <1>1, <1>2, <1>3, <1>4, <1>5, <1>6, <1>7, <1>8, <1>9, <1>10, <1>11, <1>12, <1>13,
            <1>14, <1>15, <1>16, <1>17, <1>18, <1>19 DEF DestroyNext, LoopStep

\* "destroyed" is written over what is gone, and what is deployed is marked first.
LEMMA MarkedStep ==
    DestroyTypeOK /\ MarkedGone /\ Inside /\ FinishInv /\ [DestroyNext]_destroyVars
    => MarkedGone'
<1> SUFFICES ASSUME DestroyTypeOK, MarkedGone, Inside, FinishInv,
                    [DestroyNext]_destroyVars
             PROVE  MarkedGone'
    OBVIOUS
<1> USE NAssumption, OrderAssumption, StepAssumption, ParentAssumption, DestroyAssumption
        DEF DestroyTypeOK, MarkedGone, Gone, Steps, world, tally, destroyHistory
<1>1. ASSUME NEW s \in Steps, Deploy(s) PROVE MarkedGone'
    BY <1>1 DEF Deploy
<1>2. CASE StartDestroy
    BY <1>2 DEF StartDestroy, Write
<1>3. CASE Decline
    BY <1>3 DEF Decline, ReturnDestroy, Write
<1>4. CASE Proceed
    BY <1>4 DEF Proceed
<1>5. CASE ArchiveVerified
    BY <1>5 DEF ArchiveVerified
<1>6. CASE ArchiveFails
    BY <1>6 DEF ArchiveFails, ReturnDestroy, Write
<1>7. CASE Bypass
    BY <1>7 DEF Bypass, Next1
<1>8. CASE SkipNoState
    BY <1>8 DEF SkipNoState, Next1
<1>9. CASE SkipDestroyed
    BY <1>9 DEF SkipDestroyed, StartFinish, Children
<1>10. CASE Defer
    BY <1>10 DEF Defer, Next1
<1>11. CASE DestroySucceeds
    BY <1>11 DEF DestroySucceeds, StartFinish, Children, Remove, Taken, Due, Passed
<1>12. CASE DestroyFails
  <2>1. destroyAt \in Steps /\ Attempt(destroyAt)
    BY <1>12 DEF DestroyFails, Steps
  <2>2. CASE live' = live /\ lost' = lost
    BY <1>12, <2>1, <2>2, Attempted DEF DestroyFails, Next1, Taken
  <2>3. CASE live' = live \ Taken(destroyAt) /\ lost' = lost \cup Taken(destroyAt)
    BY <1>12, <2>1, <2>3, Attempted DEF DestroyFails, Next1, Taken, Children
  <2> QED BY <2>1, <2>2, <2>3, Attempted
<1>13. CASE DestroyCancelled
  <2>1. destroyAt \in Steps /\ Attempt(destroyAt)
    BY <1>13 DEF DestroyCancelled, Steps
  <2>2. CASE live' = live /\ lost' = lost
    BY <1>13, <2>1, <2>2, Attempted DEF DestroyCancelled, Next1, Taken
  <2>3. CASE live' = live \ Taken(destroyAt) /\ lost' = lost \cup Taken(destroyAt)
    BY <1>13, <2>1, <2>3, Attempted DEF DestroyCancelled, Next1, Taken, Children
  <2> QED BY <2>1, <2>2, <2>3, Attempted
<1>14. ASSUME NEW c \in Steps, MarkChild(c) PROVE MarkedGone'
    BY <1>14 DEF MarkChild, FinishInv, Inside, Children
<1>15. ASSUME NEW c \in Steps, MarkChildFails(c) PROVE MarkedGone'
    BY <1>15 DEF MarkChildFails, FinishInv, Inside, Children
<1>16. CASE Finished
    BY <1>16 DEF Finished, Next1
<1>17. CASE ConcludeDestroy
    BY <1>17 DEF ConcludeDestroy, ReturnDestroy, Write
<1>18. CASE CrashDestroy
    BY <1>18 DEF CrashDestroy, ReturnDestroy
<1>19. CASE UNCHANGED destroyVars
    BY <1>19 DEF destroyVars
<1> QED BY <1>1, <1>2, <1>3, <1>4, <1>5, <1>6, <1>7, <1>8, <1>9, <1>10, <1>11, <1>12, <1>13,
            <1>14, <1>15, <1>16, <1>17, <1>18, <1>19 DEF DestroyNext, LoopStep

\* The loop goes down, and a child comes after its parent in the order.
LEMMA LostStep == DestroyTypeOK /\ LostInv /\ [DestroyNext]_destroyVars => LostInv'
<1> SUFFICES ASSUME DestroyTypeOK, LostInv, [DestroyNext]_destroyVars PROVE LostInv'
    OBVIOUS
<1> USE NAssumption, OrderAssumption, StepAssumption, ParentAssumption, DestroyAssumption
        DEF DestroyTypeOK, LostInv, Looping, Steps, world, tally, destroyHistory
<1>1. ASSUME NEW s \in Steps, Deploy(s) PROVE LostInv'
    BY <1>1 DEF Deploy
<1>2. CASE StartDestroy
    BY <1>2 DEF StartDestroy, Write
<1>3. CASE Decline
    BY <1>3 DEF Decline, ReturnDestroy, Write
<1>4. CASE Proceed
    BY <1>4 DEF Proceed
<1>5. CASE ArchiveVerified
    BY <1>5 DEF ArchiveVerified
<1>6. CASE ArchiveFails
    BY <1>6 DEF ArchiveFails, ReturnDestroy, Write
<1>7. CASE Bypass
    BY <1>7 DEF Bypass, Next1
<1>8. CASE SkipNoState
    BY <1>8 DEF SkipNoState, Next1
<1>9. CASE SkipDestroyed
    BY <1>9 DEF SkipDestroyed, StartFinish, Children
<1>10. CASE Defer
    BY <1>10 DEF Defer, Next1
<1>11. CASE DestroySucceeds
    BY <1>11 DEF DestroySucceeds, StartFinish, Children, Remove, Taken, Due, Passed
<1>12. CASE DestroyFails
  <2>1. destroyAt \in Steps /\ Attempt(destroyAt)
    BY <1>12 DEF DestroyFails, Steps
  <2>2. CASE live' = live /\ lost' = lost
    BY <1>12, <2>1, <2>2, Attempted DEF DestroyFails, Next1
  <2>3. CASE live' = live \ Taken(destroyAt) /\ lost' = lost \cup Taken(destroyAt)
    BY <1>12, <2>1, <2>3, Attempted DEF DestroyFails, Next1, Taken, Children
  <2> QED BY <2>1, <2>2, <2>3, Attempted
<1>13. CASE DestroyCancelled
  <2>1. destroyAt \in Steps /\ Attempt(destroyAt)
    BY <1>13 DEF DestroyCancelled, Steps
  <2>2. CASE live' = live /\ lost' = lost
    BY <1>13, <2>1, <2>2, Attempted DEF DestroyCancelled, Next1
  <2>3. CASE live' = live \ Taken(destroyAt) /\ lost' = lost \cup Taken(destroyAt)
    BY <1>13, <2>1, <2>3, Attempted DEF DestroyCancelled, Next1, Taken, Children
  <2> QED BY <2>1, <2>2, <2>3, Attempted
<1>14. ASSUME NEW c \in Steps, MarkChild(c) PROVE LostInv'
    BY <1>14 DEF MarkChild
<1>15. ASSUME NEW c \in Steps, MarkChildFails(c) PROVE LostInv'
    BY <1>15 DEF MarkChildFails
<1>16. CASE Finished
    BY <1>16 DEF Finished, Next1
<1>17. CASE ConcludeDestroy
    BY <1>17 DEF ConcludeDestroy, ReturnDestroy, Write
<1>18. CASE CrashDestroy
    BY <1>18 DEF CrashDestroy, ReturnDestroy
<1>19. CASE UNCHANGED destroyVars
    BY <1>19 DEF destroyVars
<1> QED BY <1>1, <1>2, <1>3, <1>4, <1>5, <1>6, <1>7, <1>8, <1>9, <1>10, <1>11, <1>12, <1>13,
            <1>14, <1>15, <1>16, <1>17, <1>18, <1>19 DEF DestroyNext, LoopStep

\* A gate is passed by success, by an idle requirement, or not at all.
LEMMA GateStep ==
    ~Misreads /\ FailFast /\ DestroyTypeOK /\ MarkedGone /\ FinishInv /\ LostInv /\ GateInv
    /\ [DestroyNext]_destroyVars
    => GateInv'
<1> SUFFICES ASSUME ~Misreads, FailFast, DestroyTypeOK, MarkedGone, FinishInv, LostInv, GateInv,
                    [DestroyNext]_destroyVars
             PROVE  GateInv'
    OBVIOUS
<1> USE NAssumption, OrderAssumption, StepAssumption, ParentAssumption, DestroyAssumption
        DEF DestroyTypeOK, GateInv, Past, Looping, Steps, world, tally, destroyHistory
<1>1. ASSUME NEW s \in Steps, Deploy(s) PROVE GateInv'
    BY <1>1 DEF Deploy
<1>2. CASE StartDestroy
    BY <1>2 DEF StartDestroy, Write
<1>3. CASE Decline
    BY <1>3 DEF Decline, ReturnDestroy, Write
<1>4. CASE Proceed
    BY <1>4 DEF Proceed, LostInv
<1>5. CASE ArchiveVerified
    BY <1>5 DEF ArchiveVerified, LostInv
<1>6. CASE ArchiveFails
    BY <1>6 DEF ArchiveFails, ReturnDestroy, Write
<1>7. CASE Bypass
    BY <1>7 DEF Bypass, Next1, Bypassed
<1>8. CASE SkipNoState
    BY <1>8 DEF SkipNoState, Next1, GateRequired, LiveRequirement, MarkedGone, Gone, Passed
<1>9. CASE SkipDestroyed
    BY <1>9 DEF SkipDestroyed, StartFinish, Children, GateRequired, LiveRequirement,
        MarkedGone, Gone, Passed
<1>10. CASE Defer
    BY <1>10 DEF Defer, Next1
<1>11. CASE DestroySucceeds
    BY <1>11 DEF DestroySucceeds, StartFinish, Children, Remove, Taken, Due, Passed
<1>12. CASE DestroyFails
  <2>1. destroyAt \in Steps /\ Attempt(destroyAt)
    BY <1>12 DEF DestroyFails, Steps
  <2>2. CASE destroyAt \in Optional
    <3>0. live' = live \/ live' = live \ Taken(destroyAt)
        BY ONLY DestroyTypeOK, <2>1, Attempted
    <3>1. live' \subseteq live
        BY ONLY <3>0
    <3>2. /\ destroyAt' = destroyAt - 1 /\ destroyPc = "loop" /\ destroyPc' = "loop"
          /\ mode' = mode /\ preserved' = preserved
        BY <1>12, <2>2 DEF DestroyFails, Next1
    <3>3. ASSUME mode' # "skip", NEW g \in Gates, Past(g)', destroyAt' # 0
          PROVE  g \in preserved \/ Requires[g] \cap live = {}
        BY <2>1, <2>2, <3>2, <3>3
    <3> QED BY <3>1, <3>2, <3>3
  <2>3. CASE destroyAt \notin Optional
    <3>1. destroyAt' = 0
        BY <1>12, <2>3 DEF DestroyFails
    <3> QED BY <3>1
  <2> QED BY <2>2, <2>3
<1>13. CASE DestroyCancelled
  <2>1. destroyAt' = 0
    BY <1>13 DEF DestroyCancelled
  <2> QED BY <2>1
<1>14. ASSUME NEW c \in Steps, MarkChild(c) PROVE GateInv'
    BY <1>14 DEF MarkChild
<1>15. ASSUME NEW c \in Steps, MarkChildFails(c) PROVE GateInv'
    BY <1>15 DEF MarkChildFails
<1>16. CASE Finished
    BY <1>16 DEF Finished, Next1, FinishInv
<1>17. CASE ConcludeDestroy
    BY <1>17 DEF ConcludeDestroy, ReturnDestroy, Write
<1>18. CASE CrashDestroy
    BY <1>18 DEF CrashDestroy, ReturnDestroy
<1>19. CASE UNCHANGED destroyVars
    BY <1>19 DEF destroyVars
<1> QED BY <1>1, <1>2, <1>3, <1>4, <1>5, <1>6, <1>7, <1>8, <1>9, <1>10, <1>11, <1>12, <1>13,
            <1>14, <1>15, <1>16, <1>17, <1>18, <1>19 DEF DestroyNext, LoopStep

\* Only a step below the gate can be one the gate requires.
LEMMA GateLossStep ==
    DestroyTypeOK /\ LostInv /\ GateInv /\ GateBeforeLoss /\ [DestroyNext]_destroyVars
    => GateBeforeLoss'
<1> SUFFICES ASSUME DestroyTypeOK, LostInv, GateInv, GateBeforeLoss,
                    [DestroyNext]_destroyVars
             PROVE  GateBeforeLoss'
    OBVIOUS
<1> USE NAssumption, OrderAssumption, StepAssumption, ParentAssumption, DestroyAssumption
        DEF DestroyTypeOK, GateBeforeLoss, Looping, Steps, world, tally, destroyHistory
<1>1. ASSUME NEW s \in Steps, Deploy(s) PROVE GateBeforeLoss'
    BY <1>1 DEF Deploy
<1>2. CASE StartDestroy
    BY <1>2 DEF StartDestroy, Write
<1>3. CASE Decline
    BY <1>3 DEF Decline, ReturnDestroy, Write
<1>4. CASE Proceed
    BY <1>4 DEF Proceed, GateInv, LostInv, Past
<1>5. CASE ArchiveVerified
    BY <1>5 DEF ArchiveVerified
<1>6. CASE ArchiveFails
    BY <1>6 DEF ArchiveFails, ReturnDestroy, Write
<1>7. CASE Bypass
    BY <1>7 DEF Bypass, Next1
<1>8. CASE SkipNoState
    BY <1>8 DEF SkipNoState, Next1
<1>9. CASE SkipDestroyed
    BY <1>9 DEF SkipDestroyed, StartFinish, Children
<1>10. CASE Defer
    BY <1>10 DEF Defer, Next1
<1>11. CASE DestroySucceeds
    BY <1>11 DEF DestroySucceeds, StartFinish, Children, Remove, Taken, Due, Passed, GateInv,
        LostInv, Past
<1>12. CASE DestroyFails
  <2>1. /\ destroyAt \in Steps /\ Attempt(destroyAt) /\ destroyPc = "loop"
        /\ mode' = mode /\ preserved' = preserved
    BY <1>12 DEF DestroyFails, Steps
  <2>2. lost' = lost \/ (live' = live \ Taken(destroyAt) /\ lost' = lost \cup Taken(destroyAt))
    BY <2>1, Attempted
  <2>3. CASE lost' = lost
    BY <2>1, <2>3
  <2>4. CASE lost' = lost \cup Taken(destroyAt)
    <3>1. \A r \in Taken(destroyAt) : r \in live /\ r >= destroyAt
        BY <2>1 DEF Taken, Children
    <3>2. ASSUME mode # "skip", NEW g \in Gates, NEW r \in Taken(destroyAt), r \in Requires[g]
          PROVE  g \in preserved
        BY <2>1, <3>1, <3>2 DEF GateInv, Past
    <3> QED BY <2>1, <2>4, <3>2
  <2> QED BY <2>2, <2>3, <2>4
<1>13. CASE DestroyCancelled
  <2>1. /\ destroyAt \in Steps /\ Attempt(destroyAt) /\ destroyPc = "loop"
        /\ mode' = mode /\ preserved' = preserved
    BY <1>13 DEF DestroyCancelled, Steps
  <2>2. lost' = lost \/ (live' = live \ Taken(destroyAt) /\ lost' = lost \cup Taken(destroyAt))
    BY <2>1, Attempted
  <2>3. CASE lost' = lost
    BY <2>1, <2>3
  <2>4. CASE lost' = lost \cup Taken(destroyAt)
    <3>1. \A r \in Taken(destroyAt) : r \in live /\ r >= destroyAt
        BY <2>1 DEF Taken, Children
    <3>2. ASSUME mode # "skip", NEW g \in Gates, NEW r \in Taken(destroyAt), r \in Requires[g]
          PROVE  g \in preserved
        BY <2>1, <3>1, <3>2 DEF GateInv, Past
    <3> QED BY <2>1, <2>4, <3>2
  <2> QED BY <2>2, <2>3, <2>4
<1>14. ASSUME NEW c \in Steps, MarkChild(c) PROVE GateBeforeLoss'
    BY <1>14 DEF MarkChild
<1>15. ASSUME NEW c \in Steps, MarkChildFails(c) PROVE GateBeforeLoss'
    BY <1>15 DEF MarkChildFails
<1>16. CASE Finished
    BY <1>16 DEF Finished, Next1
<1>17. CASE ConcludeDestroy
    BY <1>17 DEF ConcludeDestroy, ReturnDestroy, Write
<1>18. CASE CrashDestroy
    BY <1>18 DEF CrashDestroy, ReturnDestroy
<1>19. CASE UNCHANGED destroyVars
    BY <1>19 DEF destroyVars
<1> QED BY <1>1, <1>2, <1>3, <1>4, <1>5, <1>6, <1>7, <1>8, <1>9, <1>10, <1>11, <1>12, <1>13,
            <1>14, <1>15, <1>16, <1>17, <1>18, <1>19 DEF DestroyNext, LoopStep

\* A step is passed because it is gone, kept, put off to its parent, or failed.
LEMMA AccountStep ==
    ~Misreads /\ DestroyTypeOK /\ FinishInv /\ LostInv /\ AccountInv
    /\ [DestroyNext]_destroyVars
    => AccountInv'
<1> SUFFICES ASSUME ~Misreads, DestroyTypeOK, FinishInv, LostInv, AccountInv,
                    [DestroyNext]_destroyVars
             PROVE  AccountInv'
    OBVIOUS
<1> USE NAssumption, OrderAssumption, StepAssumption, ParentAssumption, DestroyAssumption
        DEF DestroyTypeOK, AccountInv, Kept, Past, Looping, Steps, Gone, Markers, world,
        tally, destroyHistory
<1>1. ASSUME NEW s \in Steps, Deploy(s) PROVE AccountInv'
    BY <1>1 DEF Deploy
<1>2. CASE StartDestroy
    BY <1>2 DEF StartDestroy, Write
<1>3. CASE Decline
    BY <1>3 DEF Decline, ReturnDestroy, Write
<1>4. CASE Proceed
    BY <1>4 DEF Proceed, LostInv
<1>5. CASE ArchiveVerified
    BY <1>5 DEF ArchiveVerified, LostInv
<1>6. CASE ArchiveFails
    BY <1>6 DEF ArchiveFails, ReturnDestroy, Write
<1>7. CASE Bypass
    BY <1>7 DEF Bypass, Next1, Bypassed
<1>8. CASE SkipNoState
    BY <1>8 DEF SkipNoState, Next1, Reads
<1>9. CASE SkipDestroyed
  <2>1. /\ destroyPc = "loop" /\ destroyPc' = "finish" /\ destroyAt' = destroyAt
        /\ failures' = failures /\ excused' = excused /\ cancelled' = cancelled
        /\ mode' = mode
    BY <1>9 DEF SkipDestroyed, StartFinish
  <2>2. \A s \in Steps : s \in deferred \cup pending => s \in deferred' \cup pending'
    BY ONLY <1>9, FinishInv DEF SkipDestroyed, StartFinish, FinishInv
  <2>3. \A s \in Steps : marker'[s] = marker[s] \/ marker'[s] = "destroyed"
    BY <1>9 DEF SkipDestroyed
  <2>4. marker'[destroyAt] = "destroyed"
    BY <1>9 DEF SkipDestroyed
  <2>5. ASSUME NEW s \in Steps, Past(s)', marker'[s] \notin Gone, ~cancelled, failures = {}
        PROVE  s \in (Kept \cup deferred \cup pending)'
    <3>1. s # destroyAt /\ marker[s] \notin Gone
      BY <2>3, <2>4, <2>5
    <3>2. Past(s)
      BY <2>1, <2>5, <3>1
    <3> QED BY <2>1, <2>2, <2>5, <3>1, <3>2
  <2> QED BY <2>1, <2>5
<1>10. CASE Defer
    BY <1>10 DEF Defer, Next1
<1>11. CASE DestroySucceeds
  <2>1. /\ destroyPc = "loop" /\ destroyPc' = "finish" /\ destroyAt' = destroyAt
        /\ failures' = failures /\ excused' = excused /\ cancelled' = cancelled
        /\ mode' = mode
    BY <1>11 DEF DestroySucceeds, StartFinish
  <2>2. \A s \in Steps : s \in deferred \cup pending => s \in deferred' \cup pending'
    BY ONLY <1>11, FinishInv DEF DestroySucceeds, StartFinish, FinishInv
  <2>3. \A s \in Steps : marker'[s] = marker[s] \/ marker'[s] = "destroyed"
    BY <1>11 DEF DestroySucceeds
  <2>4. marker'[destroyAt] = "destroyed"
    BY <1>11 DEF DestroySucceeds
  <2>5. ASSUME NEW s \in Steps, Past(s)', marker'[s] \notin Gone, ~cancelled, failures = {}
        PROVE  s \in (Kept \cup deferred \cup pending)'
    <3>1. s # destroyAt /\ marker[s] \notin Gone
      BY <2>3, <2>4, <2>5
    <3>2. Past(s)
      BY <2>1, <2>5, <3>1
    <3> QED BY <2>1, <2>2, <2>5, <3>1, <3>2
  <2> QED BY <2>1, <2>5
<1>12. CASE DestroyFails
  <2>1. destroyAt \in Steps /\ Attempt(destroyAt)
    BY <1>12 DEF DestroyFails, Steps
  <2>2. CASE destroyAt \in Optional
    <3>1. \A s \in Steps : marker'[s] = marker[s] \/ marker'[s] = "destroyed"
        BY ONLY DestroyTypeOK, <2>1, Attempted
    <3>2. /\ excused' = excused \cup {destroyAt} /\ destroyAt' = destroyAt - 1
          /\ destroyPc = "loop" /\ destroyPc' = "loop"
          /\ mode' = mode /\ deferred' = deferred /\ pending' = pending
          /\ failures' = failures /\ cancelled' = cancelled
        BY <1>12, <2>2 DEF DestroyFails, Next1
    <3>3. destroyAt \in excused'
        BY <2>1, <3>2
    <3>4. ASSUME NEW s \in Steps, Past(s)', s # destroyAt
          PROVE  Past(s) /\ (s \in Kept => s \in Kept')
        BY <2>1, <3>2, <3>4
    <3>5. ASSUME NEW s \in Steps, Past(s)', marker'[s] \notin Gone, ~cancelled, failures = {}
          PROVE  s \in (Kept \cup deferred \cup pending)'
        <4>1. CASE s = destroyAt
            BY <3>3, <4>1
        <4>2. CASE s # destroyAt
            BY <3>1, <3>2, <3>4, <3>5, <4>2
        <4> QED BY <4>1, <4>2
    <3> QED BY <3>2, <3>5
  <2>3. CASE destroyAt \notin Optional
    <3>1. destroyAt \in failures'
        BY <1>12, <2>3 DEF DestroyFails
    <3> QED BY <3>1
  <2> QED BY <2>2, <2>3
<1>13. CASE DestroyCancelled
  <2>1. cancelled'
    BY <1>13 DEF DestroyCancelled
  <2> QED BY <2>1
<1>14. ASSUME NEW c \in Steps, MarkChild(c) PROVE AccountInv'
    BY <1>14 DEF MarkChild
<1>15. ASSUME NEW c \in Steps, MarkChildFails(c) PROVE AccountInv'
    BY <1>15 DEF MarkChildFails
<1>16. CASE Finished
    BY <1>16 DEF Finished, Next1
<1>17. CASE ConcludeDestroy
    BY <1>17 DEF ConcludeDestroy, ReturnDestroy, Write
<1>18. CASE CrashDestroy
    BY <1>18 DEF CrashDestroy, ReturnDestroy
<1>19. CASE UNCHANGED destroyVars
    BY <1>19 DEF destroyVars
<1> QED BY <1>1, <1>2, <1>3, <1>4, <1>5, <1>6, <1>7, <1>8, <1>9, <1>10, <1>11, <1>12, <1>13,
            <1>14, <1>15, <1>16, <1>17, <1>18, <1>19 DEF DestroyNext, LoopStep

\* Only an optional step is excused.
ExcusedInv == excused \subseteq Optional

\* Only an optional step is excused.
LEMMA ExcusedStep == ExcusedInv /\ [DestroyNext]_destroyVars => ExcusedInv'
<1> SUFFICES ASSUME ExcusedInv, [DestroyNext]_destroyVars PROVE ExcusedInv'
    OBVIOUS
<1>1. CASE excused' = excused
    BY <1>1 DEF ExcusedInv
<1>2. CASE excused' = {}
    BY <1>2 DEF ExcusedInv
<1>3. CASE DestroyFails
    BY <1>3 DEF DestroyFails, ExcusedInv
<1> QED BY <1>1, <1>2, <1>3 DEF DestroyNext, LoopStep, Deploy, StartDestroy, Decline, Proceed,
            ArchiveVerified, ArchiveFails, Bypass, SkipNoState, SkipDestroyed, Defer,
            DestroySucceeds, DestroyCancelled, MarkChild, MarkChildFails, Finished,
            ConcludeDestroy, CrashDestroy, ReturnDestroy, tally, destroyVars

\* What a destroy that ends with "ok" has left standing.
LEMMA OkAccounted ==
    ASSUME DestroyTypeOK, FinishInv, AccountInv, ConcludeDestroy, DestroyOutcome = "ok"
    PROVE  \A s \in Steps : marker[s] \notin Gone => s \in Kept
<1>1. ~cancelled /\ failures = {} /\ deferred = {}
    BY DEF DestroyOutcome
<1>2. pending = {}
    BY DEF ConcludeDestroy, FinishInv
<1>3. \A s \in Steps : Past(s)
    BY NAssumption DEF ConcludeDestroy, Past, Looping, Steps
<1> QED BY <1>1, <1>2, <1>3 DEF AccountInv

\* The loop of a command that chose the archive begins once it is verified.
ArchivedInv == mode = "archive" /\ destroyPc \in Looping => archived

\* Nothing but _run_archive_before_destroy leads from the archive to the loop.
LEMMA ArchivedStep == DestroyTypeOK /\ ArchivedInv /\ [DestroyNext]_destroyVars => ArchivedInv'
<1> SUFFICES ASSUME DestroyTypeOK, ArchivedInv, [DestroyNext]_destroyVars PROVE ArchivedInv'
    OBVIOUS
<1> USE NAssumption, OrderAssumption, StepAssumption, ParentAssumption, DestroyAssumption
        DEF DestroyTypeOK, ArchivedInv, Looping, Steps, world, tally, destroyHistory
<1>1. ASSUME NEW s \in Steps, Deploy(s) PROVE ArchivedInv'
    BY <1>1 DEF Deploy
<1>2. CASE StartDestroy
    BY <1>2 DEF StartDestroy, Write
<1>3. CASE Decline
    BY <1>3 DEF Decline, ReturnDestroy, Write
<1>4. CASE Proceed
    BY <1>4 DEF Proceed
<1>5. CASE ArchiveVerified
    BY <1>5 DEF ArchiveVerified
<1>6. CASE ArchiveFails
    BY <1>6 DEF ArchiveFails, ReturnDestroy, Write
<1>7. CASE Bypass
    BY <1>7 DEF Bypass, Next1
<1>8. CASE SkipNoState
    BY <1>8 DEF SkipNoState, Next1
<1>9. CASE SkipDestroyed
    BY <1>9 DEF SkipDestroyed, StartFinish, Children
<1>10. CASE Defer
    BY <1>10 DEF Defer, Next1
<1>11. CASE DestroySucceeds
    BY <1>11 DEF DestroySucceeds, StartFinish, Children, Remove, Taken, Due, Passed
<1>12. CASE DestroyFails
  <2>1. destroyAt \in Steps /\ Attempt(destroyAt)
    BY <1>12 DEF DestroyFails, Steps
  <2>2. CASE live' = live /\ lost' = lost
    BY <1>12, <2>1, <2>2, Attempted DEF DestroyFails, Next1
  <2>3. CASE live' = live \ Taken(destroyAt) /\ lost' = lost \cup Taken(destroyAt)
    BY <1>12, <2>1, <2>3, Attempted DEF DestroyFails, Next1, Taken, Children
  <2> QED BY <2>1, <2>2, <2>3, Attempted
<1>13. CASE DestroyCancelled
  <2>1. destroyAt \in Steps /\ Attempt(destroyAt)
    BY <1>13 DEF DestroyCancelled, Steps
  <2>2. CASE live' = live /\ lost' = lost
    BY <1>13, <2>1, <2>2, Attempted DEF DestroyCancelled, Next1
  <2>3. CASE live' = live \ Taken(destroyAt) /\ lost' = lost \cup Taken(destroyAt)
    BY <1>13, <2>1, <2>3, Attempted DEF DestroyCancelled, Next1, Taken, Children
  <2> QED BY <2>1, <2>2, <2>3, Attempted
<1>14. ASSUME NEW c \in Steps, MarkChild(c) PROVE ArchivedInv'
    BY <1>14 DEF MarkChild
<1>15. ASSUME NEW c \in Steps, MarkChildFails(c) PROVE ArchivedInv'
    BY <1>15 DEF MarkChildFails
<1>16. CASE Finished
    BY <1>16 DEF Finished, Next1
<1>17. CASE ConcludeDestroy
    BY <1>17 DEF ConcludeDestroy, ReturnDestroy, Write
<1>18. CASE CrashDestroy
    BY <1>18 DEF CrashDestroy, ReturnDestroy
<1>19. CASE UNCHANGED destroyVars
    BY <1>19 DEF destroyVars
<1> QED BY <1>1, <1>2, <1>3, <1>4, <1>5, <1>6, <1>7, <1>8, <1>9, <1>10, <1>11, <1>12, <1>13,
            <1>14, <1>15, <1>16, <1>17, <1>18, <1>19 DEF DestroyNext, LoopStep

\* The invariant that needs no assumption on the blueprint or the reads.
SafeInv == DestroyTypeOK /\ Inside /\ MarkedGone /\ FinishInv /\ LostInv /\ ArchivedInv

\* It holds of every destroy.
LEMMA SafeInductive == DestroySpec => []SafeInv
<1>1. DestroyInit => SafeInv
    BY DestroyInitInv DEF SafeInv, ArchivedInv, Looping, DestroyInit
<1>2. SafeInv /\ [DestroyNext]_destroyVars => SafeInv'
    BY DestroyTypeStep, InsideStep, FinishStep, MarkedStep, LostStep, ArchivedStep DEF SafeInv
<1> QED BY <1>1, <1>2, PTL DEF DestroySpec

\* Type correctness of the command, for any blueprint the validation lets through.
THEOREM DestroyTypeCorrect == DestroySpec => []DestroyTypeOK
<1>1. SafeInv => DestroyTypeOK
    BY DEF SafeInv
<1> QED BY SafeInductive, <1>1, PTL

\* No "destroyed" marker is over resources that exist, the ones written for the
\* children of a parent included, wherever a step fails or the command dies.
THEOREM DestroyedIsGone == DestroySpec => []MarkedGone
<1>1. SafeInv => MarkedGone
    BY DEF SafeInv
<1> QED BY SafeInductive, <1>1, PTL

\* A command that chose the archive removes nothing before it is verified.
THEOREM ArchiveFirst == DestroySpec => []ArchiveBeforeLoss
<1>1. SafeInv => ArchiveBeforeLoss
    BY DEF SafeInv, ArchivedInv, LostInv, ArchiveBeforeLoss
<1> QED BY SafeInductive, <1>1, PTL

\* With fail_fast and readable state files, nothing a gate requires goes before
\* the gate has succeeded.
THEOREM GateFirst == ASSUME FailFast, ~Misreads PROVE DestroySpec => []GateBeforeLoss
<1>1. DestroyInit => GateInv /\ GateBeforeLoss
    BY DestroyInitInv
<1>2. SafeInv /\ GateInv /\ GateBeforeLoss /\ [DestroyNext]_destroyVars
      => (GateInv /\ GateBeforeLoss)'
    BY GateStep, GateLossStep DEF SafeInv
<1> QED BY SafeInductive, <1>1, <1>2, PTL DEF DestroySpec

\* With fail_fast and readable state files, nothing goes before what protects
\* its data has succeeded.
THEOREM PreservedFirst == ASSUME FailFast, ~Misreads PROVE DestroySpec => []PreservedBeforeLoss
<1>1. GateBeforeLoss /\ ArchiveBeforeLoss => PreservedBeforeLoss
    BY DEF PreservedBeforeLoss
<1> QED BY GateFirst, ArchiveFirst, <1>1, PTL

\* The record never says of the resources what is not so, unreadable state
\* files and dead commands included.
THEOREM RecordHolds == DestroySpec => RecordIsTrue
<1> DEFINE Truth == record' # record =>
                        /\ record'.resources = "retained" => lost = {}
                        /\ record'.resources = "released" => live = {}
<1>1. SafeInv /\ [DestroyNext]_destroyVars => [Truth]_destroyVars
  <2> SUFFICES ASSUME SafeInv, [DestroyNext]_destroyVars, record' # record PROVE Truth
      OBVIOUS
  <2>1. CASE StartDestroy
    BY <2>1 DEF StartDestroy, Write
  <2>2. CASE Decline \/ ArchiveFails
    BY <2>2 DEF Decline, ArchiveFails, Write, SafeInv, LostInv, Looping
  <2>3. CASE ConcludeDestroy
    <3>1. record'.resources \in {"released", "unverified"}
      BY <2>3 DEF ConcludeDestroy, Write
    <3>2. record'.resources = "released" => CostCleared
      BY <2>3 DEF ConcludeDestroy, Write
    <3>3. CostCleared => live = {}
      BY DEF CostCleared, SafeInv, MarkedGone, DestroyTypeOK, Gone
    <3> QED BY <3>1, <3>2, <3>3
  <2>4. ASSUME NEW s \in Steps, Deploy(s) \/ MarkChild(s) \/ MarkChildFails(s)
        PROVE  FALSE
    BY <2>4 DEF Deploy, MarkChild, MarkChildFails
  <2>5. ~(Bypass \/ SkipNoState \/ SkipDestroyed \/ Defer \/ DestroySucceeds \/ Finished)
    BY DEF Bypass, SkipNoState, SkipDestroyed, Defer, DestroySucceeds, Finished
  <2>6. ~(DestroyFails \/ DestroyCancelled \/ Proceed \/ ArchiveVerified \/ CrashDestroy)
    BY DEF DestroyFails, DestroyCancelled, Proceed, ArchiveVerified, CrashDestroy
  <2> QED BY <2>1, <2>2, <2>3, <2>4, <2>5, <2>6 DEF DestroyNext, LoopStep, destroyVars
<1> QED BY SafeInductive, <1>1, PTL DEF DestroySpec, RecordIsTrue

\* With readable state files, a destroy that ends with "ok" has accounted for
\* everything it left standing.
THEOREM OkIsAccounted == ASSUME ~Misreads PROVE DestroySpec => OkLeavesOnlyExcused
<1> DEFINE Accounted ==
        (record' # record /\ record'.status = "ok") =>
            live \subseteq Retained \cup excused
                           \cup (IF mode = "skip" THEN Gates ELSE {})
<1>1. DestroyInit => AccountInv
    BY DestroyInitInv
<1>2. SafeInv /\ AccountInv /\ [DestroyNext]_destroyVars => AccountInv'
    BY AccountStep DEF SafeInv
<1>3. SafeInv /\ AccountInv /\ [DestroyNext]_destroyVars => [Accounted]_destroyVars
  <2> SUFFICES ASSUME SafeInv, AccountInv, [DestroyNext]_destroyVars, record' # record,
                      record'.status = "ok"
               PROVE  live \subseteq Kept
      BY DEF Accounted, Kept
  <2>1. ConcludeDestroy
    <3>1. ~StartDestroy /\ ~Decline /\ ~ArchiveFails
        BY DEF StartDestroy, Decline, ArchiveFails, Write
    <3>2. ASSUME NEW s \in Steps, Deploy(s) \/ MarkChild(s) \/ MarkChildFails(s)
          PROVE  FALSE
        BY <3>2 DEF Deploy, MarkChild, MarkChildFails
    <3>3. ~(Bypass \/ SkipNoState \/ SkipDestroyed \/ Defer \/ DestroySucceeds \/ Finished)
        BY DEF Bypass, SkipNoState, SkipDestroyed, Defer, DestroySucceeds, Finished
    <3>4. ~(DestroyFails \/ DestroyCancelled \/ Proceed \/ ArchiveVerified \/ CrashDestroy)
        BY DEF DestroyFails, DestroyCancelled, Proceed, ArchiveVerified, CrashDestroy
    <3> QED BY <3>1, <3>2, <3>3, <3>4 DEF DestroyNext, LoopStep, destroyVars
  <2>2. DestroyOutcome = "ok"
      BY <2>1 DEF ConcludeDestroy, Write
  <2>3. \A s \in Steps : marker[s] \notin Gone => s \in Kept
      BY <2>1, <2>2, OkAccounted DEF SafeInv
  <2> QED BY <2>3 DEF SafeInv, MarkedGone, DestroyTypeOK
<1> QED BY SafeInductive, <1>1, <1>2, <1>3, PTL DEF DestroySpec, OkLeavesOnlyExcused

-----------------------------------------------------------------------------
(* THE DEPLOY                                                                 *)

\* In the contracts or the run of one step.
Stepping == {"admit", "check", "contract", "run", "complete"}

\* What the loop has before it has no result yet.
PlaceInv ==
    /\ deployPc \in Stepping =>
          deployAt \in Steps /\ \A s \in Steps : s >= deployAt => result[s] = "none"
    /\ deployPc \in {"idle", "plan"} => \A s \in Steps : result[s] = "none"
    /\ seen # {} => deployPc \in Stepping

\* The versions of an authority only grow, so an open session that has seen the
\* present version has seen no change.
IntervalInv ==
    \A before \in seen :
        /\ before.version <= authority.version
        /\ deployAt \in broken => before.version < authority.version

\* The state of a step is good and has the inputs that the blueprint gives.
Current(s) == s \in okay /\ (s \in BaselineKept => InEffect(s))

\* A result that claims the state of its step stands over that state.
DoneInv ==
    /\ \A s \in Steps : result[s] \in {"ok", "skipped"} => Current(s)
    /\ deployPc = "complete" /\ rc = "ok" => Current(deployAt)

\* The loop leaves no step behind without a result, and ends early only for a
\* required failure or a cancellation.
LoopInv ==
    /\ deployPc \in Stepping => \A s \in Steps : s < deployAt => result[s] # "none"
    /\ deployPc = "restore" => \A s \in Steps : result[s] # "none"
    /\ deployPc = "conclude" =>
          \/ \A s \in Steps : result[s] # "none"
          \/ RequiredFailures # {}
          \/ Cancelled
    /\ \A s \in Steps : result[s] = "failed-optional" => s \in Optional

\* With fail_fast the loop passes only steps it may go on after.
PassInv ==
    /\ deployPc \in Stepping \cup {"restore"} =>
          \A s \in Steps : result[s] \notin {"failed", "cancelled"}
    /\ deployPc \in Stepping => \A s \in Steps : s < deployAt => result[s] # "none"
    /\ deployPc = "run" \/ (deployPc = "check" /\ deployAt \in Observed) =>
          NeedsState[deployAt] \ {deployAt} \subseteq okay
    /\ unrestored => deployPc = "conclude" /\ \A s \in Steps : result[s] # "failed"

\* The states a step needs, seen from where the loop is: those of steps the loop
\* has passed, those it reaches before the step, and the others.
Awaited(s) ==
    \A r \in NeedsState[s] :
        /\ r < deployAt =>
              \/ r \in okay
              \/ result[r] = "failed"
              \/ result[r] = "failed-optional" /\ r \in found
        /\ r >= deployAt /\ r < s => r \notin Optional \/ r \in found
        /\ r >= deployAt /\ r >= s => r \in okay

\* What the preflight has found of a step that is still to come: the states it
\* needs are good, or are to be made good by steps before it.
ForecastInv ==
    /\ deployPc = "idle" => \A s \in Steps : plan[s] = "none"
    /\ deployPc = "plan" =>
          /\ found = okay \cap Optional
          /\ \A s \in Steps : s >= deployAt => plan[s] = "none"
          /\ \A s \in Steps : plan[s] = "ready" =>
                \A r \in NeedsState[s] : r \in okay \/ (r < s /\ r \notin Optional)
    /\ \A s \in Steps : result[s] \in {"ok", "skipped"} => s \in okay
    /\ deployPc = "complete" /\ rc = "ok" => deployAt \in okay
    /\ deployPc \in Stepping =>
          \A s \in Steps : plan[s] = "ready" =>
             /\ s > deployAt => Awaited(s)
             /\ s = deployAt /\ deployPc \in {"admit", "check", "contract"} => Awaited(s)

\* The inputs a module resolves are inputs.
LEMMA ResolvedType ==
    ASSUME NEW i \in Inputs PROVE Resolved(i) \in [Keys -> Values \cup {Unset}]
BY InputsAssumption DEF Resolved

\* At first no deploy has a place, a result or a forecast.
LEMMA DeployInitInv ==
    DeployInit => DeployTypeOK /\ PlaceInv /\ IntervalInv /\ DoneInv /\ LoopInv /\ PassInv
                   /\ ForecastInv /\ AuthorityUnbroken /\ RequirementsSettled
<1> SUFFICES ASSUME DeployInit
             PROVE  DeployTypeOK /\ PlaceInv /\ IntervalInv /\ DoneInv /\ LoopInv /\ PassInv
                           /\ ForecastInv /\ AuthorityUnbroken /\ RequirementsSettled
    OBVIOUS
<1> USE DEF DeployInit
<1>1. DeployTypeOK
  <2>1. wanted \in [Steps -> Inputs] /\ built \in [Steps -> [Keys -> Values \cup {Unset}]]
    <3>1. PICK i \in Inputs : /\ wanted = [s \in Steps |-> i]
                              /\ built = [s \in Steps |-> Resolved(i)]
      OBVIOUS
    <3> QED BY <3>1, ResolvedType
  <2>2. authority \in Objects
    BY DEF Objects
  <2>3. result \in [Steps -> Results] /\ deployAt \in 1..(N + 1)
    BY NAssumption DEF Results
  <2>4. last \in [status : {"none", "ok", "failed", "cancelled", "crashed"},
                  recorded : BOOLEAN]
    OBVIOUS
  <2> QED BY <2>1, <2>2, <2>3, <2>4 DEF DeployTypeOK
<1>2. PlaceInv /\ IntervalInv /\ DoneInv /\ LoopInv /\ PassInv /\ ForecastInv
    BY DEF PlaceInv, IntervalInv, DoneInv, LoopInv, PassInv, ForecastInv, Stepping
<1> QED BY <1>1, <1>2 DEF AuthorityUnbroken, RequirementsSettled

\* A strict policy lets nothing pass but an object whose version is unchanged.
LEMMA StrictMeansSame ==
    ASSUME NEW provider, NEW policy, NEW before, NEW after,
           policy.unverifiable = "fail",
           NEW decision \in Decisions(provider, policy, before, after),
           before.version \in Nat, after.version \in Nat,
           decision # "deny"
    PROVE  before.version = after.version
<1>1. decision = Decision(Interval(provider, policy, before, after), policy)
    BY DEF Decisions
<1>2. Interval(provider, policy, before, after) =
      KubernetesInterval(policy, before, after)
    BY <1>1 DEF Decision, Interval, NautobotInterval, Drifted, Unverifiable, Verdict
<1> QED BY <1>1, <1>2 DEF Decision, KubernetesInterval, Drifted, Unverifiable, Verdict

\* What the closing observation of a strict step may decide.
LEMMA StrictReceipt ==
    ASSUME DeployTypeOK, IntervalInv, deployAt \in Observed,
        Policy[deployAt].unverifiable = "fail",
           NEW decision \in Receipts(deployAt), decision # "deny"
    PROVE  deployAt \notin broken
<1>1. PICK before \in seen :
         decision \in Decisions(Provider[deployAt], Policy[deployAt], before, authority)
    BY DEF Receipts
<1>2. before.version \in Nat /\ authority.version \in Nat
    BY DEF DeployTypeOK, Objects
<1>3. before.version = authority.version
    BY <1>1, <1>2, StrictMeansSame
<1> QED BY <1>1, <1>2, <1>3 DEF IntervalInv

\* What a command leaves when it returns.
LEMMA Returned ==
    ASSUME NEW status \in {"none", "ok", "failed", "cancelled", "crashed"},
           NEW recorded \in BOOLEAN, ReturnDeploy(status, recorded)
    PROVE  /\ deployPc' = "idle" /\ deployAt' \in 1..(N + 1) /\ seen' = {} /\ rc' = "none"
           /\ repaired' = FALSE /\ receipts' = FALSE /\ unrestored' = FALSE
           /\ result' \in [Steps -> Results] /\ \A s \in Steps : result'[s] = "none"
           /\ last' \in [status : {"none", "ok", "failed", "cancelled", "crashed"},
                         recorded : BOOLEAN]
           /\ plan' \in [Steps -> {"none", "ready", "skipped", "held"}]
           /\ \A s \in Steps : plan'[s] = "none"
           /\ found' = {} /\ broken' = {}
<1>1. last' \in [status : {"none", "ok", "failed", "cancelled", "crashed"},
                 recorded : BOOLEAN]
    BY DEF ReturnDeploy
<1>2. result' \in [Steps -> Results] /\ \A s \in Steps : result'[s] = "none"
    BY DEF ReturnDeploy, Results
<1>3. deployAt' \in 1..(N + 1)
    BY NAssumption DEF ReturnDeploy
<1>4. /\ plan' \in [Steps -> {"none", "ready", "skipped", "held"}]
      /\ \A s \in Steps : plan'[s] = "none"
    BY DEF ReturnDeploy
<1> QED BY <1>1, <1>2, <1>3, <1>4 DEF ReturnDeploy

\* Where the loop is after a step.
LEMMA Settled ==
    ASSUME DeployTypeOK, PlaceInv, deployPc \in Stepping, NEW status \in Results \ {"none"},
           Settle(status)
    PROVE  /\ deployAt \in Steps /\ result' \in [Steps -> Results] /\ result'[deployAt] = status
           /\ \A s \in Steps \ {deployAt} : result'[s] = result[s]
           /\ \/ /\ deployPc' = "conclude" /\ deployAt' = deployAt
                 /\ status = "cancelled" \/ (status = "failed" /\ FailFast)
              \/ /\ deployPc' \in {"admit", "check"}
                 /\ deployAt' = deployAt + 1 /\ deployAt' \in Steps
                 /\ deployPc' = "check" => deployAt' \notin Observed
                 /\ status # "cancelled" /\ ~(status = "failed" /\ FailFast)
              \/ /\ deployPc' = "restore" /\ deployAt = N
                 /\ status # "cancelled" /\ ~(status = "failed" /\ FailFast)
<1> USE NAssumption DEF DeployTypeOK, PlaceInv, Stepping, Steps
<1>1. deployAt \in Steps
    OBVIOUS
<1>2. /\ result' \in [Steps -> Results] /\ result'[deployAt] = status
      /\ \A s \in Steps \ {deployAt} : result'[s] = result[s]
    BY <1>1 DEF Settle
<1>3. CASE status = "cancelled" \/ (status = "failed" /\ FailFast)
    BY <1>1, <1>2, <1>3 DEF Settle
<1>4. CASE ~(status = "cancelled" \/ (status = "failed" /\ FailFast))
    BY <1>1, <1>2, <1>4 DEF Settle, Enter
<1> QED BY <1>3, <1>4

\* A published state has the inputs it was made from.
LEMMA PublishedType ==
    ASSUME DeployTypeOK, deployAt \in Steps, Publish
    PROVE  okay' \in SUBSET Steps /\ built' \in [Steps -> [Keys -> Values \cup {Unset}]]
<1>1. Resolved(wanted[deployAt]) \in [Keys -> Values \cup {Unset}]
    BY ResolvedType DEF DeployTypeOK
<1> QED BY <1>1 DEF Publish, DeployTypeOK

\* A run that failed leaves a state of the right type.
LEMMA Fallen ==
    ASSUME DeployTypeOK, deployAt \in Steps, Fall
    PROVE  okay' \in SUBSET Steps /\ built' \in [Steps -> [Keys -> Values \cup {Unset}]]
<1>1. CASE UNCHANGED states
    BY <1>1 DEF states, DeployTypeOK
<1>2. CASE okay' = okay \ {deployAt} /\ UNCHANGED built
    BY <1>2 DEF DeployTypeOK
<1>3. CASE Publish
    BY <1>3, PublishedType
<1> QED BY <1>1, <1>2, <1>3 DEF Fall

\* Every step leads to well-typed values.
LEMMA DeployTypeStep == DeployTypeOK /\ PlaceInv /\ [DeployNext]_deployVars => DeployTypeOK'
<1> SUFFICES ASSUME DeployTypeOK, PlaceInv, [DeployNext]_deployVars PROVE DeployTypeOK'
    OBVIOUS
<1> USE NAssumption, OrderAssumption, StepAssumption, DeployAssumption, AuthorityAssumption,
        BoundsAssumption DEF DeployTypeOK, PlaceInv, Stepping, Steps, Results, states,
        forecast, memory, deployHistory
<1>1. ASSUME NEW s \in Steps, Edit(s) PROVE DeployTypeOK'
    BY <1>1 DEF Edit
<1>2. CASE ChangeAuthority
    BY <1>2 DEF ChangeAuthority, Objects
<1>3. CASE StartDeploy
    BY <1>3 DEF StartDeploy, Enter
<1>4. CASE Admit
    BY <1>4 DEF Admit
<1>5. CASE Contract
    BY <1>5 DEF Contract
<1>6. CASE AdmissionFails
    BY <1>6 DEF AdmissionFails, Enter, Settle, FailStatus
<1>7. CASE Skip
    BY <1>7 DEF Skip, Enter, Settle, FailStatus
<1>8. CASE VerificationFails
    BY <1>8 DEF VerificationFails, Enter, Settle, FailStatus
<1>9. CASE NoSkip
    BY <1>9 DEF NoSkip
<1>10. CASE RunSucceeds
    BY <1>10, PublishedType DEF RunSucceeds
<1>11. CASE RunFails
    BY <1>11, Fallen DEF RunFails
<1>12. CASE Repair
    BY <1>12, Fallen DEF Repair
<1>13. CASE Complete
    BY <1>13 DEF Complete, Enter, Settle, FailStatus, StatusAfter
<1>14. CASE RestoreDone
    BY <1>14 DEF RestoreDone
<1>15. CASE RestoreFails
    BY <1>15 DEF RestoreFails
<1>16. CASE ConcludeDeploy
  <2>1. DeployOutcome \in {"none", "ok", "failed", "cancelled", "crashed"}
    BY DEF DeployOutcome
  <2> QED BY <1>16, <2>1, Returned DEF ConcludeDeploy
<1>17. CASE RecordFails
  <2>1. PICK status \in {"none", "ok", "failed", "cancelled", "crashed"} :
           ReturnDeploy(status, FALSE)
    BY <1>17 DEF RecordFails, DeployOutcome
  <2> QED BY <1>17, <2>1, Returned DEF RecordFails
<1>18. CASE CrashDeploy
  <2>1. ReturnDeploy("crashed", FALSE)
    BY <1>18 DEF CrashDeploy
  <2>2. /\ okay' \in SUBSET Steps /\ built' \in [Steps -> [Keys -> Values \cup {Unset}]]
        /\ denied' \in SUBSET Steps
    BY <1>18, Fallen DEF CrashDeploy
  <2> QED BY <1>18, <2>1, <2>2, Returned DEF CrashDeploy
<1>19. CASE SkipPreflight
    BY <1>19 DEF SkipPreflight, Enter
<1>20. CASE StartPreflight
    BY <1>20 DEF StartPreflight
<1>21. CASE Foresee
    BY <1>21 DEF Foresee
<1>22. CASE Refuse
    BY <1>22, Returned DEF Refuse
<1>23. CASE UNCHANGED deployVars
    BY <1>23 DEF deployVars
<1> QED BY <1>1, <1>2, <1>3, <1>4, <1>5, <1>6, <1>7, <1>8, <1>9, <1>10, <1>11, <1>12, <1>13,
            <1>14, <1>15, <1>16, <1>17, <1>18, <1>19, <1>20, <1>21, <1>22, <1>23
            DEF DeployNext, StepAction

\* The loop gives each step its result when it leaves it.
LEMMA PlaceStep == DeployTypeOK /\ PlaceInv /\ [DeployNext]_deployVars => PlaceInv'
<1> SUFFICES ASSUME DeployTypeOK, PlaceInv, [DeployNext]_deployVars PROVE PlaceInv'
    OBVIOUS
<1> USE NAssumption, OrderAssumption, StepAssumption, DeployAssumption, AuthorityAssumption,
        BoundsAssumption DEF DeployTypeOK, PlaceInv, Stepping, Steps, states, forecast,
        memory, deployHistory
<1>1. ASSUME NEW s \in Steps, Edit(s) PROVE PlaceInv'
    BY <1>1 DEF Edit
<1>2. CASE ChangeAuthority
    BY <1>2 DEF ChangeAuthority
<1>3. CASE StartDeploy
    BY <1>3 DEF StartDeploy, Enter
<1>4. CASE Admit
    BY <1>4 DEF Admit
<1>5. CASE Contract
    BY <1>5 DEF Contract
<1>6. CASE AdmissionFails
    BY <1>6 DEF AdmissionFails, Enter, Settle, FailStatus
<1>7. CASE Skip
    BY <1>7 DEF Skip, Enter, Settle, FailStatus
<1>8. CASE VerificationFails
    BY <1>8 DEF VerificationFails, Enter, Settle, FailStatus
<1>9. CASE NoSkip
    BY <1>9 DEF NoSkip
<1>10. CASE RunSucceeds
    BY <1>10 DEF RunSucceeds, Publish
<1>11. CASE RunFails
    BY <1>11 DEF RunFails, Fall, Publish
<1>12. CASE Repair
    BY <1>12 DEF Repair, Fall, Publish
<1>13. CASE Complete
    BY <1>13 DEF Complete, Enter, Settle, FailStatus, StatusAfter
<1>14. CASE RestoreDone
    BY <1>14 DEF RestoreDone
<1>15. CASE RestoreFails
    BY <1>15 DEF RestoreFails
<1>16. CASE ConcludeDeploy
    BY <1>16 DEF ConcludeDeploy, ReturnDeploy, DeployOutcome
<1>17. CASE RecordFails
    BY <1>17 DEF RecordFails, ReturnDeploy, DeployOutcome
<1>18. CASE CrashDeploy
    BY <1>18 DEF CrashDeploy, ReturnDeploy, Fall, Publish
<1>19. CASE SkipPreflight
    BY <1>19 DEF SkipPreflight, Enter
<1>20. CASE StartPreflight
    BY <1>20 DEF StartPreflight
<1>21. CASE Foresee
    BY <1>21 DEF Foresee
<1>22. CASE Refuse
    BY <1>22 DEF Refuse, ReturnDeploy
<1>23. CASE UNCHANGED deployVars
    BY <1>23 DEF deployVars
<1> QED BY <1>1, <1>2, <1>3, <1>4, <1>5, <1>6, <1>7, <1>8, <1>9, <1>10, <1>11, <1>12, <1>13,
            <1>14, <1>15, <1>16, <1>17, <1>18, <1>19, <1>20, <1>21, <1>22, <1>23
            DEF DeployNext, StepAction

\* Every change of the authority grows its version.
LEMMA IntervalStep ==
    DeployTypeOK /\ PlaceInv /\ IntervalInv /\ [DeployNext]_deployVars => IntervalInv'
<1> SUFFICES ASSUME DeployTypeOK, PlaceInv, IntervalInv,
                    [DeployNext]_deployVars
             PROVE  IntervalInv'
    OBVIOUS
<1> USE NAssumption, OrderAssumption, StepAssumption, DeployAssumption, AuthorityAssumption,
        BoundsAssumption DEF DeployTypeOK, PlaceInv, IntervalInv, Stepping, Steps, Objects,
        states, forecast, memory, deployHistory
<1>1. ASSUME NEW s \in Steps, Edit(s) PROVE IntervalInv'
    BY <1>1 DEF Edit
<1>2. CASE ChangeAuthority
    BY <1>2 DEF ChangeAuthority
<1>3. CASE StartDeploy
    BY <1>3 DEF StartDeploy, Enter
<1>4. CASE Admit
    BY <1>4 DEF Admit
<1>5. CASE Contract
    BY <1>5 DEF Contract
<1>6. CASE AdmissionFails
    BY <1>6 DEF AdmissionFails, Enter, Settle, FailStatus
<1>7. CASE Skip
    BY <1>7 DEF Skip, Enter, Settle, FailStatus
<1>8. CASE VerificationFails
    BY <1>8 DEF VerificationFails, Enter, Settle, FailStatus
<1>9. CASE NoSkip
    BY <1>9 DEF NoSkip
<1>10. CASE RunSucceeds
    BY <1>10 DEF RunSucceeds, Publish
<1>11. CASE RunFails
    BY <1>11 DEF RunFails, Fall, Publish
<1>12. CASE Repair
    BY <1>12 DEF Repair, Fall, Publish
<1>13. CASE Complete
    BY <1>13 DEF Complete, Enter, Settle, FailStatus, StatusAfter
<1>14. CASE RestoreDone
    BY <1>14 DEF RestoreDone
<1>15. CASE RestoreFails
    BY <1>15 DEF RestoreFails
<1>16. CASE ConcludeDeploy
    BY <1>16 DEF ConcludeDeploy, ReturnDeploy, DeployOutcome
<1>17. CASE RecordFails
    BY <1>17 DEF RecordFails, ReturnDeploy, DeployOutcome
<1>18. CASE CrashDeploy
    BY <1>18 DEF CrashDeploy, ReturnDeploy, Fall, Publish
<1>19. CASE SkipPreflight
    BY <1>19 DEF SkipPreflight, Enter
<1>20. CASE StartPreflight
    BY <1>20 DEF StartPreflight
<1>21. CASE Foresee
    BY <1>21 DEF Foresee
<1>22. CASE Refuse
    BY <1>22 DEF Refuse, ReturnDeploy
<1>23. CASE UNCHANGED deployVars
    BY <1>23 DEF deployVars
<1> QED BY <1>1, <1>2, <1>3, <1>4, <1>5, <1>6, <1>7, <1>8, <1>9, <1>10, <1>11, <1>12, <1>13,
            <1>14, <1>15, <1>16, <1>17, <1>18, <1>19, <1>20, <1>21, <1>22, <1>23
            DEF DeployNext, StepAction

\* A strict step that is reported done has an unbroken interval.
LEMMA AuthorityStep ==
    DeployTypeOK /\ PlaceInv /\ IntervalInv /\ AuthorityUnbroken /\ [DeployNext]_deployVars
    => AuthorityUnbroken'
<1> SUFFICES ASSUME DeployTypeOK, PlaceInv, IntervalInv, AuthorityUnbroken,
                    [DeployNext]_deployVars
             PROVE  AuthorityUnbroken'
    OBVIOUS
<1> USE NAssumption, OrderAssumption, StepAssumption, DeployAssumption, AuthorityAssumption,
        BoundsAssumption DEF DeployTypeOK, PlaceInv, AuthorityUnbroken, Stepping, Steps,
        states, forecast, memory, deployHistory
<1>1. ASSUME NEW s \in Steps, Edit(s) PROVE AuthorityUnbroken'
    BY <1>1 DEF Edit
<1>2. CASE ChangeAuthority
    BY <1>2 DEF ChangeAuthority
<1>3. CASE StartDeploy
    BY <1>3 DEF StartDeploy, Enter
<1>4. CASE Admit
    BY <1>4 DEF Admit
<1>5. CASE Contract
    BY <1>5 DEF Contract
<1>6. CASE AdmissionFails
    BY <1>6 DEF AdmissionFails, Enter, Settle, FailStatus
<1>7. CASE Skip
  <2>1. PICK decision \in Receipts(deployAt) :
           Settle(IF decision = "deny" THEN FailStatus(deployAt) ELSE "skipped")
    BY <1>7 DEF Skip
  <2>2. broken' = broken /\ result' \in [Steps -> Results] /\ deployAt \in Steps
    BY <1>7, DeployTypeStep DEF Skip
  <2>3. ASSUME deployAt \in Observed, Policy[deployAt].unverifiable = "fail",
               result'[deployAt] \in {"ok", "skipped"}
        PROVE  deployAt \notin broken
    BY <2>1, <2>2, <2>3, StrictReceipt DEF Settle, FailStatus
  <2> QED BY <2>1, <2>2, <2>3 DEF Settle
<1>8. CASE VerificationFails
    BY <1>8 DEF VerificationFails, Enter, Settle, FailStatus
<1>9. CASE NoSkip
    BY <1>9 DEF NoSkip
<1>10. CASE RunSucceeds
    BY <1>10 DEF RunSucceeds, Publish
<1>11. CASE RunFails
    BY <1>11 DEF RunFails, Fall, Publish
<1>12. CASE Repair
    BY <1>12 DEF Repair, Fall, Publish
<1>13. CASE Complete
  <2>1. PICK decision \in Receipts(deployAt) : Settle(StatusAfter(decision))
    BY <1>13 DEF Complete
  <2>2. broken' = broken /\ deployAt \in Steps
    BY <1>13 DEF Complete
  <2>3. ASSUME deployAt \in Observed, Policy[deployAt].unverifiable = "fail",
               result'[deployAt] \in {"ok", "skipped"}
        PROVE  deployAt \notin broken
    BY <2>1, <2>2, <2>3, StrictReceipt DEF Settle, StatusAfter, FailStatus
  <2> QED BY <2>1, <2>2, <2>3 DEF Settle
<1>14. CASE RestoreDone
    BY <1>14 DEF RestoreDone
<1>15. CASE RestoreFails
    BY <1>15 DEF RestoreFails
<1>16. CASE ConcludeDeploy
    BY <1>16 DEF ConcludeDeploy, ReturnDeploy, DeployOutcome
<1>17. CASE RecordFails
    BY <1>17 DEF RecordFails, ReturnDeploy, DeployOutcome
<1>18. CASE CrashDeploy
    BY <1>18 DEF CrashDeploy, ReturnDeploy, Fall, Publish
<1>19. CASE SkipPreflight
    BY <1>19 DEF SkipPreflight, Enter
<1>20. CASE StartPreflight
    BY <1>20 DEF StartPreflight
<1>21. CASE Foresee
    BY <1>21 DEF Foresee
<1>22. CASE Refuse
    BY <1>22 DEF Refuse, ReturnDeploy
<1>23. CASE UNCHANGED deployVars
    BY <1>23 DEF deployVars
<1> QED BY <1>1, <1>2, <1>3, <1>4, <1>5, <1>6, <1>7, <1>8, <1>9, <1>10, <1>11, <1>12, <1>13,
            <1>14, <1>15, <1>16, <1>17, <1>18, <1>19, <1>20, <1>21, <1>22, <1>23
            DEF DeployNext, StepAction

\* A published state has every input that the blueprint gives, and the states of
\* the other steps are as they were.
LEMMA PublishedCurrent ==
    ASSUME DeployTypeOK, deployAt \in Steps, Publish, UNCHANGED <<wanted, deployAt>>
    PROVE  Current(deployAt)' /\ \A s \in Steps \ {deployAt} : Current(s) => Current(s)'
<1>1. /\ built'[deployAt] = Resolved(wanted[deployAt])
      /\ \A s \in Steps \ {deployAt} : built'[s] = built[s]
    BY DEF Publish, DeployTypeOK
<1>2. ASSUME NEW k \in Keys, wanted[deployAt][k] # Unset
      PROVE  Resolved(wanted[deployAt])[k] = wanted[deployAt][k]
    BY <1>2 DEF Resolved
<1>3. okay' = okay \cup {deployAt}
    BY DEF Publish
<1>4. InEffect(deployAt)'
    BY <1>1, <1>2 DEF InEffect
<1>5. ASSUME NEW s \in Steps \ {deployAt} PROVE Current(s) => Current(s)'
    BY <1>1, <1>3 DEF Current, InEffect
<1> QED BY <1>3, <1>4, <1>5 DEF Current

\* A run that failed touches no state but that of its step.
LEMMA FallenCurrent ==
    ASSUME DeployTypeOK, deployAt \in Steps, Fall, UNCHANGED <<wanted, deployAt>>
    PROVE  \A s \in Steps \ {deployAt} : Current(s) => Current(s)'
<1>1. CASE UNCHANGED states
    BY <1>1 DEF states, Current, InEffect
<1>2. CASE okay' = okay \ {deployAt} /\ UNCHANGED built
    BY <1>2 DEF Current, InEffect
<1>3. CASE Publish
    BY <1>3, PublishedCurrent
<1> QED BY <1>1, <1>2, <1>3 DEF Fall

\* Only the module run of a step touches its state, before it has a result.
LEMMA DoneStep ==
    DeployTypeOK /\ PlaceInv /\ DoneInv /\ [DeployNext]_deployVars => DoneInv'
<1> SUFFICES ASSUME DeployTypeOK, PlaceInv, DoneInv, [DeployNext]_deployVars PROVE DoneInv'
    OBVIOUS
<1> USE NAssumption, OrderAssumption, StepAssumption, DeployAssumption, AuthorityAssumption,
        BoundsAssumption DEF DeployTypeOK, PlaceInv, DoneInv, Current, InEffect, Stepping,
        Steps, states, forecast, memory, deployHistory
<1>1. ASSUME NEW s \in Steps, Edit(s) PROVE DoneInv'
    BY <1>1 DEF Edit
<1>2. CASE ChangeAuthority
    BY <1>2 DEF ChangeAuthority
<1>3. CASE StartDeploy
    BY <1>3 DEF StartDeploy, Enter
<1>4. CASE Admit
    BY <1>4 DEF Admit
<1>5. CASE Contract
    BY <1>5 DEF Contract
<1>6. CASE AdmissionFails
    BY <1>6 DEF AdmissionFails, Enter, Settle, FailStatus
<1>7. CASE Skip
    BY <1>7 DEF Skip, Enter, Settle, FailStatus, Skippable
<1>8. CASE VerificationFails
    BY <1>8 DEF VerificationFails, Enter, Settle, FailStatus
<1>9. CASE NoSkip
    BY <1>9 DEF NoSkip
<1>10. CASE RunSucceeds
  <2>1. /\ deployAt \in Steps /\ Publish /\ UNCHANGED <<wanted, deployAt, result>>
        /\ result[deployAt] = "none"
    BY <1>10 DEF RunSucceeds
  <2> QED BY <2>1, PublishedCurrent DEF Current
<1>11. CASE RunFails
  <2>1. /\ deployAt \in Steps /\ Fall /\ UNCHANGED <<wanted, deployAt, result>>
        /\ rc' # "ok" /\ result[deployAt] = "none"
    BY <1>11 DEF RunFails
  <2> QED BY <2>1, FallenCurrent DEF Current
<1>12. CASE Repair
  <2>1. /\ deployAt \in Steps /\ Fall /\ UNCHANGED <<wanted, deployAt, result>>
        /\ deployPc' = "run" /\ result[deployAt] = "none"
    BY <1>12 DEF Repair
  <2> QED BY <2>1, FallenCurrent DEF Current
<1>13. CASE Complete
    BY <1>13 DEF Complete, Enter, Settle, FailStatus, StatusAfter
<1>14. CASE RestoreDone
    BY <1>14 DEF RestoreDone
<1>15. CASE RestoreFails
    BY <1>15 DEF RestoreFails
<1>16. CASE ConcludeDeploy
    BY <1>16 DEF ConcludeDeploy, ReturnDeploy, DeployOutcome
<1>17. CASE RecordFails
    BY <1>17 DEF RecordFails, ReturnDeploy, DeployOutcome
<1>18. CASE CrashDeploy
    BY <1>18 DEF CrashDeploy, ReturnDeploy, Fall, Publish
<1>19. CASE SkipPreflight
    BY <1>19 DEF SkipPreflight, Enter
<1>20. CASE StartPreflight
    BY <1>20 DEF StartPreflight
<1>21. CASE Foresee
    BY <1>21 DEF Foresee
<1>22. CASE Refuse
    BY <1>22 DEF Refuse, ReturnDeploy
<1>23. CASE UNCHANGED deployVars
    BY <1>23 DEF deployVars
<1> QED BY <1>1, <1>2, <1>3, <1>4, <1>5, <1>6, <1>7, <1>8, <1>9, <1>10, <1>11, <1>12, <1>13,
            <1>14, <1>15, <1>16, <1>17, <1>18, <1>19, <1>20, <1>21, <1>22, <1>23
            DEF DeployNext, StepAction

\* A step that gets its result leaves the loop where LoopInv wants it.
LEMMA LoopSettled ==
    ASSUME DeployTypeOK, PlaceInv, LoopInv, deployPc \in Stepping,
           NEW status \in Results \ {"none"}, Settle(status),
           status = "failed-optional" => deployAt \in Optional
    PROVE  LoopInv'
<1>1. /\ deployAt \in Steps /\ result'[deployAt] = status
      /\ \A s \in Steps \ {deployAt} : result'[s] = result[s]
    BY Settled
<1>2. \A s \in Steps : s <= deployAt => result'[s] # "none"
    BY <1>1 DEF LoopInv, Steps, Results
<1>3. \A s \in Steps : result'[s] = "failed-optional" => s \in Optional
    BY <1>1 DEF LoopInv
<1>4. CASE deployPc' = "conclude" /\ (status = "cancelled" \/ status = "failed")
  <2>1. RequiredFailures' # {} \/ Cancelled'
    BY <1>1, <1>4 DEF RequiredFailures, Cancelled
  <2> QED BY <1>3, <1>4, <2>1 DEF LoopInv, Stepping
<1>5. CASE deployPc' \in {"admit", "check"} /\ deployAt' = deployAt + 1
    BY <1>1, <1>2, <1>3, <1>5, NAssumption DEF LoopInv, Stepping, Steps
<1>6. CASE deployPc' = "restore" /\ deployAt = N
    BY <1>2, <1>3, <1>6, NAssumption DEF LoopInv, Stepping, Steps
<1> QED BY <1>4, <1>5, <1>6, Settled

\* The loop leaves no step without a result.
LEMMA LoopInvStep == DeployTypeOK /\ PlaceInv /\ LoopInv /\ [DeployNext]_deployVars => LoopInv'
<1> SUFFICES ASSUME DeployTypeOK, PlaceInv, LoopInv, [DeployNext]_deployVars PROVE LoopInv'
    OBVIOUS
<1> USE NAssumption, OrderAssumption, StepAssumption, DeployAssumption, AuthorityAssumption,
        BoundsAssumption DEF DeployTypeOK, PlaceInv, LoopInv, Stepping, Steps,
        RequiredFailures, Cancelled, states, forecast, memory, deployHistory
<1>1. ASSUME NEW s \in Steps, Edit(s) PROVE LoopInv'
    BY <1>1 DEF Edit
<1>2. CASE ChangeAuthority
    BY <1>2 DEF ChangeAuthority
<1>3. CASE StartDeploy
    BY <1>3 DEF StartDeploy, Enter
<1>4. CASE Admit
    BY <1>4 DEF Admit
<1>5. CASE Contract
    BY <1>5 DEF Contract
<1>6. CASE AdmissionFails
  <2>1. PICK status \in {"failed", "failed-optional"} :
           /\ Settle(status)
           /\ status = "failed-optional" => deployAt \in Optional
    BY <1>6 DEF AdmissionFails, FailStatus
  <2>2. deployPc \in Stepping /\ status \in Results \ {"none"}
    BY <1>6 DEF AdmissionFails, Stepping, Results
  <2>3. UNCHANGED <<okay, unrestored>>
    BY <1>6 DEF AdmissionFails
  <2> QED BY <2>1, <2>2, <2>3, LoopSettled
<1>7. CASE Skip
  <2>1. PICK status \in {"skipped", "failed", "failed-optional"} :
           /\ Settle(status)
           /\ status = "failed-optional" => deployAt \in Optional
    BY <1>7 DEF Skip, FailStatus
  <2>2. deployPc \in Stepping /\ status \in Results \ {"none"}
    BY <1>7 DEF Skip, Stepping, Results
  <2>3. UNCHANGED <<okay, unrestored>>
    BY <1>7 DEF Skip
  <2> QED BY <2>1, <2>2, <2>3, LoopSettled
<1>8. CASE VerificationFails
  <2>1. PICK status \in {"failed", "failed-optional"} :
           /\ Settle(status)
           /\ status = "failed-optional" => deployAt \in Optional
    BY <1>8 DEF VerificationFails, FailStatus
  <2>2. deployPc \in Stepping /\ status \in Results \ {"none"}
    BY <1>8 DEF VerificationFails, Stepping, Results
  <2>3. UNCHANGED <<okay, unrestored>>
    BY <1>8 DEF VerificationFails
  <2> QED BY <2>1, <2>2, <2>3, LoopSettled
<1>9. CASE NoSkip
    BY <1>9 DEF NoSkip
<1>10. CASE RunSucceeds
    BY <1>10 DEF RunSucceeds, Publish
<1>11. CASE RunFails
    BY <1>11 DEF RunFails, Fall, Publish
<1>12. CASE Repair
    BY <1>12 DEF Repair, Fall, Publish
<1>13. CASE Complete
  <2>1. PICK status \in {"ok", "cancelled", "failed", "failed-optional"} :
           /\ Settle(status)
           /\ status = "failed-optional" => deployAt \in Optional
    BY <1>13 DEF Complete, FailStatus, StatusAfter
  <2>2. deployPc \in Stepping /\ status \in Results \ {"none"}
    BY <1>13 DEF Complete, Stepping, Results
  <2>3. UNCHANGED <<okay, unrestored>>
    BY <1>13 DEF Complete
  <2> QED BY <2>1, <2>2, <2>3, LoopSettled
<1>14. CASE RestoreDone
    BY <1>14 DEF RestoreDone
<1>15. CASE RestoreFails
    BY <1>15 DEF RestoreFails
<1>16. CASE ConcludeDeploy
    BY <1>16 DEF ConcludeDeploy, ReturnDeploy, DeployOutcome
<1>17. CASE RecordFails
    BY <1>17 DEF RecordFails, ReturnDeploy, DeployOutcome
<1>18. CASE CrashDeploy
    BY <1>18 DEF CrashDeploy, ReturnDeploy, Fall, Publish
<1>19. CASE SkipPreflight
    BY <1>19 DEF SkipPreflight, Enter
<1>20. CASE StartPreflight
    BY <1>20 DEF StartPreflight
<1>21. CASE Foresee
    BY <1>21 DEF Foresee
<1>22. CASE Refuse
    BY <1>22 DEF Refuse, ReturnDeploy
<1>23. CASE UNCHANGED deployVars
    BY <1>23 DEF deployVars
<1> QED BY <1>1, <1>2, <1>3, <1>4, <1>5, <1>6, <1>7, <1>8, <1>9, <1>10, <1>11, <1>12, <1>13,
            <1>14, <1>15, <1>16, <1>17, <1>18, <1>19, <1>20, <1>21, <1>22, <1>23
            DEF DeployNext, StepAction

\* A step that gets its result leaves the loop where PassInv wants it.
LEMMA PassSettled ==
    ASSUME FailFast, DeployTypeOK, PlaceInv, PassInv, deployPc \in Stepping,
           NEW status \in Results \ {"none"}, Settle(status),
           UNCHANGED <<okay, unrestored>>
    PROVE  PassInv'
<1>1. /\ deployAt \in Steps /\ result'[deployAt] = status
      /\ \A s \in Steps \ {deployAt} : result'[s] = result[s]
    BY Settled
<1>2. ~unrestored'
    BY DEF PassInv, Stepping
<1>3. \A s \in Steps : s # deployAt => result'[s] \notin {"failed", "cancelled"}
    BY <1>1 DEF PassInv
<1>4. CASE deployPc' = "conclude"
    BY <1>2, <1>4 DEF PassInv, Stepping
<1>5. CASE /\ deployPc' \in {"admit", "check", "restore"}
           /\ deployPc' = "check" => deployAt' \notin Observed
           /\ deployPc' # "restore" => deployAt' = deployAt + 1
           /\ status # "cancelled" /\ ~(status = "failed" /\ FailFast)
  <2>1. \A s \in Steps : result'[s] \notin {"failed", "cancelled"}
    BY <1>1, <1>3, <1>5, FailFast
  <2>2. ASSUME deployPc' # "restore", NEW s \in Steps, s < deployAt' PROVE result'[s] # "none"
    <3>1. s = deployAt \/ s < deployAt
      BY <1>1, <1>5, <2>2 DEF Steps
    <3> QED BY <1>1, <3>1 DEF PassInv, Steps
  <2> QED BY <1>2, <1>5, <2>1, <2>2 DEF PassInv, Stepping
<1> QED BY <1>4, <1>5, Settled

\* With fail_fast the loop goes on only after steps that did not fail it.
LEMMA PassStep ==
    FailFast /\ DeployTypeOK /\ PlaceInv /\ PassInv /\ [DeployNext]_deployVars => PassInv'
<1> SUFFICES ASSUME FailFast, DeployTypeOK, PlaceInv, PassInv,
                    [DeployNext]_deployVars
             PROVE  PassInv'
    OBVIOUS
<1> USE NAssumption, OrderAssumption, StepAssumption, DeployAssumption, AuthorityAssumption,
        BoundsAssumption DEF DeployTypeOK, PlaceInv, PassInv, Stepping, Steps,
        RequiredFailures, states, forecast, memory, deployHistory
<1>1. ASSUME NEW s \in Steps, Edit(s) PROVE PassInv'
    BY <1>1 DEF Edit
<1>2. CASE ChangeAuthority
    BY <1>2 DEF ChangeAuthority
<1>3. CASE StartDeploy
    BY <1>3 DEF StartDeploy, Enter
<1>4. CASE Admit
    BY <1>4 DEF Admit, StateContract
<1>5. CASE Contract
    BY <1>5 DEF Contract, StateContract
<1>6. CASE AdmissionFails
  <2>1. PICK status \in {"failed", "failed-optional"} :
           /\ Settle(status)
           /\ status = "failed-optional" => deployAt \in Optional
    BY <1>6 DEF AdmissionFails, FailStatus
  <2>2. deployPc \in Stepping /\ status \in Results \ {"none"}
    BY <1>6 DEF AdmissionFails, Stepping, Results
  <2>3. UNCHANGED <<okay, unrestored>>
    BY <1>6 DEF AdmissionFails
  <2> QED BY FailFast, <2>1, <2>2, <2>3, PassSettled
<1>7. CASE Skip
  <2>1. PICK status \in {"skipped", "failed", "failed-optional"} :
           /\ Settle(status)
           /\ status = "failed-optional" => deployAt \in Optional
    BY <1>7 DEF Skip, FailStatus
  <2>2. deployPc \in Stepping /\ status \in Results \ {"none"}
    BY <1>7 DEF Skip, Stepping, Results
  <2>3. UNCHANGED <<okay, unrestored>>
    BY <1>7 DEF Skip
  <2> QED BY FailFast, <2>1, <2>2, <2>3, PassSettled
<1>8. CASE VerificationFails
  <2>1. PICK status \in {"failed", "failed-optional"} :
           /\ Settle(status)
           /\ status = "failed-optional" => deployAt \in Optional
    BY <1>8 DEF VerificationFails, FailStatus
  <2>2. deployPc \in Stepping /\ status \in Results \ {"none"}
    BY <1>8 DEF VerificationFails, Stepping, Results
  <2>3. UNCHANGED <<okay, unrestored>>
    BY <1>8 DEF VerificationFails
  <2> QED BY FailFast, <2>1, <2>2, <2>3, PassSettled
<1>9. CASE NoSkip
    BY <1>9 DEF NoSkip
<1>10. CASE RunSucceeds
    BY <1>10 DEF RunSucceeds, Publish
<1>11. CASE RunFails
    BY <1>11 DEF RunFails, Fall, Publish
<1>12. CASE Repair
    BY <1>12 DEF Repair, Fall, Publish
<1>13. CASE Complete
  <2>1. PICK status \in {"ok", "cancelled", "failed", "failed-optional"} :
           /\ Settle(status)
           /\ status = "failed-optional" => deployAt \in Optional
    BY <1>13 DEF Complete, FailStatus, StatusAfter
  <2>2. deployPc \in Stepping /\ status \in Results \ {"none"}
    BY <1>13 DEF Complete, Stepping, Results
  <2>3. UNCHANGED <<okay, unrestored>>
    BY <1>13 DEF Complete
  <2> QED BY FailFast, <2>1, <2>2, <2>3, PassSettled
<1>14. CASE RestoreDone
    BY <1>14 DEF RestoreDone
<1>15. CASE RestoreFails
    BY <1>15 DEF RestoreFails
<1>16. CASE ConcludeDeploy
    BY <1>16 DEF ConcludeDeploy, ReturnDeploy, DeployOutcome
<1>17. CASE RecordFails
    BY <1>17 DEF RecordFails, ReturnDeploy, DeployOutcome
<1>18. CASE CrashDeploy
    BY <1>18 DEF CrashDeploy, ReturnDeploy, Fall, Publish
<1>19. CASE SkipPreflight
    BY <1>19 DEF SkipPreflight, Enter
<1>20. CASE StartPreflight
    BY <1>20 DEF StartPreflight
<1>21. CASE Foresee
    BY <1>21 DEF Foresee
<1>22. CASE Refuse
    BY <1>22 DEF Refuse, ReturnDeploy
<1>23. CASE UNCHANGED deployVars
    BY <1>23 DEF deployVars
<1> QED BY <1>1, <1>2, <1>3, <1>4, <1>5, <1>6, <1>7, <1>8, <1>9, <1>10, <1>11, <1>12, <1>13,
            <1>14, <1>15, <1>16, <1>17, <1>18, <1>19, <1>20, <1>21, <1>22, <1>23
            DEF DeployNext, StepAction

\* A step that gets its result keeps the forecast of those to come.
LEMMA ForecastSettled ==
    ASSUME DeployTypeOK, PlaceInv, ForecastInv, deployPc \in Stepping,
           NEW status \in Results \ {"none"}, Settle(status),
           UNCHANGED <<okay, plan, found>>,
           status \in {"ok", "skipped"} => deployAt \in okay,
           status = "failed-optional" => deployAt \in Optional,
           status = "failed" => deployAt \notin Optional
    PROVE  ForecastInv'
<1> USE NAssumption, DeployAssumption DEF Stepping, Steps
<1>1. /\ deployAt \in Steps /\ result'[deployAt] = status
      /\ \A s \in Steps \ {deployAt} : result'[s] = result[s]
    BY Settled
<1>2. \A s \in Steps : result'[s] \in {"ok", "skipped"} => s \in okay
    BY <1>1 DEF ForecastInv
<1>3. rc' = "none"
    BY DEF Settle
<1>4. CASE deployPc' \in {"conclude", "restore"}
    BY <1>2, <1>3, <1>4 DEF ForecastInv
<1>5. CASE /\ deployPc' \in {"admit", "check"}
           /\ deployAt' = deployAt + 1 /\ deployAt' \in Steps
           /\ status # "cancelled"
  <2>1. ASSUME NEW s \in Steps, plan[s] = "ready", s > deployAt, NEW r \in NeedsState[s]
        PROVE  /\ r < deployAt + 1 =>
                     \/ r \in okay
                     \/ result'[r] = "failed"
                     \/ result'[r] = "failed-optional" /\ r \in found
               /\ r >= deployAt + 1 /\ r < s => r \notin Optional \/ r \in found
               /\ r >= deployAt + 1 /\ r >= s => r \in okay
    <3>1. Awaited(s) /\ r \in Steps
      BY <2>1 DEF ForecastInv
    <3>2. CASE r = deployAt
      <4>1. r \notin Optional \/ r \in found
        BY <2>1, <3>1, <3>2 DEF Awaited
      <4> QED BY <1>1, <1>5, <2>1, <3>2, <4>1 DEF Results
    <3>3. CASE r # deployAt
      BY <1>1, <2>1, <3>1, <3>3 DEF Awaited
    <3> QED BY <3>2, <3>3
  <2>2. \A s \in Steps : plan'[s] = "ready" /\ s >= deployAt' => Awaited(s)'
    BY <1>1, <1>5, <2>1 DEF Awaited
  <2> QED BY <1>2, <1>3, <1>5, <2>2 DEF ForecastInv
<1> QED BY <1>1, <1>4, <1>5, Settled

\* The forecast holds through every step.
LEMMA ForecastStep ==
    DeployTypeOK /\ PlaceInv /\ ForecastInv /\ [DeployNext]_deployVars => ForecastInv'
<1> SUFFICES ASSUME DeployTypeOK, PlaceInv, ForecastInv,
                    [DeployNext]_deployVars
             PROVE  ForecastInv'
    OBVIOUS
<1> USE NAssumption, OrderAssumption, StepAssumption, DeployAssumption, BoundsAssumption
        DEF DeployTypeOK, PlaceInv, ForecastInv, Awaited, Stepping, Steps, states, memory,
        forecast, deployHistory
<1>1. ASSUME NEW s \in Steps, Edit(s) PROVE ForecastInv'
    BY <1>1 DEF Edit
<1>2. CASE ChangeAuthority
    BY <1>2 DEF ChangeAuthority
<1>3. CASE StartDeploy
    BY <1>3 DEF StartDeploy, Enter, Blocking, Cleared
<1>4. CASE Admit
    BY <1>4 DEF Admit
<1>5. CASE Contract
    BY <1>5 DEF Contract
<1>6. CASE AdmissionFails
  <2>1. PICK status \in {"failed", "failed-optional"} :
           /\ Settle(status)
           /\ status \in {"ok", "skipped"} => deployAt \in okay
           /\ status = "failed-optional" => deployAt \in Optional
           /\ status = "failed" => deployAt \notin Optional
    BY <1>6 DEF AdmissionFails, FailStatus
  <2>2. deployPc \in Stepping /\ status \in Results \ {"none"}
    BY <1>6 DEF AdmissionFails, Results
  <2>3. UNCHANGED <<okay, plan, found>>
    BY <1>6 DEF AdmissionFails
  <2> QED BY <2>1, <2>2, <2>3, ForecastSettled
<1>7. CASE Skip
  <2>1. PICK status \in {"skipped", "failed", "failed-optional"} :
           /\ Settle(status)
           /\ status \in {"ok", "skipped"} => deployAt \in okay
           /\ status = "failed-optional" => deployAt \in Optional
           /\ status = "failed" => deployAt \notin Optional
    BY <1>7 DEF Skip, FailStatus, Skippable
  <2>2. deployPc \in Stepping /\ status \in Results \ {"none"}
    BY <1>7 DEF Skip, Results
  <2>3. UNCHANGED <<okay, plan, found>>
    BY <1>7 DEF Skip
  <2> QED BY <2>1, <2>2, <2>3, ForecastSettled
<1>8. CASE VerificationFails
  <2>1. PICK status \in {"failed", "failed-optional"} :
           /\ Settle(status)
           /\ status \in {"ok", "skipped"} => deployAt \in okay
           /\ status = "failed-optional" => deployAt \in Optional
           /\ status = "failed" => deployAt \notin Optional
    BY <1>8 DEF VerificationFails, FailStatus
  <2>2. deployPc \in Stepping /\ status \in Results \ {"none"}
    BY <1>8 DEF VerificationFails, Results
  <2>3. UNCHANGED <<okay, plan, found>>
    BY <1>8 DEF VerificationFails
  <2> QED BY <2>1, <2>2, <2>3, ForecastSettled
<1>9. CASE NoSkip
    BY <1>9 DEF NoSkip
<1>10. CASE RunSucceeds
    BY <1>10 DEF RunSucceeds, Publish
<1>11. CASE RunFails
    BY <1>11 DEF RunFails, Fall, Publish
<1>12. CASE Repair
    BY <1>12 DEF Repair, Fall, Publish
<1>13. CASE Complete
  <2>1. PICK status \in {"ok", "cancelled", "failed", "failed-optional"} :
           /\ Settle(status)
           /\ status \in {"ok", "skipped"} => deployAt \in okay
           /\ status = "failed-optional" => deployAt \in Optional
           /\ status = "failed" => deployAt \notin Optional
    BY <1>13 DEF Complete, FailStatus, StatusAfter
  <2>2. deployPc \in Stepping /\ status \in Results \ {"none"}
    BY <1>13 DEF Complete, Results
  <2>3. UNCHANGED <<okay, plan, found>>
    BY <1>13 DEF Complete
  <2> QED BY <2>1, <2>2, <2>3, ForecastSettled
<1>14. CASE RestoreDone
    BY <1>14 DEF RestoreDone
<1>15. CASE RestoreFails
    BY <1>15 DEF RestoreFails
<1>16. CASE ConcludeDeploy
    BY <1>16 DEF ConcludeDeploy, ReturnDeploy
<1>17. CASE RecordFails
    BY <1>17 DEF RecordFails, ReturnDeploy
<1>18. CASE CrashDeploy
    BY <1>18 DEF CrashDeploy, ReturnDeploy
<1>19. CASE SkipPreflight
    BY <1>19 DEF SkipPreflight, Enter
<1>20. CASE StartPreflight
    BY <1>20 DEF StartPreflight
<1>21. CASE Foresee
    BY <1>21 DEF Foresee, Assumed, Cleared
<1>22. CASE Refuse
    BY <1>22 DEF Refuse, ReturnDeploy
<1>23. CASE UNCHANGED deployVars
    BY <1>23 DEF deployVars
<1> QED BY <1>1, <1>2, <1>3, <1>4, <1>5, <1>6, <1>7, <1>8, <1>9, <1>10, <1>11, <1>12, <1>13,
            <1>14, <1>15, <1>16, <1>17, <1>18, <1>19, <1>20, <1>21, <1>22, <1>23
            DEF DeployNext, StepAction

\* Type correctness of a deploy over any blueprint.
THEOREM DeployTypeCorrect == DeploySpec => []DeployTypeOK
<1>1. DeployTypeOK /\ PlaceInv /\ [DeployNext]_deployVars => DeployTypeOK' /\ PlaceInv'
    BY DeployTypeStep, PlaceStep
<1> QED BY DeployInitInv, <1>1, PTL DEF DeploySpec

\* A strict step is reported done or skipped only over an interval in which its
\* authority did not change, for every provider, blueprint and authority.
THEOREM UnbrokenAuthority == DeploySpec => []AuthorityUnbroken
<1>1. /\ DeployTypeOK /\ PlaceInv /\ IntervalInv /\ AuthorityUnbroken
      /\ [DeployNext]_deployVars
      => DeployTypeOK' /\ PlaceInv' /\ IntervalInv' /\ AuthorityUnbroken'
    BY DeployTypeStep, PlaceStep, IntervalStep, AuthorityStep
<1> QED BY DeployInitInv, <1>1, PTL DEF DeploySpec

\* With fail_fast no module runs over a required step that failed or a state
\* that its contracts need and that is not good, in any blueprint.
THEOREM SettledFirst == ASSUME FailFast PROVE DeploySpec => []RequirementsSettled
<1>1. DeployTypeOK /\ PlaceInv /\ PassInv /\ [DeployNext]_deployVars
      => DeployTypeOK' /\ PlaceInv' /\ PassInv'
    BY FailFast, DeployTypeStep, PlaceStep, PassStep
<1>2. DeployTypeOK /\ PlaceInv /\ PassInv => RequirementsSettled
  <2> SUFFICES ASSUME DeployTypeOK, PlaceInv, PassInv PROVE RequirementsSettled
      OBVIOUS
  <2>1. ASSUME deployPc = "run", NEW r \in Requires[deployAt]
        PROVE  result[r] \in {"ok", "skipped", "failed-optional"}
    <3>1. deployAt \in Steps /\ r \in Steps /\ r < deployAt
      BY <2>1, OrderAssumption DEF PlaceInv, Stepping
    <3> QED BY <2>1, <3>1 DEF PassInv, Stepping, DeployTypeOK, Results
  <2> QED BY <2>1 DEF RequirementsSettled, PassInv, RequiredFailures
<1> QED BY DeployInitInv, <1>1, <1>2, PTL DEF DeploySpec

\* In any blueprint, a step the preflight found ready is refused for want of a
\* state only when a step that makes it has failed in the same deploy.
THEOREM ForecastKept == DeploySpec => []ForecastHolds
<1>1. DeployTypeOK /\ PlaceInv /\ ForecastInv /\ [DeployNext]_deployVars
      => DeployTypeOK' /\ PlaceInv' /\ ForecastInv'
    BY DeployTypeStep, PlaceStep, ForecastStep
<1>2. DeployTypeOK /\ PlaceInv /\ ForecastInv => ForecastHolds
  <2> SUFFICES ASSUME DeployTypeOK, PlaceInv, ForecastInv, deployPc \in {"admit", "contract"},
                      plan[deployAt] = "ready", NEW r \in NeedsState[deployAt]
               PROVE  \/ r \in okay
                      \/ result[r] = "failed"
                      \/ result[r] = "failed-optional" /\ r \in found
      BY DEF ForecastHolds
  <2>1. deployAt \in Steps /\ r \in Steps
    BY DeployAssumption DEF PlaceInv, Stepping
  <2>2. Awaited(deployAt)
    BY <2>1 DEF ForecastInv, Stepping
  <2> QED BY <2>1, <2>2 DEF Awaited, Steps
<1> QED BY DeployInitInv, <1>1, <1>2, PTL DEF DeploySpec

\* An authority has been observed for every receipt.
ReceiptInv == receipts => Observed # {}

\* A receipt is of an authority that the blueprint observes.
LEMMA ReceiptStep == DeployTypeOK /\ ReceiptInv /\ [DeployNext]_deployVars => ReceiptInv'
<1> SUFFICES ASSUME DeployTypeOK, ReceiptInv, [DeployNext]_deployVars,
                    receipts'
             PROVE  Observed # {}
    BY DEF ReceiptInv
<1>1. CASE Skip \/ Complete
    BY <1>1 DEF Skip, Complete, ReceiptInv
<1>2. CASE receipts' = receipts
    BY <1>2 DEF ReceiptInv
<1>3. ~(ConcludeDeploy \/ RecordFails \/ CrashDeploy \/ Refuse)
    BY DEF ConcludeDeploy, RecordFails, CrashDeploy, Refuse, ReturnDeploy
<1> QED BY <1>1, <1>2, <1>3 DEF DeployNext, StepAction, Edit, ChangeAuthority, StartDeploy,
            SkipPreflight, StartPreflight, Foresee, Admit, Contract, AdmissionFails,
            VerificationFails, NoSkip, RunSucceeds, RunFails, Repair, RestoreDone,
            RestoreFails, memory, forecast, deployVars

\* What a deploy that ends with "ok" has done of each step.
LEMMA OkSettled ==
    ASSUME DeployTypeOK, LoopInv, deployPc = "conclude", DeployOutcome = "ok", NEW s \in Steps
    PROVE  \/ result[s] \in {"ok", "skipped"}
           \/ s \in Optional /\ result[s] = "failed-optional"
<1>1. RequiredFailures = {} /\ ~Cancelled
    BY DEF DeployOutcome
<1>2. result[s] \in {"ok", "skipped", "failed-optional"}
    BY <1>1 DEF LoopInv, RequiredFailures, Cancelled, DeployTypeOK, Results
<1> QED BY <1>2 DEF LoopInv

\* A deploy that ends with "ok" has left every step that is not reported as an
\* optional failure in a good state, which has every input that the blueprint
\* gives now if the inputs of the last run can be read, and its record holds the
\* receipts.  An input that the blueprint no longer gives may still be in effect.
THEOREM OkIsDeployed == DeploySpec => OkMeansDeployed
<1> DEFINE IInv == DeployTypeOK /\ PlaceInv /\ DoneInv /\ LoopInv /\ ReceiptInv
<1> DEFINE Deployed == (last' # last /\ last'.status = "ok") =>
          /\ \A s \in Steps :
                \/ s \in okay /\ (s \in BaselineKept => InEffect(s))
                \/ s \in Optional /\ result[s] = "failed-optional"
          /\ receipts => last'.recorded
<1>1. DeployInit => IInv
    BY DeployInitInv DEF ReceiptInv, DeployInit
<1>2. IInv /\ [DeployNext]_deployVars => IInv'
    BY DeployTypeStep, PlaceStep, DoneStep, LoopInvStep, ReceiptStep
<1>3. IInv /\ [DeployNext]_deployVars => [Deployed]_deployVars
  <2> SUFFICES ASSUME IInv, DeployNext, last' # last, last'.status = "ok" PROVE Deployed
      OBVIOUS
  <2>1. /\ deployPc = "conclude" /\ DeployOutcome = "ok"
        /\ ConcludeDeploy \/ (RecordFails /\ (~receipts \/ Cancelled))
    <3>1. CASE ConcludeDeploy
      BY <3>1 DEF ConcludeDeploy, ReturnDeploy
    <3>2. CASE RecordFails
      BY <3>2 DEF RecordFails, ReturnDeploy
    <3>3. ~CrashDeploy /\ ~Refuse
      BY DEF CrashDeploy, Refuse, ReturnDeploy
    <3> QED BY <3>1, <3>2, <3>3 DEF DeployNext, StepAction, Edit, ChangeAuthority,
                StartDeploy, SkipPreflight, StartPreflight, Foresee, Admit, Contract,
                AdmissionFails, Skip, VerificationFails, NoSkip, RunSucceeds, RunFails,
                Repair, Complete, RestoreDone, RestoreFails, memory, forecast
  <2>2. RequiredFailures = {} /\ ~Cancelled
    BY <2>1 DEF DeployOutcome
  <2>3. ASSUME NEW s \in Steps
        PROVE  \/ s \in okay /\ (s \in BaselineKept => InEffect(s))
               \/ s \in Optional /\ result[s] = "failed-optional"
    BY <2>1, OkSettled DEF DoneInv, Current
  <2>4. ASSUME receipts PROVE last'.recorded
    <3>1. ConcludeDeploy
      BY <2>1, <2>2, <2>4
    <3> QED BY <3>1, <2>4 DEF ConcludeDeploy, ReturnDeploy, ReceiptInv
  <2> QED BY <2>3, <2>4
<1> QED BY <1>1, <1>2, <1>3, PTL DEF DeploySpec, OkMeansDeployed

-----------------------------------------------------------------------------
(* THE REBUILD                                                                *)

\* One half runs at a time, and for the command that began it.
TurnInv ==
    /\ destroyPc # "idle" => command \in {"destroy", "rebuild"} /\ deployPc = "idle"
    /\ deployPc # "idle" => command \in {"deploy", "rebuild"}
    /\ command = "rebuild" => rebuilt = "running"

\* A rebuild goes through its steps in the mode it has been given.
ModeInv ==
    command = "rebuild" /\ destroyPc \in {"archive"} \cup Looping => mode = RebuildMode

\* A retained step is never destroyed: over its good state there are resources.
RetainedInv == \A s \in Retained \cap okay : s \in live

\* The gates that the mode of the rebuild tells its destroy to keep.
Told == IF RebuildMode = "skip" THEN Gates ELSE {}

\* What the destroy of a rebuild has left, and the deploy builds upon.
RenewedInv ==
    command = "rebuild" /\ deployPc # "idle" =>
        \A s \in Steps \ (spared \cup Told) :
            /\ s \in okay => s \in live
            /\ s \in old => s \in Retained

\* What a rebuild keeps in mind.
OwnInv ==
    /\ command \in {"none", "destroy", "deploy", "rebuild"}
    /\ rebuilt \in {"none", "running", "destroy-failed", "deploy-failed", "ok"}
    /\ spared \in SUBSET Optional
    /\ old \in SUBSET live

\* A good state is no terminal one.
StandsInv == \A s \in okay : marker[s] = "standing"

\* What is known of the two halves by themselves.
DestroyHalf == DestroyTypeOK /\ Inside /\ MarkedGone /\ FinishInv /\ LostInv /\ ExcusedInv
DeployHalf  == DeployTypeOK /\ PlaceInv /\ LoopInv /\ ForecastInv

\* The inductive invariant of the composition.
RebuildInv ==
    DestroyHalf /\ DeployHalf /\ TurnInv /\ OwnInv /\ StandsInv /\ RetainedInv

-----------------------------------------------------------------------------
(* The halves as the rebuild uses them                                        *)

\* The actions of a destroy, and of a deploy, that are not its end.
Destroying == Proceed \/ ArchiveVerified \/ LoopStep
Deploying  == StepAction \/ RestoreDone \/ RestoreFails

\* They happen within a destroy and leave it under way.
LEMMA DestroyGoesOn ==
    ASSUME Destroying
    PROVE  destroyPc # "idle" /\ destroyPc' # "idle"
<1>1. CASE Proceed \/ ArchiveVerified
    BY <1>1 DEF Proceed, ArchiveVerified
<1>2. CASE Bypass \/ SkipNoState \/ SkipDestroyed \/ Defer \/ DestroySucceeds
    BY <1>2 DEF Bypass, SkipNoState, SkipDestroyed, Defer, DestroySucceeds, StartFinish
<1>3. CASE DestroyFails \/ DestroyCancelled \/ Finished
    BY <1>3 DEF DestroyFails, DestroyCancelled, Finished
<1>4. CASE \E c \in Steps : MarkChild(c) \/ MarkChildFails(c)
    BY <1>4 DEF MarkChild, MarkChildFails
<1> QED BY <1>1, <1>2, <1>3, <1>4 DEF Destroying, LoopStep

\* Past the choice of the mode it stays what it is.
LEMMA DestroyModeStays ==
    ASSUME ArchiveVerified \/ LoopStep
    PROVE  destroyPc \in {"archive"} \cup Looping /\ mode' = mode
<1>1. CASE ArchiveVerified \/ Bypass \/ SkipNoState \/ SkipDestroyed \/ Defer
    BY <1>1 DEF ArchiveVerified, Bypass, SkipNoState, SkipDestroyed, Defer, Looping
<1>2. CASE DestroySucceeds \/ DestroyFails \/ DestroyCancelled \/ Finished
    BY <1>2 DEF DestroySucceeds, DestroyFails, DestroyCancelled, Finished, Looping
<1>3. CASE \E c \in Steps : MarkChild(c) \/ MarkChildFails(c)
    BY <1>3 DEF MarkChild, MarkChildFails, Looping
<1> QED BY <1>1, <1>2, <1>3 DEF LoopStep

\* A deploy stays under way until it concludes or dies.
LEMMA DeployGoesOn ==
    ASSUME Deploying
    PROVE  deployPc # "idle" /\ deployPc' # "idle"
<1>1. ASSUME NEW status, Settle(status) PROVE deployPc' # "idle"
    BY <1>1 DEF Settle, Enter
<1>2. CASE Admit \/ Contract \/ NoSkip \/ RunSucceeds \/ RunFails \/ Repair
    BY <1>2 DEF Admit, Contract, NoSkip, RunSucceeds, RunFails, Repair
<1>3. CASE AdmissionFails \/ VerificationFails
    BY <1>1, <1>3 DEF AdmissionFails, VerificationFails
<1>4. CASE Skip
    BY <1>1, <1>4 DEF Skip
<1>5. CASE Complete
    BY <1>1, <1>5 DEF Complete
<1>6. CASE RestoreDone \/ RestoreFails
    BY <1>6 DEF RestoreDone, RestoreFails
<1> QED BY <1>2, <1>3, <1>4, <1>5, <1>6 DEF Deploying, StepAction

\* An end of a destroy touches neither state files nor resources.
LEMMA DestroyEnds ==
    ASSUME Decline \/ ArchiveFails \/ ConcludeDestroy \/ CrashDestroy
    PROVE  /\ destroyPc # "idle" /\ destroyPc' = "idle"
           /\ UNCHANGED <<marker, live>>
    BY DEF Decline, ArchiveFails, ConcludeDestroy, CrashDestroy, ReturnDestroy, world

\* An end of a deploy.
LEMMA DeployEnds ==
    ASSUME ConcludeDeploy \/ RecordFails \/ CrashDeploy
    PROVE  deployPc # "idle" /\ deployPc' = "idle"
    BY DEF ConcludeDeploy, RecordFails, CrashDeploy, ReturnDeploy

\* A half starts from idle and touches nothing of what the two share.
LEMMA Starts ==
    /\ StartDestroy => /\ destroyPc = "idle" /\ destroyPc' = "select"
                        /\ UNCHANGED <<marker, live>>
    /\ SkipPreflight => deployPc = "idle" /\ deployPc' # "idle" /\ UNCHANGED okay
    BY DEF StartDestroy, SkipPreflight, Enter, world, states

\* Each step of the rebuild is one of a destroy, one of a deploy, or the step from
\* the one to the other.
LEMMA Kinds ==
    ASSUME Next
    PROVE  \/ /\ StartDestroy \/ Destroying \/ Decline \/ ArchiveFails \/ ConcludeDestroy
                 \/ CrashDestroy
              /\ Marked
           \/ /\ SkipPreflight \/ Deploying \/ ConcludeDeploy \/ RecordFails \/ CrashDeploy
              /\ Followed
           \/ Destroyed
    BY DEF Next, BeginDestroy, EndDestroy, BeginDeploy, EndDeploy, DestroyStep, DeployStep,
        BeginRebuild, DestroyFailed, DeployRefused, EndRebuild, Crash, Destroying, Deploying

\* Every step is taken by the half whose turn it is.
LEMMA TurnStep == TurnInv /\ [Next]_vars => TurnInv'
<1> SUFFICES ASSUME TurnInv, [Next]_vars PROVE TurnInv'
    OBVIOUS
<1>1. CASE BeginDestroy \/ BeginRebuild
    BY <1>1, Starts DEF BeginDestroy, BeginRebuild, Idle, Marked, deploying, TurnInv
<1>2. CASE EndDestroy \/ DestroyFailed \/ DeployRefused
    BY <1>2, DestroyEnds DEF EndDestroy, DestroyFailed, DeployRefused, Close, Marked,
        deploying, TurnInv
<1>3. CASE BeginDeploy
    BY <1>3, Starts DEF BeginDeploy, Idle, Followed, destroying, TurnInv
<1>4. CASE EndDeploy \/ EndRebuild
    BY <1>4, DeployEnds DEF EndDeploy, EndRebuild, Close, Followed, destroying, TurnInv
<1>5. CASE DestroyStep
  <2>1. Destroying
    BY <1>5 DEF DestroyStep, Destroying
  <2> QED BY <1>5, <2>1, DestroyGoesOn DEF DestroyStep, Marked, deploying, TurnInv
<1>6. CASE DeployStep
  <2>1. Deploying
    BY <1>6 DEF DeployStep, Deploying
  <2> QED BY <1>6, <2>1, DeployGoesOn DEF DeployStep, Followed, destroying, rebuilding,
              TurnInv
<1>7. CASE Destroyed
    BY <1>7, DestroyEnds, Starts DEF Destroyed, TurnInv
<1>8. CASE Crash
    BY <1>8, DestroyEnds, DeployEnds DEF Crash, Close, Marked, Followed, deploying,
        destroying, TurnInv
<1>9. CASE UNCHANGED vars
    BY <1>9 DEF vars, destroyVars, deployVars, rebuilding, TurnInv
<1> QED BY <1>1, <1>2, <1>3, <1>4, <1>5, <1>6, <1>7, <1>8, <1>9 DEF Next

-----------------------------------------------------------------------------
(* Each half keeps what the other relies on                                   *)

\* A module run of the deploy is the Deploy of BlueprintDestroy.
LEMMA FollowedIsDeploy ==
    ASSUME DestroyTypeOK, PlaceInv, TurnInv, Followed
    PROVE  [DestroyNext]_destroyVars
<1>1. CASE UNCHANGED <<marker, live>>
    BY <1>1 DEF Followed, destroying, destroyVars, tally, destroyHistory
<1>2. CASE ~UNCHANGED <<marker, live>>
  <2>1. deployPc = "run" /\ Ran
    BY <1>2 DEF Followed
  <2>2. destroyPc = "idle" /\ deployAt \in Steps
    BY <2>1 DEF TurnInv, PlaceInv, Stepping
  <2>3. marker' = [marker EXCEPT ![deployAt] = "standing"]
    <3>1. CASE marker' = marker
      <4>1. marker[deployAt] = "standing"
        BY <1>2, <2>1, <3>1 DEF Ran
      <4> QED BY <2>2, <3>1, <4>1 DEF DestroyTypeOK
    <3> QED BY <2>1, <3>1 DEF Ran
  <2>4. \/ UNCHANGED live
        \/ Parent[deployAt] \in live \cup {0} /\ live' = live \cup {deployAt}
    BY <2>1 DEF Ran
  <2>5. Deploy(deployAt)
    BY <2>2, <2>3, <2>4 DEF Deploy, Followed, destroying
  <2> QED BY <2>2, <2>5 DEF DestroyNext
<1> QED BY <1>1, <1>2

\* Seen from the destroy every step is one of its own, or changes nothing.
LEMMA DestroyTurn ==
    DestroyTypeOK /\ PlaceInv /\ TurnInv /\ [Next]_vars => [DestroyNext]_destroyVars
<1> SUFFICES ASSUME DestroyTypeOK, PlaceInv, TurnInv,
                    [Next]_vars
             PROVE  [DestroyNext]_destroyVars
    OBVIOUS
<1>1. CASE UNCHANGED vars
    BY <1>1 DEF vars
<1>2. CASE Next
    BY <1>2, Kinds, FollowedIsDeploy DEF DestroyNext, Destroying, Destroyed
<1> QED BY <1>1, <1>2

\* Seen from the deploy every step is one of its own, or takes good states away
\* while no deploy runs.
LEMMA DeployTurn ==
    TurnInv /\ [Next]_vars => [DeployNext]_deployVars \/ (deployPc = "idle" /\ Marked)
<1> SUFFICES ASSUME TurnInv, Next PROVE DeployNext \/ (deployPc = "idle" /\ Marked)
    BY DEF vars
<1>1. CASE BeginDestroy \/ BeginRebuild
    BY <1>1 DEF BeginDestroy, BeginRebuild, Idle, TurnInv
<1>2. CASE EndDestroy \/ DestroyFailed \/ DeployRefused
    BY <1>2, DestroyEnds DEF EndDestroy, DestroyFailed, DeployRefused, TurnInv
<1>3. CASE DestroyStep
    BY <1>3, DestroyGoesOn DEF DestroyStep, Destroying, TurnInv
<1>4. CASE BeginDeploy \/ EndDeploy \/ DeployStep \/ EndRebuild \/ Destroyed
    BY <1>4 DEF BeginDeploy, EndDeploy, DeployStep, EndRebuild, Destroyed, DeployNext
<1>5. CASE Crash
    BY <1>5, DestroyEnds DEF Crash, TurnInv, DeployNext
<1> QED BY <1>1, <1>2, <1>3, <1>4, <1>5 DEF Next

\* A destroy takes good states away from under no deploy.
LEMMA MarkedKeeps ==
    ASSUME DeployHalf, deployPc = "idle", Marked
    PROVE  DeployHalf'
<1> USE DEF DeployHalf, Marked, deploying, memory, forecast, deployHistory
<1>1. /\ UNCHANGED <<built, wanted, authority, deployPc, deployAt, seen, rc, repaired,
                     result>>
      /\ UNCHANGED <<receipts, unrestored, last, plan, found, broken, denied>>
    OBVIOUS
<1>2. okay' \in SUBSET Steps
    BY DEF DeployTypeOK
<1>3. DeployTypeOK'
    BY <1>1, <1>2 DEF DeployTypeOK
<1>4. PlaceInv' /\ LoopInv'
    BY <1>1 DEF PlaceInv, LoopInv, RequiredFailures, Cancelled
<1>5. ForecastInv'
    BY <1>1 DEF ForecastInv, PlaceInv, Stepping
<1> QED BY <1>3, <1>4, <1>5

\* The invariants proved of each half by itself survive the composition.
LEMMA HalvesStep ==
    DestroyHalf /\ DeployHalf /\ TurnInv /\ [Next]_vars => DestroyHalf' /\ DeployHalf'
<1> SUFFICES ASSUME DestroyHalf, DeployHalf, TurnInv, [Next]_vars
             PROVE  DestroyHalf' /\ DeployHalf'
    OBVIOUS
<1>1. DestroyHalf'
    BY DestroyTurn, DestroyTypeStep, InsideStep, MarkedStep, FinishStep, LostStep, ExcusedStep
        DEF DestroyHalf, DeployHalf
<1>2. CASE [DeployNext]_deployVars
    BY <1>1, <1>2, DeployTypeStep, PlaceStep, LoopInvStep, ForecastStep DEF DeployHalf
<1>3. CASE deployPc = "idle" /\ Marked
    BY <1>1, <1>3, MarkedKeeps
<1> QED BY <1>2, <1>3, DeployTurn

-----------------------------------------------------------------------------
(* What passes between the halves                                             *)

\* A deploy makes a state good where a module runs, and nowhere else.
LEMMA OkayComesByRun ==
    ASSUME SkipPreflight \/ Deploying \/ ConcludeDeploy \/ RecordFails \/ CrashDeploy
    PROVE  \/ okay' = okay
           \/ deployPc = "run" /\ \A s \in okay' : s \in okay \/ s = deployAt
<1>1. ASSUME Fall \/ Publish PROVE \A s \in okay' : s \in okay \/ s = deployAt
    BY <1>1 DEF Fall, Publish, states
<1>2. CASE SkipPreflight \/ RestoreDone \/ RestoreFails \/ ConcludeDeploy \/ RecordFails
    BY <1>2 DEF SkipPreflight, RestoreDone, RestoreFails, ConcludeDeploy, RecordFails, states
<1>3. CASE Admit \/ Contract \/ AdmissionFails \/ NoSkip
    BY <1>3 DEF Admit, Contract, AdmissionFails, NoSkip, states
<1>4. CASE Skip \/ VerificationFails \/ Complete
    BY <1>4 DEF Skip, VerificationFails, Complete, states
<1>5. CASE RunSucceeds \/ RunFails \/ Repair
    BY <1>1, <1>5 DEF RunSucceeds, RunFails, Repair
<1>6. CASE CrashDeploy
    BY <1>1, <1>6 DEF CrashDeploy, states
<1> QED BY <1>2, <1>3, <1>4, <1>5, <1>6 DEF Deploying, StepAction

\* The resources only grow in a deploy, and a state it has made good has a marker
\* and is over resources.
LEMMA FollowedShares ==
    ASSUME DestroyTypeOK, DeployTypeOK, Followed,
           SkipPreflight \/ Deploying \/ ConcludeDeploy \/ RecordFails \/ CrashDeploy
    PROVE  /\ live \subseteq live'
           /\ \A s \in okay' : s \in okay \/ (s \in live' /\ marker'[s] = "standing")
           /\ \A s \in Steps : marker[s] = "standing" => marker'[s] = "standing"
<1>1. CASE deployPc = "run"
  <2>1. Ran
    BY <1>1 DEF Followed
  <2>2. live \subseteq live'
    BY <2>1 DEF Ran
  <2>3. ASSUME NEW s \in okay', s \notin okay PROVE s \in live' /\ marker'[s] = "standing"
    BY <2>1, <2>3, OkayComesByRun DEF Ran
  <2>4. \A s \in Steps : marker[s] = "standing" => marker'[s] = "standing"
    BY <2>1 DEF Ran, DestroyTypeOK
  <2> QED BY <2>2, <2>3, <2>4
<1>2. CASE deployPc # "run"
    BY <1>2, OkayComesByRun DEF Followed
<1> QED BY <1>1, <1>2

\* A destroy never takes the resources of a retained step.
LEMMA RetainedStays ==
    ASSUME Destroying, NEW s \in Retained \cap live
    PROVE  s \in live'
<1>1. CASE DestroySucceeds \/ DestroyFails \/ DestroyCancelled
  <2>1. Due(destroyAt) /\ destroyAt # 0
    BY <1>1 DEF DestroySucceeds, DestroyFails, DestroyCancelled
  <2>2. UNCHANGED live \/ live' = live \ Taken(destroyAt)
    BY <1>1 DEF DestroySucceeds, DestroyFails, DestroyCancelled, Attempt, Remove, world
  <2> QED BY <2>1, <2>2, ParentAssumption, DestroyAssumption DEF Due, Passed, Taken, Children
<1>2. CASE Proceed \/ ArchiveVerified \/ Bypass \/ SkipNoState \/ SkipDestroyed \/ Defer
    BY <1>2 DEF Proceed, ArchiveVerified, Bypass, SkipNoState, SkipDestroyed, Defer, world
<1>3. CASE Finished \/ \E c \in Steps : MarkChild(c) \/ MarkChildFails(c)
    BY <1>3 DEF Finished, MarkChild, MarkChildFails, world
<1> QED BY <1>1, <1>2, <1>3 DEF Destroying, LoopStep

\* A destroy that returns 0 hands a rebuild steps that it has removed, but for
\* those it retains, bypassed in its mode, or has reported.
LEMMA HandedOver ==
    ASSUME DestroyTypeOK, MarkedGone, FinishInv, AccountInv, ModeInv, StandsInv, RetainedInv,
           command = "rebuild", ConcludeDestroy, record'.status = "ok",
           NEW s \in Steps, s \notin excused, s \notin Told
    PROVE  /\ s \in okay => s \in live
           /\ s \in live => s \in Retained
<1>1. mode = RebuildMode
    BY DEF ModeInv, ConcludeDestroy, Looping
<1>2. DestroyOutcome = "ok"
    BY DEF ConcludeDestroy, Write
<1>3. marker[s] \notin Gone => s \in Retained
    BY <1>1, <1>2, OkAccounted DEF Kept, Told
<1>4. s \in live => s \in Retained
    BY <1>3 DEF MarkedGone
<1>5. s \in okay => marker[s] \notin Gone
    BY DEF StandsInv, Gone
<1> QED BY <1>3, <1>4, <1>5 DEF RetainedInv

\* Every step leaves what passes between the halves in order.
LEMMA SharedStep ==
    DestroyHalf /\ DeployHalf /\ StandsInv /\ RetainedInv /\ [Next]_vars
    => StandsInv' /\ RetainedInv'
<1> SUFFICES ASSUME DestroyHalf, DeployHalf, StandsInv, RetainedInv, [Next]_vars
             PROVE  StandsInv' /\ RetainedInv'
    OBVIOUS
<1>1. DestroyTypeOK /\ DeployTypeOK /\ okay \in SUBSET Steps
    BY DEF DestroyHalf, DeployHalf, DeployTypeOK
<1>2. CASE /\ StartDestroy \/ Decline \/ ArchiveFails \/ ConcludeDestroy \/ CrashDestroy
           /\ Marked
  <2>1. UNCHANGED <<marker, live>>
    BY <1>2, Starts, DestroyEnds
  <2> QED BY <1>2, <2>1 DEF Marked, StandsInv, RetainedInv
<1>3. CASE Destroying /\ Marked
    BY <1>3, RetainedStays DEF Marked, StandsInv, RetainedInv
<1>4. CASE /\ SkipPreflight \/ Deploying \/ ConcludeDeploy \/ RecordFails \/ CrashDeploy
           /\ Followed
  <2>1. /\ live \subseteq live'
        /\ \A s \in okay' : s \in okay \/ (s \in live' /\ marker'[s] = "standing")
        /\ \A s \in Steps : marker[s] = "standing" => marker'[s] = "standing"
    BY <1>1, <1>4, FollowedShares
  <2> QED BY <1>1, <2>1 DEF StandsInv, RetainedInv
<1>5. CASE Destroyed
  <2>1. UNCHANGED <<marker, live, okay>>
    BY <1>5, Starts, DestroyEnds DEF Destroyed
  <2> QED BY <2>1 DEF StandsInv, RetainedInv
<1>6. CASE UNCHANGED vars
    BY <1>6 DEF vars, destroyVars, deployVars, StandsInv, RetainedInv
<1> QED BY <1>2, <1>3, <1>4, <1>5, <1>6, Kinds

\* What a rebuild keeps in mind is of this blueprint, and of resources that are
\* still there.
LEMMA OwnStep ==
    DestroyHalf /\ DeployHalf /\ OwnInv /\ [Next]_vars => OwnInv'
<1> SUFFICES ASSUME DestroyHalf, DeployHalf, OwnInv, [Next]_vars PROVE OwnInv'
    OBVIOUS
<1>1. DestroyTypeOK /\ DeployTypeOK /\ excused \in SUBSET Optional
    BY DEF DestroyHalf, DeployHalf, ExcusedInv
<1>2. CASE BeginDestroy \/ BeginRebuild
  <2>1. UNCHANGED live
    BY <1>2, Starts DEF BeginDestroy, BeginRebuild
  <2> QED BY <1>2, <2>1 DEF BeginDestroy, BeginRebuild, OwnInv
<1>3. CASE EndDestroy
  <2>1. UNCHANGED live
    BY <1>3, DestroyEnds DEF EndDestroy
  <2> QED BY <1>3, <2>1 DEF EndDestroy, OwnInv
<1>4. CASE BeginDeploy \/ EndDeploy \/ DeployStep
  <2>1. live \subseteq live'
    BY <1>1, <1>4, FollowedShares DEF BeginDeploy, EndDeploy, DeployStep, Deploying
  <2> QED BY <1>4, <2>1 DEF BeginDeploy, EndDeploy, DeployStep, rebuilding, OwnInv
<1>5. CASE DestroyStep
    BY <1>5 DEF DestroyStep, OwnInv
<1>6. CASE DestroyFailed \/ DeployRefused \/ EndRebuild \/ Crash
    BY <1>6 DEF DestroyFailed, DeployRefused, EndRebuild, Crash, Close, OwnInv
<1>7. CASE Destroyed
  <2>1. UNCHANGED live
    BY <1>7, DestroyEnds DEF Destroyed
  <2> QED BY <1>1, <1>7, <2>1 DEF Destroyed, OwnInv
<1>8. CASE UNCHANGED vars
    BY <1>8 DEF vars, destroyVars, rebuilding, OwnInv
<1> QED BY <1>2, <1>3, <1>4, <1>5, <1>6, <1>7, <1>8 DEF Next

\* The mode of a rebuild's destroy is the one it has been given.
LEMMA ModeStep == TurnInv /\ ModeInv /\ [Next]_vars => ModeInv'
<1> SUFFICES ASSUME TurnInv, ModeInv, [Next]_vars PROVE ModeInv'
    OBVIOUS
<1>1. CASE BeginDestroy \/ BeginRebuild
    BY <1>1, Starts DEF BeginDestroy, BeginRebuild, ModeInv, Looping
<1>2. CASE EndDestroy \/ DestroyFailed \/ Destroyed \/ DeployRefused
    BY <1>2, DestroyEnds DEF EndDestroy, DestroyFailed, Destroyed, DeployRefused, ModeInv,
        Looping
<1>3. CASE BeginDeploy \/ EndDeploy \/ EndRebuild \/ Crash
    BY <1>3 DEF BeginDeploy, EndDeploy, EndRebuild, Crash, Close, ModeInv
<1>4. CASE DestroyStep
  <2>1. CASE Proceed /\ (command = "rebuild" => mode' = RebuildMode)
    BY <1>4, <2>1 DEF DestroyStep, ModeInv, RebuildMode
  <2>2. CASE ArchiveVerified \/ LoopStep
    BY <1>4, <2>2, DestroyModeStays DEF DestroyStep, ModeInv, RebuildMode
  <2> QED BY <1>4, <2>1, <2>2 DEF DestroyStep
<1>5. CASE DeployStep
    BY <1>5 DEF DeployStep, Followed, destroying, rebuilding, ModeInv, RebuildMode
<1>6. CASE UNCHANGED vars
    BY <1>6 DEF vars, destroyVars, rebuilding, ModeInv, RebuildMode
<1> QED BY <1>1, <1>2, <1>3, <1>4, <1>5, <1>6 DEF Next

\* While the deploy of a rebuild runs, it is over what its destroy has handed it.
LEMMA RenewedStep ==
    RebuildInv /\ AccountInv /\ ModeInv /\ RenewedInv /\ [Next]_vars => RenewedInv'
<1> SUFFICES ASSUME DestroyHalf, DeployHalf, TurnInv, OwnInv, StandsInv, RetainedInv,
                    AccountInv, ModeInv, RenewedInv, [Next]_vars
             PROVE  RenewedInv'
    BY DEF RebuildInv
<1>1. DestroyTypeOK /\ DeployTypeOK /\ MarkedGone /\ FinishInv
    BY DEF DestroyHalf, DeployHalf
<1>2. CASE BeginDestroy \/ BeginRebuild
    BY <1>2 DEF BeginDestroy, BeginRebuild, Idle, Marked, deploying, TurnInv, RenewedInv
<1>3. CASE EndDestroy \/ DestroyFailed \/ DeployRefused \/ BeginDeploy \/ EndDeploy
           \/ EndRebuild \/ Crash
    BY <1>3 DEF EndDestroy, DestroyFailed, DeployRefused, BeginDeploy, EndDeploy, EndRebuild,
        Crash, Close, RenewedInv
<1>4. CASE DestroyStep
  <2>1. deployPc = "idle"
    BY <1>4, DestroyGoesOn DEF DestroyStep, Destroying, TurnInv
  <2> QED BY <1>4, <2>1 DEF DestroyStep, Marked, deploying, RenewedInv
<1>5. CASE DeployStep
  <2>1. Deploying /\ Followed
    BY <1>5 DEF DeployStep, Deploying
  <2>2. /\ live \subseteq live'
        /\ \A s \in okay' : s \in okay \/ s \in live'
    BY <1>1, <2>1, FollowedShares
  <2>3. deployPc # "idle"
    BY <2>1, DeployGoesOn
  <2> QED BY <1>5, <2>2, <2>3 DEF DeployStep, rebuilding, Told, RebuildMode, RenewedInv
<1>6. CASE Destroyed
  <2>1. ConcludeDestroy /\ record'.status = "ok" /\ command = "rebuild"
    BY <1>6 DEF Destroyed
  <2>2. /\ UNCHANGED <<live, okay, old, command>>
        /\ spared' = excused
    BY <1>6, DestroyEnds, Starts DEF Destroyed
  <2>3. \A s \in Steps \ (excused \cup Told) :
            /\ s \in okay => s \in live
            /\ s \in live => s \in Retained
    BY <1>1, <2>1, HandedOver
  <2>4. old \subseteq live
    BY DEF OwnInv
  <2> QED BY <2>2, <2>3, <2>4 DEF RenewedInv, Told, RebuildMode
<1>7. CASE UNCHANGED vars
    BY <1>7 DEF vars, destroyVars, deployVars, rebuilding, RenewedInv, Told, RebuildMode
<1> QED BY <1>2, <1>3, <1>4, <1>5, <1>6, <1>7 DEF Next

-----------------------------------------------------------------------------
(* The results                                                                *)

\* At first neither half runs and there are no good states.
LEMMA RebuildInitInv ==
    Init => RebuildInv /\ ModeInv /\ RenewedInv
<1> SUFFICES ASSUME Init PROVE RebuildInv /\ ModeInv /\ RenewedInv
    OBVIOUS
<1>1. DestroyHalf
  <2>1. ExcusedInv
    BY DEF Init, DestroyInit, ExcusedInv
  <2> QED BY <2>1, DestroyInitInv DEF Init, DestroyHalf
<1>2. DeployHalf
    BY DeployInitInv DEF Init, DeployHalf
<1>3. TurnInv /\ OwnInv /\ StandsInv /\ RetainedInv /\ ModeInv /\ RenewedInv
    BY DEF Init, DestroyInit, DeployInit, TurnInv, OwnInv, StandsInv, RetainedInv, ModeInv,
        RenewedInv
<1> QED BY <1>1, <1>2, <1>3 DEF RebuildInv

\* The parts of the invariant rest on one another, on no assumption.
LEMMA RebuildInvStep == RebuildInv /\ [Next]_vars => RebuildInv'
    BY HalvesStep, TurnStep, OwnStep, SharedStep DEF RebuildInv

\* Type correctness of the rebuild, and no good state under a terminal marker.
THEOREM RebuildTypeCorrect == Spec => []TypeOK
<1>1. RebuildInv => TypeOK
    BY DEF RebuildInv, DestroyHalf, DeployHalf, OwnInv, StandsInv, TypeOK
<1> QED BY RebuildInitInv, RebuildInvStep, <1>1, PTL DEF Spec

\* The composition is a behaviour of the destroy: whatever is proved of destroys
\* with unspecified deploys between them holds of the rebuild.
THEOREM RebuildIsDestroy == Spec => ImplementsDestroy
<1>1. Init => DestroyInit
    BY DEF Init
<1>2. RebuildInv /\ [Next]_vars => [DestroyNext]_destroyVars
    BY DestroyTurn DEF RebuildInv, DestroyHalf, DeployHalf
<1> QED BY RebuildInitInv, RebuildInvStep, <1>1, <1>2, PTL DEF Spec, ImplementsDestroy,
            DestroySpec

\* In particular, however rebuilds, destroys, deploys and crashes follow one
\* another: a destroyed marker is over nothing that exists, nothing goes before the
\* archive that was chosen, and the records of the destroys are true.
THEOREM RebuildKeepsDestroy ==
    Spec => []MarkedGone /\ []ArchiveBeforeLoss /\ RecordIsTrue
BY RebuildIsDestroy, DestroyedIsGone, ArchiveFirst, RecordHolds, PTL DEF ImplementsDestroy

\* With readable state files a rebuild that says "ok" has made every step anew,
\* but for what it retains, bypassed or has reported, in every blueprint.
THEOREM RebuiltIsNew == ASSUME ~Misreads PROVE Spec => OkMeansRebuilt
<1> DEFINE IInv == RebuildInv /\ AccountInv /\ ModeInv /\ RenewedInv
<1> DEFINE Rebuilt ==
        (command = "rebuild" /\ command' = "none" /\ rebuilt' = "ok") =>
            \A s \in Steps \ (spared \cup Told) :
                \/ s \in live /\ s \in okay /\ (s \in old => s \in Retained)
                \/ s \in Optional /\ result[s] = "failed-optional"
<1>1. Init => IInv
    BY RebuildInitInv, DestroyInitInv DEF Init
<1>2. IInv /\ [Next]_vars => IInv'
  <2> SUFFICES ASSUME IInv, [Next]_vars PROVE IInv'
      OBVIOUS
  <2>1. RebuildInv' /\ ModeInv' /\ RenewedInv'
    BY RebuildInvStep, ModeStep, RenewedStep DEF RebuildInv
  <2>2. AccountInv'
    BY DestroyTurn, AccountStep DEF RebuildInv, DestroyHalf, DeployHalf
  <2> QED BY <2>1, <2>2
<1>3. IInv /\ [Next]_vars => [Rebuilt]_vars
  <2> SUFFICES ASSUME IInv, Next, command = "rebuild", command' = "none", rebuilt' = "ok",
                      NEW s \in Steps \ (spared \cup Told)
               PROVE  \/ s \in live /\ s \in okay /\ (s \in old => s \in Retained)
                      \/ s \in Optional /\ result[s] = "failed-optional"
      OBVIOUS
  <2>1. rebuilt = "running"
    BY DEF RebuildInv, TurnInv
  <2>2. EndRebuild /\ last'.status = "ok"
    BY <2>1 DEF Next, BeginDestroy, EndDestroy, BeginDeploy, EndDeploy, DestroyStep,
        DeployStep, BeginRebuild, DestroyFailed, Destroyed, DeployRefused, EndRebuild, Crash,
        Close, Idle, rebuilding
  <2>3. deployPc = "conclude" /\ DeployOutcome = "ok"
    BY <2>2 DEF EndRebuild, ConcludeDeploy, RecordFails, ReturnDeploy
  <2>4. \/ result[s] \in {"ok", "skipped"}
        \/ s \in Optional /\ result[s] = "failed-optional"
    BY <2>3, OkSettled DEF RebuildInv, DeployHalf
  <2>5. result[s] \in {"ok", "skipped"} => s \in okay
    BY DEF RebuildInv, DeployHalf, ForecastInv
  <2>6. /\ s \in okay => s \in live
        /\ s \in old => s \in Retained
    BY <2>3 DEF RenewedInv
  <2> QED BY <2>4, <2>5, <2>6
<1> QED BY <1>1, <1>2, <1>3, PTL DEF Spec, OkMeansRebuilt, Told
=============================================================================
