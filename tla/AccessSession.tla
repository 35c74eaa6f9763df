---------------------------- MODULE AccessSession ----------------------------
(* Time-bounded access sessions of one blueprint: the access commands that    *)
(* start and supervise a session (run_access), the protected release at its   *)
(* deadline (_expire_access_session), the operator commands that extend or    *)
(* cancel it (run_session), and the other commands that change the resources  *)
(* the session was authorised for.                                            *)
(*                                                                            *)
(* The lifecycle lock appears as what it promises, a single holder that a     *)
(* crash sets free; LifecycleLock says when that promise is kept.  A command  *)
(* that takes the lock reads the session file when it acquires it and writes  *)
(* its own copy back when it lets go: the two steps of every handler here.    *)
(* Only the exception handler of the release and blueprint deploy write       *)
(* without the lock.                                                          *)
EXTENDS Naturals

CONSTANTS
    Supervisors,    \* hyops blueprint access processes, one session each
    Operators,      \* terminals that run session, destroy, rebuild and deploy
    None,           \* nobody; also no session yet
    Duration,       \* seconds of a new session
    Extension,      \* seconds one extend adds
    MaxTime,        \* bound: the last instant of the clock
    MaxGeneration   \* bound: how often the module state is rewritten

ASSUME PartiesAssumption ==
    /\ Supervisors \cap Operators = {}
    /\ None \notin Supervisors \cup Operators
ASSUME BoundsAssumption ==
    /\ Duration \in Nat /\ Extension \in Nat
    /\ MaxTime \in Nat /\ MaxGeneration \in Nat

VARIABLES
    rec,        \* the session state file
    lock,       \* who holds the lifecycle lock
    generation, \* identity of the resources, _access_resource_generation
    now,        \* the clock
    pc,         \* where each process is
    mine,       \* the copy of the record each process is about to use or write
    cancelled,  \* history: sessions a cancel command reported as cancelled
    finished,   \* history: sessions whose record has been final
    raced,      \* history: sessions whose record a handler and a command wrote at once
    overtaken   \* history: sessions released while a deploy rewrote state

history == <<cancelled, finished, raced, overtaken>>
vars == <<rec, lock, generation, now, pc, mine, history>>

Parties == Supervisors \cup Operators

FinalStates == {"cancelled", "completed", "interrupted", "released",
                "retained-after-failure", "stale-generation"}
Statuses == {"active", "executing"} \cup FinalStates

\* A session is named after the access process that started it: the token that
\* makes the id unique and the supervisor's pid are one.
Record == [id : Supervisors \cup {None}, status : Statuses \cup {"none"},
           deadline : Nat, generation : Nat]
NoRecord == [id |-> None, status |-> "none", deadline |-> 0, generation |-> 0]

\* Where a supervisor holds the lock, and where the protected destroy runs.
SupervisorLocked == {"starting", "stale", "execute", "destroy", "settle", "closing"}
SupervisorSteps == {"new", "start", "watch", "decide", "expire", "handler", "overwrite",
                    "close", "wait", "gone"} \cup SupervisorLocked
OperatorLocked == {"write", "operation"}
OperatorSteps == {"ready"} \cup OperatorLocked
Locked == SupervisorLocked \cup OperatorLocked

TypeOK ==
    /\ rec \in Record
    /\ lock \in Parties \cup {None}
    /\ generation \in 0..MaxGeneration
    /\ now \in 0..MaxTime
    /\ pc \in [Parties -> SupervisorSteps \cup OperatorSteps]
    /\ \A s \in Supervisors : pc[s] \in SupervisorSteps
    /\ \A o \in Operators : pc[o] \in OperatorSteps
    /\ mine \in [Parties -> Record]
    /\ cancelled \in SUBSET Supervisors
    /\ finished \in SUBSET Supervisors
    /\ raced \in SUBSET Supervisors
    /\ overtaken \in SUBSET Supervisors

Init ==
    /\ rec = NoRecord
    /\ lock = None
    /\ generation = 0
    /\ now = 0
    /\ pc = [p \in Parties |-> IF p \in Supervisors THEN "new" ELSE "ready"]
    /\ mine = [p \in Parties |-> NoRecord]
    /\ cancelled = {}
    /\ finished = {}
    /\ raced = {}
    /\ overtaken = {}

-----------------------------------------------------------------------------

Goto(p, step) == pc' = [pc EXCEPT ![p] = step]
Remember(p, r) == mine' = [mine EXCEPT ![p] = r]
Forget(p) == Remember(p, NoRecord)

SupervisorRuns(s) == pc[s] # "gone"

\* effective_status: a record that is not final says what it says only while
\* its supervisor runs.
EffectiveStatus(r) ==
    IF r.status \in FinalStates \/ (r.id # None /\ SupervisorRuns(r.id))
    THEN r.status
    ELSE IF now >= r.deadline THEN "overdue-unsupervised" ELSE "unsupervised"

\* The release of the session's resources is under way.
Releasing(s) == pc[s] \in {"execute", "destroy"}

Acquire(p) == lock = None /\ lock' = p
Unlock(p) == lock = p /\ lock' = None

\* save_session: the whole record replaces the file.
Save(r) ==
    /\ rec' = r
    /\ finished' = IF r.status \in FinalStates THEN finished \cup {r.id} ELSE finished
SetStatus(r, status) == [r EXCEPT !.status = status]

-----------------------------------------------------------------------------
(* run_access: start and supervise *)

\* The module state is read before the lock is asked for.
ReadState(s) ==
    /\ pc[s] = "new"
    /\ Remember(s, [id |-> s, status |-> "active", deadline |-> 0,
                    generation |-> generation])
    /\ Goto(s, "start")
    /\ UNCHANGED <<rec, lock, generation, now, history>>

\* Mutant of StartSession: the lock alone decides.
StartSession_AnyStatus(s) ==
    /\ pc[s] = "start"
    /\ Acquire(s)
    /\ Remember(s, [mine[s] EXCEPT !.deadline = now + Duration])
    /\ Goto(s, "starting")
    /\ UNCHANGED <<rec, generation, now, history>>

StartSession(s) ==
    /\ pc[s] = "start"
    /\ EffectiveStatus(rec) \notin {"active", "executing"}
    /\ Acquire(s)
    /\ Remember(s, [mine[s] EXCEPT !.deadline = now + Duration])
    /\ Goto(s, "starting")
    /\ UNCHANGED <<rec, generation, now, history>>

\* LifecycleBusy, from the lock or from a supervised session.
StartRefused(s) ==
    /\ pc[s] = "start"
    /\ lock # None \/ EffectiveStatus(rec) \in {"active", "executing"}
    /\ Goto(s, "gone")
    /\ Forget(s)
    /\ UNCHANGED <<rec, lock, generation, now, history>>

SessionStarted(s) ==
    /\ pc[s] = "starting"
    /\ Save(mine[s])
    /\ Unlock(s)
    /\ Goto(s, "watch")
    /\ Forget(s)
    /\ UNCHANGED <<generation, now, cancelled, raced, overtaken>>

\* One turn of _wait_for_managed_access: reload the record; supervision ends
\* without expiry when another session replaced it or it is no longer active.
Watch(s) ==
    /\ pc[s] = "watch"
    /\ IF rec.id = s /\ rec.status = "active"
       THEN Remember(s, rec) /\ Goto(s, "decide")
       ELSE Goto(s, "wait") /\ UNCHANGED mine
    /\ UNCHANGED <<rec, lock, generation, now, history>>

\* The rest of the turn compares the loaded deadline with the clock.
Decide(s) ==
    /\ pc[s] = "decide"
    /\ Goto(s, IF now >= mine[s].deadline THEN "expire" ELSE "watch")
    /\ Forget(s)
    /\ UNCHANGED <<rec, lock, generation, now, history>>

\* The access process ends, or Ctrl-C, before the release has begun.
AccessEnds(s) ==
    /\ pc[s] \in {"watch", "decide", "expire"}
    /\ Goto(s, "close")
    /\ Forget(s)
    /\ UNCHANGED <<rec, lock, generation, now, history>>

\* _close_access_session does nothing when the lock is busy or the record is
\* not this active session.
CloseIgnored(s) ==
    /\ pc[s] = "close"
    /\ lock # None \/ rec.id # s \/ rec.status # "active"
    /\ Goto(s, "gone")
    /\ UNCHANGED <<rec, lock, generation, now, mine, history>>

Close(s) ==
    /\ pc[s] = "close"
    /\ rec.id = s /\ rec.status = "active"
    /\ Acquire(s)
    /\ \E status \in {"completed", "interrupted", "cancelled"} :
           Remember(s, SetStatus(rec, status))
    /\ Goto(s, "closing")
    /\ UNCHANGED <<rec, generation, now, history>>

\* The unsupervised wait ends with the access process: the record is no active
\* session of s any more, so the close that follows leaves it alone.
WaitEnds(s) ==
    /\ pc[s] = "wait"
    /\ Goto(s, "close")
    /\ UNCHANGED <<rec, lock, generation, now, mine, history>>

-----------------------------------------------------------------------------
(* _expire_access_session *)

\* Mutant of ExpireBusy: wait for the lock instead of LifecycleBusy.
ExpireBusy_Retries(s) ==
    /\ pc[s] = "expire"
    /\ lock # None
    /\ UNCHANGED vars

ExpireBusy(s) ==
    /\ pc[s] = "expire"
    /\ lock # None
    /\ Goto(s, "gone")
    /\ UNCHANGED <<rec, lock, generation, now, mine, history>>

\* ValueError inside the lock: the record changed or is no longer active.
ExpireRefused(s) ==
    /\ pc[s] = "expire"
    /\ lock = None
    /\ rec.id # s \/ rec.status # "active"
    /\ Goto(s, "handler")
    /\ UNCHANGED <<rec, lock, generation, now, mine, history>>

\* Mutant of Expire: the supervisor's own word that the session is active.
Expire_TrustsSupervisor(s) ==
    /\ pc[s] = "expire"
    /\ rec.id = s
    /\ Acquire(s)
    /\ IF generation = rec.generation
       THEN Remember(s, SetStatus(rec, "executing")) /\ Goto(s, "execute")
       ELSE Remember(s, SetStatus(rec, "stale-generation")) /\ Goto(s, "stale")
    /\ UNCHANGED <<rec, generation, now, history>>

\* Mutant of Expire: no comparison of generations.
Expire_AnyGeneration(s) ==
    /\ pc[s] = "expire"
    /\ rec.id = s /\ rec.status = "active"
    /\ Acquire(s)
    /\ Remember(s, SetStatus(rec, "executing"))
    /\ Goto(s, "execute")
    /\ UNCHANGED <<rec, generation, now, history>>

Expire(s) ==
    /\ pc[s] = "expire"
    /\ rec.id = s /\ rec.status = "active"
    /\ Acquire(s)
    /\ IF generation = rec.generation
       THEN Remember(s, SetStatus(rec, "executing")) /\ Goto(s, "execute")
       ELSE Remember(s, SetStatus(rec, "stale-generation")) /\ Goto(s, "stale")
    /\ UNCHANGED <<rec, generation, now, history>>

\* The record says executing, then run_destroy begins under the same lock.
Execute(s) ==
    /\ pc[s] = "execute"
    /\ Save(mine[s])
    /\ Goto(s, "destroy")
    /\ UNCHANGED <<lock, generation, now, mine, cancelled, raced, overtaken>>

\* run_destroy returns: its steps have rewritten the module state, or none has.
DestroyReturns(s) ==
    /\ pc[s] = "destroy"
    /\ generation' \in {generation} \cup {g \in {generation + 1} : g <= MaxGeneration}
    /\ \E status \in {"released", "retained-after-failure"} :
           Remember(s, SetStatus(mine[s], status))
    /\ Goto(s, "settle")
    /\ UNCHANGED <<rec, lock, now, history>>

\* An exception or Ctrl-C leaves the with block first, wherever it comes: as the
\* lock, the record or the module state is read, in a write, before or after it
\* has replaced the file, or in a destroy that has changed the state or not.
ReleaseRaises(s) ==
    /\ pc[s] \in {"expire", "stale", "execute", "destroy", "settle"}
    /\ \/ UNCHANGED <<rec, finished>>
       \/ pc[s] \in {"stale", "execute", "settle"} /\ Save(mine[s])
    /\ \/ UNCHANGED generation
       \/ pc[s] = "destroy" /\ generation < MaxGeneration /\ generation' = generation + 1
    /\ lock' = IF lock = s THEN None ELSE lock
    /\ \E step \in {"handler", "close"} : Goto(s, step)
    /\ Forget(s)
    /\ UNCHANGED <<now, cancelled, raced, overtaken>>

\* The last write of a handler that holds the lock.
Settle(s) ==
    /\ pc[s] \in {"settle", "stale", "closing"}
    /\ Save(mine[s])
    /\ Unlock(s)
    /\ Goto(s, "gone")
    /\ Forget(s)
    /\ UNCHANGED <<generation, now, cancelled, raced, overtaken>>

\* except Exception: outside the lock, whatever the status has become.
Handler(s) ==
    /\ pc[s] = "handler"
    /\ IF rec.id = s
       THEN Remember(s, SetStatus(rec, "retained-after-failure")) /\ Goto(s, "overwrite")
       ELSE Goto(s, "gone") /\ UNCHANGED mine
    /\ UNCHANGED <<rec, lock, generation, now, history>>

Overwrite(s) ==
    /\ pc[s] = "overwrite"
    /\ Save(mine[s])
    /\ raced' = IF \E o \in Operators : pc[o] = "write" /\ mine[o].id = s
                THEN raced \cup {s} ELSE raced
    /\ Goto(s, "gone")
    /\ Forget(s)
    /\ UNCHANGED <<lock, generation, now, cancelled, overtaken>>

\* The process is killed: the next command clears the lock it held.
Killed(s) ==
    /\ pc[s] # "gone"
    /\ lock' = IF lock = s THEN None ELSE lock
    /\ Goto(s, "gone")
    /\ Forget(s)
    /\ UNCHANGED <<rec, generation, now, history>>

-----------------------------------------------------------------------------
(* run_session, destroy, rebuild and deploy *)

\* session extend on a supervised active session of the current generation,
\* before its deadline.  MaxTime bounds the deadlines as it does the clock.
Extend(o) ==
    /\ pc[o] = "ready"
    /\ EffectiveStatus(rec) = "active"
    /\ generation = rec.generation
    /\ rec.deadline > now
    /\ rec.deadline + Extension <= MaxTime
    /\ Acquire(o)
    /\ Remember(o, [rec EXCEPT !.deadline = @ + Extension])
    /\ Goto(o, "write")
    /\ UNCHANGED <<rec, generation, now, history>>

ExtendFindsStale(o) ==
    /\ pc[o] = "ready"
    /\ EffectiveStatus(rec) = "active"
    /\ generation # rec.generation
    /\ Acquire(o)
    /\ Remember(o, SetStatus(rec, "stale-generation"))
    /\ Goto(o, "write")
    /\ UNCHANGED <<rec, generation, now, history>>

Cancel(o) ==
    /\ pc[o] = "ready"
    /\ rec.status = "active"
    /\ Acquire(o)
    /\ Remember(o, SetStatus(rec, "cancelled"))
    /\ Goto(o, "write")
    /\ UNCHANGED <<rec, generation, now, history>>

SessionWritten(o) ==
    /\ pc[o] = "write"
    /\ Save(mine[o])
    /\ cancelled' = IF mine[o].status = "cancelled" THEN cancelled \cup {mine[o].id} ELSE cancelled
    /\ Unlock(o)
    /\ Goto(o, "ready")
    /\ Forget(o)
    /\ UNCHANGED <<generation, now, raced, overtaken>>

\* blueprint destroy and rebuild hold the lock while module states change.
Lifecycle(o) ==
    /\ pc[o] = "ready"
    /\ Acquire(o)
    /\ Goto(o, "operation")
    /\ UNCHANGED <<rec, generation, now, mine, history>>

LifecycleStep(o) ==
    /\ pc[o] = "operation"
    /\ generation < MaxGeneration
    /\ generation' = generation + 1
    /\ UNCHANGED <<rec, lock, now, pc, mine, history>>

LifecycleEnds(o) ==
    /\ pc[o] = "operation"
    /\ Unlock(o)
    /\ Goto(o, "ready")
    /\ UNCHANGED <<rec, generation, now, mine, history>>

\* The command is killed or its write fails, before or after the file was
\* replaced; the terminal starts another one.
CommandFails(o) ==
    /\ pc[o] \in OperatorLocked
    /\ \/ UNCHANGED <<rec, finished>>
       \/ pc[o] = "write" /\ Save(mine[o])
    /\ Unlock(o)
    /\ Goto(o, "ready")
    /\ Forget(o)
    /\ UNCHANGED <<generation, now, cancelled, raced, overtaken>>

\* run_deploy, and the run of a single module, rewrite module state with no
\* lifecycle lock.
Deploy ==
    /\ generation < MaxGeneration
    /\ generation' = generation + 1
    /\ overtaken' = overtaken \cup {s \in Supervisors : Releasing(s)}
    /\ UNCHANGED <<rec, lock, now, pc, mine, cancelled, finished, raced>>

Tick ==
    /\ now < MaxTime
    /\ now' = now + 1
    /\ UNCHANGED <<rec, lock, generation, pc, mine, history>>

-----------------------------------------------------------------------------

\* What a running access process does of its own.
Supervise(s) ==
    \/ StartSession(s) \/ StartRefused(s) \/ SessionStarted(s)
    \/ Watch(s) \/ Decide(s) \/ CloseIgnored(s) \/ Close(s)
    \/ ExpireBusy(s) \/ ExpireRefused(s) \/ Expire(s) \/ Execute(s) \/ DestroyReturns(s)
    \/ Settle(s) \/ Handler(s) \/ Overwrite(s)

Supervisor(s) ==
    \/ ReadState(s) \/ Supervise(s) \/ AccessEnds(s) \/ WaitEnds(s)
    \/ ReleaseRaises(s) \/ Killed(s)

Operator(o) ==
    \/ Extend(o) \/ ExtendFindsStale(o) \/ Cancel(o) \/ SessionWritten(o)
    \/ Lifecycle(o) \/ LifecycleStep(o) \/ LifecycleEnds(o) \/ CommandFails(o)

Next ==
    \/ \E s \in Supervisors : Supervisor(s)
    \/ \E o \in Operators : Operator(o)
    \/ Deploy
    \/ Tick

Spec == Init /\ [][Next]_vars
FairSpec == Spec /\ \A s \in Supervisors : WF_vars(Supervise(s))

-----------------------------------------------------------------------------
(* Properties *)

\* The release that destroys resources never runs for a session an operator was
\* told is cancelled: it reloads the record under the lock.
CancelledNeverReleased == \A s \in cancelled : ~Releasing(s) /\ pc[s] # "settle"

\* A session that has ended is brought back by no copy of the record that a
\* process still holds, the file does not say active or executing again: but for
\* the command that had loaded the active record when the handler of the release,
\* which takes no lock, wrote over it, and then wrote its own.
FinishedNeverRevived == rec.id \in finished \ raced => rec.status \in FinalStates

\* What an operator was told of the end of a session stays so.
EndsHold == CancelledNeverReleased /\ FinishedNeverRevived

\* The resources a protected release takes down are the ones its session was
\* started for, unless a deploy, which takes no lock, remakes them meanwhile.
ReleaseOnAuthorisedGeneration == \A s \in Supervisors :
    Releasing(s) /\ s \notin overtaken => generation = mine[s].generation

\* A session does not sit past its deadline while its supervisor looks after
\* it.  A supervisor that finds the record of another session in the file stops
\* looking ("session supervision replaced; access remains open without expiry").
OverdueSessionSettles == \A s \in Supervisors :
    (rec.id = s /\ rec.status = "active" /\ now >= rec.deadline /\ pc[s] # "wait")
        ~> (rec.id # s \/ rec.status # "active" \/ now < rec.deadline \/ ~SupervisorRuns(s))

\* session extend moves the deadline: no release before it.  This does not hold
\* of the code, which does not look at the deadline again under the lock.
NoReleaseBeforeDeadline == \A s \in Supervisors :
    Releasing(s) => now >= mine[s].deadline

\* A cancelled session keeps that outcome.  This does not hold either.
CancelIsFinal == rec.id \in cancelled => rec.status = "cancelled"

\* "a supervised access session is already active for this blueprint": only the
\* exception handler of another session's release puts its record over one.
SupervisedSessionKept ==
    [][(EffectiveStatus(rec) \in {"active", "executing"} /\ rec'.id # rec.id) =>
          pc[rec'.id] = "overwrite"]_vars
=============================================================================
