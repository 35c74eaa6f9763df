---------------------------- MODULE LifecycleLock ----------------------------
(* The environment lifecycle lock of hyops/blueprint/access_session.py: a     *)
(* directory made with mkdir(2) that holds owner.json, and the file-system    *)
(* calls each process makes to take it, to clear it when it looks stale and   *)
(* to give it back.  One call is one step, so the calls of two processes      *)
(* interleave as the operating system lets them.                              *)
(*                                                                            *)
(* A process is one hyops command.  Its token and its pid are both its name:  *)
(* a process may take the lock again only after its earlier attempt is over,  *)
(* and nobody else ever writes its token.                                     *)
EXTENDS Naturals

CONSTANTS
    Procs,      \* the hyops processes of the environment
    HostOf,     \* the host each process runs on (socket.gethostname)
    None,       \* no owner.json in the directory
    Suspends    \* a process may be held up for 30 seconds between two steps

ASSUME NoneAssumption == None \notin Procs
ASSUME SuspendsAssumption == Suspends \in BOOLEAN

VARIABLES
    pc,         \* where each process is in __enter__, the operation or __exit__
    tries,      \* mkdir calls made by the running attempt of each process
    judged,     \* the owner record each process read in _clear_stale
    dir,        \* the lock directory exists
    owner,      \* whose token owner.json holds, None when there is no file
    tmps,       \* processes with a temporary file of write_json_atomic in dir
    aged,       \* the directory's mtime is at least 30 seconds old
    breach,     \* history: a directory or an owner file was removed under the
                \* process that was using it
    staled      \* history: some attempt has judged a lock stale

vars == <<pc, tries, judged, dir, owner, tmps, aged, breach, staled>>
files == <<dir, owner, tmps, aged>>
history == <<breach, staled>>

MaxTries == 2

Ended    == {"exited", "crashed"}
Clearing == {"unlink", "rmdir"}
Asking   == {"mkdir", "judge", "probe"} \cup Clearing
Writing  == {"tmp", "replace", "sync", "undo"}
Giving   == {"free", "drop"}
\* From its own successful mkdir to its own rmdir, the directory is p's to use.
Claiming == Writing \cup {"held"} \cup Giving
Steps    == {"idle"} \cup Asking \cup Claiming \cup Ended

TypeOK ==
    /\ pc \in [Procs -> Steps]
    /\ tries \in [Procs -> 0..MaxTries]
    /\ judged \in [Procs -> Procs \cup {None}]
    /\ dir \in BOOLEAN
    /\ owner \in Procs \cup {None}
    /\ tmps \in SUBSET Procs
    /\ aged \in BOOLEAN
    /\ breach \in BOOLEAN
    /\ staled \in BOOLEAN

Init ==
    /\ pc = [p \in Procs |-> "idle"]
    /\ tries = [p \in Procs |-> 0]
    /\ judged = [p \in Procs |-> None]
    /\ dir = FALSE
    /\ owner = None
    /\ tmps = {}
    /\ aged = FALSE
    /\ breach = FALSE
    /\ staled = FALSE

Goto(p, step) == pc' = [pc EXCEPT ![p] = step]

UsedByAnother(p) == \E q \in Procs \ {p} : pc[q] \in Claiming

\* Path.rmdir: it fails on a missing directory and on one with entries.
CanRmdir == dir /\ owner = None /\ tmps = {}
Rmdir(p) ==
    /\ CanRmdir
    /\ dir' = FALSE
    /\ aged' = FALSE
    /\ breach' = (breach \/ UsedByAnother(p))
    /\ UNCHANGED <<owner, tmps>>

\* Path.unlink(missing_ok=True) of owner.json.
Unlink(p) ==
    /\ owner' = None
    /\ aged' = (aged /\ owner = None)
    /\ breach' = (breach \/ \E q \in Procs \ {p} : owner = q /\ pc[q] \in Claiming)
    /\ UNCHANGED <<dir, tmps>>

-----------------------------------------------------------------------------
(* __enter__ *)

Begin(p) ==
    /\ pc[p] = "idle"
    /\ Goto(p, "mkdir")
    /\ tries' = [tries EXCEPT ![p] = 0]
    /\ UNCHANGED <<judged, files, history>>

\* Mutant of Mkdir: mkdir(exist_ok=True), as for the parent directory.
Mkdir_ExistOk(p) ==
    /\ pc[p] = "mkdir"
    /\ tries[p] < MaxTries
    /\ tries' = [tries EXCEPT ![p] = @ + 1]
    /\ dir' = TRUE
    /\ aged' = FALSE
    /\ Goto(p, "tmp")
    /\ UNCHANGED <<judged, owner, tmps, history>>

Mkdir(p) ==
    /\ pc[p] = "mkdir"
    /\ tries[p] < MaxTries
    /\ tries' = [tries EXCEPT ![p] = @ + 1]
    /\ \/ /\ ~dir
          /\ dir' = TRUE
          /\ aged' = FALSE
          /\ Goto(p, "tmp")
       \/ /\ dir
          /\ UNCHANGED <<dir, aged>>
          /\ Goto(p, "judge")
    /\ UNCHANGED <<judged, owner, tmps, history>>

GiveUp(p) ==
    /\ pc[p] = "mkdir"
    /\ tries[p] = MaxTries
    /\ Goto(p, "idle")
    /\ UNCHANGED <<tries, judged, files, history>>

\* write_json_atomic: the parent directory is made again if it has gone, and a
\* temporary file is made in it.
MakeTemp(p) ==
    /\ pc[p] = "tmp"
    /\ dir' = TRUE
    /\ tmps' = tmps \cup {p}
    /\ aged' = FALSE
    /\ Goto(p, "replace")
    /\ UNCHANGED <<tries, judged, owner, history>>

Replace(p) ==
    /\ pc[p] = "replace"
    /\ owner' = p
    /\ tmps' = tmps \ {p}
    /\ aged' = FALSE
    /\ Goto(p, "sync")
    /\ UNCHANGED <<tries, judged, dir, history>>

Sync(p) ==
    /\ pc[p] = "sync"
    /\ Goto(p, "held")
    /\ UNCHANGED <<tries, judged, files, history>>

\* Any call of the write may fail (a full disk, an fsync error); the finally
\* clause removes the temporary file.  owner.json stays when the failure comes
\* after os.replace.
WriteFails(p) ==
    /\ pc[p] \in {"tmp", "replace", "sync"}
    /\ tmps' = tmps \ {p}
    /\ aged' = (aged /\ p \notin tmps)
    /\ Goto(p, "undo")
    /\ UNCHANGED <<tries, judged, dir, owner, history>>

Undo(p) ==
    /\ pc[p] = "undo"
    /\ Rmdir(p) \/ (~CanRmdir /\ UNCHANGED <<files, breach>>)
    /\ Goto(p, "idle")
    /\ UNCHANGED <<tries, judged, staled>>

-----------------------------------------------------------------------------
(* _clear_stale *)

ReadOwner(p) ==
    /\ pc[p] = "judge"
    /\ judged' = [judged EXCEPT ![p] = owner]
    /\ Goto(p, "probe")
    /\ UNCHANGED <<tries, files, history>>

\* An ownerless directory is stale by its age; an owner on this host is stale
\* when its pid no longer runs, whether it was killed or simply finished.
LooksStale(p) ==
    IF judged[p] = None
    THEN dir /\ aged
    ELSE HostOf[judged[p]] = HostOf[p] /\ pc[judged[p]] \in Ended

Probe(p) ==
    /\ pc[p] = "probe"
    /\ Goto(p, IF LooksStale(p) THEN "unlink" ELSE "idle")
    /\ staled' = (staled \/ LooksStale(p))
    /\ UNCHANGED <<tries, judged, files, breach>>

ClearOwner(p) ==
    /\ pc[p] = "unlink"
    /\ Unlink(p)
    /\ Goto(p, "rmdir")
    /\ UNCHANGED <<tries, judged, staled>>

ClearDir(p) ==
    /\ pc[p] = "rmdir"
    /\ \/ Rmdir(p) /\ Goto(p, "mkdir")
       \/ ~CanRmdir /\ Goto(p, "idle") /\ UNCHANGED <<files, breach>>
    /\ UNCHANGED <<tries, judged, staled>>

-----------------------------------------------------------------------------
(* __exit__ *)

Release(p) ==
    /\ pc[p] = "held"
    /\ Goto(p, IF owner = p THEN "free" ELSE "idle")
    /\ UNCHANGED <<tries, judged, files, history>>

\* Mutant of FreeOwner: __exit__ removes the record and not the directory.
FreeOwner_KeepsDirectory(p) ==
    /\ pc[p] = "free"
    /\ Unlink(p)
    /\ Goto(p, "idle")
    /\ UNCHANGED <<tries, judged, staled>>

FreeOwner(p) ==
    /\ pc[p] = "free"
    /\ Unlink(p)
    /\ Goto(p, "drop")
    /\ UNCHANGED <<tries, judged, staled>>

FreeDir(p) ==
    /\ pc[p] = "drop"
    /\ Rmdir(p) \/ (~CanRmdir /\ UNCHANGED <<files, breach>>)
    /\ Goto(p, "idle")
    /\ UNCHANGED <<tries, judged, staled>>

-----------------------------------------------------------------------------
(* The operating system *)

Exit(p) ==
    /\ pc[p] = "idle"
    /\ Goto(p, "exited")
    /\ UNCHANGED <<tries, judged, files, history>>

\* SIGKILL, a power cut: nothing of the process runs any more, its files stay.
Crash(p) ==
    /\ pc[p] \notin Ended
    /\ Goto(p, "crashed")
    /\ UNCHANGED <<tries, judged, files, history>>

Age ==
    /\ Suspends
    /\ dir
    /\ ~aged
    /\ aged' = TRUE
    /\ UNCHANGED <<pc, tries, judged, dir, owner, tmps, history>>

\* The steps of an attempt in progress: the process runs on by itself.
Attempt(p) ==
    \/ Mkdir(p) \/ GiveUp(p) \/ MakeTemp(p) \/ Replace(p) \/ Sync(p) \/ Undo(p)
    \/ ReadOwner(p) \/ Probe(p) \/ ClearOwner(p) \/ ClearDir(p)
    \/ FreeOwner(p) \/ FreeDir(p)

Process(p) ==
    \/ Begin(p) \/ Attempt(p) \/ WriteFails(p) \/ Release(p) \/ Exit(p) \/ Crash(p)

Next == Age \/ \E p \in Procs : Process(p)

Spec == Init /\ [][Next]_vars

-----------------------------------------------------------------------------
(* Properties *)

\* At most one process runs a lifecycle operation: what the lock is for
\* (LifecycleBusy, "Raised when another lifecycle operation owns the
\* environment lock.").  It does not hold without the exception of the next.
MutualExclusion == \A p, q \in Procs : pc[p] = "held" /\ pc[q] = "held" => p = q

\* As long as no process has lost its directory or its owner file to another
\* one, a single process is between its mkdir and its rmdir.
ExclusiveUntilBreach ==
    ~breach => \A p, q \in Procs : pc[p] \in Claiming /\ pc[q] \in Claiming => p = q

\* The directory implements the lock the commands count on: only mkdir enters,
\* one process at a time until somebody is robbed, only a process that holds
\* nothing itself robs another, and nobody leaves but by __exit__, by a failed
\* write of owner.json or by dying.
Service == INSTANCE LockService
    WITH holders <- {p \in Procs : pc[p] \in Claiming}, broken <- breach
ImplementsLockService == Service!Spec

\* Nothing but _clear_stale can take the lock away from its holder: until the
\* first stale verdict no lock is breached, and a holder's token is in the file.
BreachNeedsStaleVerdict ==
    ~staled => /\ ~breach
               /\ \A p \in Procs : pc[p] = "held" => owner = p

\* When no process died in the middle, no directory without an owner is left
\* behind: such a directory would keep every operation out for 30 seconds.
NoOrphanDirectory ==
    (\A p \in Procs : pc[p] \in {"idle", "exited"}) => (dir => owner # None)
=============================================================================
