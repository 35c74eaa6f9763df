----------------------------- MODULE LockService -----------------------------
(* What the environment lifecycle lock promises the commands that take it: a  *)
(* single holder, which gives the lock back or loses it by its own end, until *)
(* the lock is broken, that is taken from under a holder.  From then on it    *)
(* promises nothing.  LifecycleLock implements it with files; AccessSession   *)
(* is written against it.                                                     *)
CONSTANT Procs

VARIABLES
    holders,    \* the processes that use the lock
    broken      \* a holder has been robbed

vars == <<holders, broken>>

Init == holders = {} /\ broken = FALSE

Enter(p) ==
    /\ holders = {} \/ broken
    /\ holders' = holders \cup {p}
    /\ UNCHANGED broken

Leave(p) ==
    /\ p \in holders
    /\ holders' = holders \ {p}
    /\ UNCHANGED broken

\* A process that uses the lock itself breaks nothing.
Break(p) ==
    /\ p \notin holders /\ holders # {}
    /\ broken' = TRUE
    /\ UNCHANGED holders

Next == \E p \in Procs : Enter(p) \/ Leave(p) \/ Break(p)

Spec == Init /\ [][Next]_vars
=============================================================================
