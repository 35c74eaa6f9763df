-------------------------- MODULE MCLifecycleLock --------------------------
\* Model-checking instances of the lifecycle lock.
EXTENDS LifecycleLock, TLC

CONSTANTS p1, p2, p3, here, there

\* Two processes on one host and one on another host of the shared root.
TwoHosts == (p1 :> here) @@ (p2 :> here) @@ (p3 :> there)
\* Three processes of one host.
OneHost == [p \in Procs |-> here]

\* The two processes of one host are interchangeable.
Interchangeable == Permutations({p1, p2})
=============================================================================
