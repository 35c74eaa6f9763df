----------------------------- MODULE LabCapture -----------------------------
(* lab/migration.py:capture_existing_lab for EVE-NG: lab definitions, node    *)
(* state and images of a running host are streamed into candidate files and   *)
(* moved over the output files.  Lab users start and stop nodes on the host   *)
(* as they like; captures to the same output are not kept apart.              *)
EXTENDS Naturals, Sequences

CONSTANTS
    Captures,  \* runs of hyops lab migration capture; each happens once
    NoFile     \* no file

VARIABLES
    running,    \* stateful nodes run on the host (what pgrep finds)
    out,        \* the output files
    pc,         \* where each capture is
    forced,     \* --force
    wanted,     \* the parts asked for (--include-node-state, --include-images)
    scripted,   \* --quiesce-script; otherwise --guest-quiesced
    candidate,  \* the candidate files of each capture
    stirred,    \* nodes have been started since the stream's own check
    moved,      \* history: the parts each capture has moved to the output
    overlap     \* history: two captures were under way at once

vars == <<running, out, pc, forced, wanted, scripted, candidate, stirred, moved, overlap>>

Parts == {"primary", "node", "images"}

\* An archive: whose it is, whether nodes ran while it was read, and whether
\* they were started in the course of that.
Archive == [by : Captures, ran : BOOLEAN, started : BOOLEAN]
ASSUME NoFileAssumption == NoFile \notin Captures /\ NoFile \notin Archive
Files   == [Parts -> Archive \cup {NoFile}]
Empty   == [p \in Parts |-> NoFile]

StreamOrder == <<"primary", "node", "images">>

\* A plausible slip: the parts are published in the order they were read.
PublishOrder_AsRead == StreamOrder

PublishOrder == <<"node", "images", "primary">>

Before == {"assess", "quiesce", "wait", "stream", "read", "verify"}
Active == Before \cup {"publish", "cleanup"}
Ended  == {"refused", "ended", "killed"}

TypeOK ==
    /\ running \in BOOLEAN
    /\ out \in Files
    /\ pc \in [Captures -> {"idle"} \cup Active \cup Ended]
    /\ forced \in [Captures -> BOOLEAN]
    /\ wanted \in [Captures -> SUBSET Parts]
    /\ scripted \in [Captures -> BOOLEAN]
    /\ candidate \in [Captures -> Files]
    /\ stirred \in [Captures -> BOOLEAN]
    /\ moved \in [Captures -> SUBSET Parts]
    /\ overlap \in BOOLEAN

Init ==
    /\ running \in BOOLEAN
    /\ out = Empty
    /\ pc = [c \in Captures |-> "idle"]
    /\ forced \in [Captures -> BOOLEAN]
    /\ wanted \in [Captures -> {W \in SUBSET Parts : "primary" \in W}]
    /\ scripted \in {f \in [Captures -> BOOLEAN] : \A c \in Captures : f[c] => "node" \in wanted[c]}
    /\ candidate = [c \in Captures |-> Empty]
    /\ stirred = [c \in Captures |-> FALSE]
    /\ moved = [c \in Captures |-> {}]
    /\ overlap = FALSE

Goto(c, step) == pc' = [pc EXCEPT ![c] = step]
options == <<forced, wanted, scripted>>

\* The first part of an order that c wants and that is not done.
First(c, order, done) ==
    LET left == {i \in DOMAIN order : order[i] \in wanted[c] \ done}
    IN  order[CHOOSE i \in left : \A j \in left : i <= j]
Held(c) == {p \in Parts : candidate[c][p] # NoFile}

-----------------------------------------------------------------------------
(* The host                                                                   *)

StartNodes ==
    /\ running' = TRUE
    /\ stirred' = [c \in Captures |-> stirred[c] \/ pc[c] = "read"]
    /\ UNCHANGED <<out, pc, options, candidate, moved, overlap>>

StopNodes ==
    /\ running' = FALSE
    /\ UNCHANGED <<out, pc, options, candidate, stirred, moved, overlap>>

-----------------------------------------------------------------------------
(* Before the streams                                                         *)

\* _capture_candidate for each output: what exists is replaced with --force
\* only.
Begin(c) ==
    /\ pc[c] = "idle"
    /\ Goto(c, IF forced[c] \/ \A p \in wanted[c] : out[p] = NoFile
               THEN "assess" ELSE "refused")
    /\ overlap' = (overlap \/ \E d \in Captures : pc[d] \in Active)
    /\ UNCHANGED <<running, out, options, candidate, stirred, moved>>

\* The assessment script, which refuses running nodes unless a quiescence
\* script is to stop them, and the check of the capacity.
Assess(c) ==
    /\ pc[c] = "assess"
    /\ \/ scripted[c] /\ Goto(c, "quiesce")
       \/ ~scripted[c] /\ ~running /\ Goto(c, "stream")
    /\ UNCHANGED <<running, out, options, candidate, stirred, moved, overlap>>

\* The operator's script returned 0; what it left running is waited for.
Quiesce(c) ==
    /\ pc[c] = "quiesce"
    /\ running' \in {running, FALSE}
    /\ Goto(c, "wait")
    /\ UNCHANGED <<out, options, candidate, stirred, moved, overlap>>

Quiet(c) ==
    /\ pc[c] = "wait"
    /\ ~running
    /\ Goto(c, "stream")
    /\ UNCHANGED <<running, out, options, candidate, stirred, moved, overlap>>

\* Whatever raises before anything is published: a script that fails, a wait
\* that runs into its deadline, nodes found running, a broken stream, an
\* archive that does not pass inspect_migration_archive.
Fails(c) ==
    /\ pc[c] \in Before
    /\ Goto(c, "cleanup")
    /\ UNCHANGED <<running, out, options, candidate, stirred, moved, overlap>>

-----------------------------------------------------------------------------
(* The streams                                                                *)

Streaming(c, p) ==
    pc[c] \in {"stream", "read"} /\ Held(c) # wanted[c] /\ p = First(c, StreamOrder, Held(c))

\* A plausible slip: the stream relies on the verdict before it.
Check_Trusting(c, p) ==
    /\ pc[c] = "stream" /\ Streaming(c, p)
    /\ stirred' = [stirred EXCEPT ![c] = FALSE]
    /\ Goto(c, "read")
    /\ UNCHANGED <<running, out, options, candidate, moved, overlap>>

\* The remote script of a stream looks for running nodes again, before tar;
\* the one for the images does not.
Check(c, p) ==
    /\ pc[c] = "stream" /\ Streaming(c, p)
    /\ p # "images" => ~running
    /\ stirred' = [stirred EXCEPT ![c] = FALSE]
    /\ Goto(c, "read")
    /\ UNCHANGED <<running, out, options, candidate, moved, overlap>>

\* tar has read the part to its end.
Read(c, p) ==
    /\ pc[c] = "read" /\ Streaming(c, p)
    /\ candidate' = [candidate EXCEPT ![c][p] =
                        [by |-> c, ran |-> running \/ stirred[c], started |-> stirred[c]]]
    /\ Goto(c, IF Held(c) \cup {p} = wanted[c] THEN "verify" ELSE "stream")
    /\ UNCHANGED <<running, out, options, stirred, moved, overlap>>

Verify(c) ==
    /\ pc[c] = "verify"
    /\ Goto(c, "publish")
    /\ UNCHANGED <<running, out, options, candidate, stirred, moved, overlap>>

-----------------------------------------------------------------------------
(* Publication                                                                *)

\* os.replace of the next candidate.
Move(c, p) ==
    /\ pc[c] = "publish" /\ moved[c] # wanted[c] /\ p = First(c, PublishOrder, moved[c])
    /\ out' = [out EXCEPT ![p] = candidate[c][p]]
    /\ candidate' = [candidate EXCEPT ![c][p] = NoFile]
    /\ moved' = [moved EXCEPT ![c] = @ \cup {p}]
    /\ UNCHANGED <<running, pc, options, stirred, overlap>>

\* All are moved, or an os.replace raised and the others stay what they were.
EndMoves(c) ==
    /\ pc[c] = "publish"
    /\ Goto(c, "cleanup")
    /\ UNCHANGED <<running, out, options, candidate, stirred, moved, overlap>>

\* finally: the candidates that are left are unlinked.
Cleanup(c) ==
    /\ pc[c] = "cleanup"
    /\ candidate' = [candidate EXCEPT ![c] = Empty]
    /\ Goto(c, "ended")
    /\ UNCHANGED <<running, out, options, stirred, moved, overlap>>

\* The process dies; nothing is cleaned up.
Killed(c) ==
    /\ pc[c] \in Active
    /\ Goto(c, "killed")
    /\ UNCHANGED <<running, out, options, candidate, stirred, moved, overlap>>

Next ==
    \/ StartNodes
    \/ StopNodes
    \/ \E c \in Captures :
          \/ Begin(c) \/ Assess(c) \/ Quiesce(c) \/ Quiet(c) \/ Fails(c)
          \/ \E p \in Parts : Check(c, p) \/ Read(c, p) \/ Move(c, p)
          \/ Verify(c) \/ EndMoves(c) \/ Cleanup(c) \/ Killed(c)

Spec == Init /\ [][Next]_vars

-----------------------------------------------------------------------------
(* Properties                                                                 *)

\* Node state that is published was read while no node ran, however long ago
\* the quiescence script or the operator vouched for it; the one exception is
\* nodes somebody started while tar was at it (migration.py:1247 checks once,
\* before tar).
NodeStateFromQuietHost ==
    out["node"] # NoFile /\ out["node"].ran => out["node"].started

\* Lab definitions are published after the node state and the images that their
\* capture was asked for: those are there, and its own, failures and killed
\* captures included.  Only captures of the same output under way at once, and a
\* later forced capture that moved a part and then did not get to its own lab
\* definitions, change that.
PublishedIsWhole ==
    LET primary == out["primary"]
    IN  primary # NoFile /\ ~overlap =>
            \A p \in wanted[primary.by] :
                /\ out[p] # NoFile
                /\ \/ out[p].by = primary.by
                   \/ forced[out[p].by] /\ "primary" \notin moved[out[p].by]

\* The output files, whoever asked for what, are of one capture.  This does not
\* hold of the code: a capture without node state or images leaves those of
\* another capture, under the names derived from its own output, as they are.
SetIsOfOneCapture ==
    out["primary"] # NoFile /\ ~overlap /\ (\A c \in Captures : pc[c] \notin Active) =>
        \A p \in Parts : out[p] = NoFile \/ out[p].by = out["primary"].by

\* No output file that exists is replaced without --force, unless it appeared
\* while the capture was already under way.
ReplacedByForceOnly ==
    [][\A p \in Parts :
          out[p] # NoFile /\ out'[p] # out[p] => forced[out'[p].by] \/ overlap]_vars
=============================================================================
