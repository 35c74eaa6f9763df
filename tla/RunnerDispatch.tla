--------------------------- MODULE RunnerDispatch ---------------------------
(* runner/command.py:_execute_runner_blueprint: the local runtime is bundled, *)
(* deployed from a copy on the runner host, and the copy's state is unpacked  *)
(* over the local one.  No lock is held on the local state while the copy is  *)
(* away, so local commands and other dispatches go on beside it.              *)
(*                                                                            *)
(* A record stands for one module state file: v is the version of the         *)
(* resource it describes, home the place where rerun_inputs_file and          *)
(* evidence_dir point into, inputs the one of resolved_inputs_file.           *)
EXTENDS Integers

CONSTANTS
    Slots,          \* module state files
    Dispatches,     \* run ids of runner blueprint deploy; each happens once
    Here,           \* the local runtime root
    KeepRemoteJob,  \* --keep-remote-job
    MaxVersion      \* bound on the versions made of one resource

ASSUME HereAssumption == Here \notin Dispatches
ASSUME KeepRemoteJobAssumption == KeepRemoteJob \in BOOLEAN
ASSUME MaxVersionAssumption == MaxVersion \in Nat

VARIABLES
    built,     \* the version of each slot's resource at the provider
    local,     \* the local state files
    pc,        \* where each dispatch is
    status,    \* what it has printed: "error" is a remote command that failed,
               \* "failed" a dispatch that did
    rc,        \* the remote command's exit code is zero
    jobRoot,   \* job_root is set, so the finally block removes the job
    copy,      \* the runtime in the job directory, {} slots without one
    remote,    \* the hyops process on the runner
    result,    \* runtime.result.tar.gz on the runner
    stage,     \* runtime.result.tar.gz in work/runner/<run id>
    todo,      \* members not yet unpacked, or files not yet repaired
    writing,   \* the slot and the record being written, and if it is open
    maker,     \* history: who made the latest version of each slot
    touched,   \* history: slots others wrote here since the bundle was made
    replaced,  \* history: slots written over though others had written them
    cut        \* history: the state was not fetched after the remote command

vars == <<built, local, pc, status, rc, jobRoot, copy, remote, result, stage,
          todo, writing, maker, touched, replaced, cut>>
away    == <<copy, remote, result>>
fetched == <<stage, todo, writing>>
history == <<maker, touched, replaced, cut>>

Versions == 0 .. MaxVersion
Torn     == -1                    \* a file opened for writing, not yet written
Places   == Dispatches \cup {Here}
Record   == [v : Versions \cup {Torn}, home : Places, inputs : Places]
Archives == [Slots -> Record]
Nothing  == [s \in {} |-> s]
Nobody   == <<>>
Writings == [slot : Slots, record : Record, open : BOOLEAN]

Preparing == {"bundle", "upload"}
Guarded   == Preparing \cup {"exec", "collect", "download", "extract", "repair", "verdict"}
Active    == Guarded \cup {"stage", "clean"}

TypeOK ==
    /\ built \in [Slots -> Versions]
    /\ local \in Archives
    /\ pc \in [Dispatches -> Active \cup {"idle", "done", "killed"}]
    /\ status \in [Dispatches -> {"running", "ok", "error", "failed", "cancelled"}]
    /\ rc \in [Dispatches -> BOOLEAN]
    /\ jobRoot \in [Dispatches -> BOOLEAN]
    /\ copy \in [Dispatches -> Archives \cup {Nothing}]
    /\ remote \in [Dispatches -> {"off", "on"}]
    /\ result \in [Dispatches -> Archives \cup {Nothing}]
    /\ stage \in [Dispatches -> Archives \cup {Nothing}]
    /\ todo \in [Dispatches -> SUBSET Slots]
    /\ writing \in [Dispatches -> {Nobody} \cup Writings]
    /\ maker \in [Slots -> Places]
    /\ touched \in [Dispatches -> SUBSET Slots]
    /\ replaced \in SUBSET Slots
    /\ cut \in [Dispatches -> BOOLEAN]

Init ==
    /\ built = [s \in Slots |-> 0]
    /\ local = [s \in Slots |-> [v |-> 0, home |-> Here, inputs |-> Here]]
    /\ pc = [d \in Dispatches |-> "idle"]
    /\ status = [d \in Dispatches |-> "running"]
    /\ rc = [d \in Dispatches |-> FALSE]
    /\ jobRoot = [d \in Dispatches |-> FALSE]
    /\ copy = [d \in Dispatches |-> Nothing]
    /\ remote = [d \in Dispatches |-> "off"]
    /\ result = [d \in Dispatches |-> Nothing]
    /\ stage = [d \in Dispatches |-> Nothing]
    /\ todo = [d \in Dispatches |-> {}]
    /\ writing = [d \in Dispatches |-> Nobody]
    /\ maker = [s \in Slots |-> Here]
    /\ touched = [d \in Dispatches |-> {}]
    /\ replaced = {}
    /\ cut = [d \in Dispatches |-> FALSE]

Goto(d, step) == pc' = [pc EXCEPT ![d] = step]

\* What somebody else's write to s does to the other dispatches.
Touch(s, others) ==
    touched' = [d \in Dispatches |->
                   IF d \in others /\ pc[d] \in Active THEN touched[d] \cup {s} ELSE touched[d]]

-----------------------------------------------------------------------------
(* Commands on the local runtime                                              *)

\* hyops apply here: the resource changes, write_module_state records it.
LocalApply(s) ==
    /\ built[s] < MaxVersion
    /\ local[s].v # Torn
    /\ built' = [built EXCEPT ![s] = @ + 1]
    /\ local' = [local EXCEPT ![s] = [v |-> built'[s], home |-> Here, inputs |-> Here]]
    /\ maker' = [maker EXCEPT ![s] = Here]
    /\ Touch(s, Dispatches)
    /\ UNCHANGED <<pc, status, rc, jobRoot, away, fetched, replaced, cut>>

-----------------------------------------------------------------------------
(* Preparation                                                                *)

\* The setup: secrets synced, the runner's state read and found ready.
Setup(d) ==
    /\ pc[d] = "idle"
    /\ \/ Goto(d, "bundle") /\ UNCHANGED status
       \/ Goto(d, "done") /\ status' = [status EXCEPT ![d] = "failed"]
    /\ UNCHANGED <<built, local, rc, jobRoot, away, fetched, history>>

\* _bundle_runtime and the job directory with the copy unpacked in it.
Bundle(d) ==
    /\ pc[d] = "bundle"
    /\ copy' = [copy EXCEPT ![d] = local]
    /\ touched' = [touched EXCEPT ![d] = {}]
    /\ Goto(d, "upload")
    /\ UNCHANGED <<built, local, status, rc, jobRoot, remote, result, fetched, maker, replaced, cut>>

\* A call of _sync_runtime_to_runner fails: job_root is still "" and the job
\* directory stays.
PrepareFails(d) ==
    /\ pc[d] \in Preparing
    /\ status' = [status EXCEPT ![d] = "failed"]
    /\ Goto(d, "stage")
    /\ UNCHANGED <<built, local, rc, jobRoot, away, fetched, history>>

Prepared(d) ==
    /\ pc[d] = "upload"
    /\ jobRoot' = [jobRoot EXCEPT ![d] = TRUE]
    /\ remote' = [remote EXCEPT ![d] = "on"]
    /\ Goto(d, "exec")
    /\ UNCHANGED <<built, local, status, rc, copy, result, fetched, history>>

-----------------------------------------------------------------------------
(* The remote hyops blueprint deploy                                          *)

\* A step of it; without its job directory it has nowhere to record it.
RemoteApply(d, s) ==
    /\ remote[d] = "on"
    /\ built[s] < MaxVersion
    /\ copy[d] # Nothing => copy[d][s].v # Torn
    /\ built' = [built EXCEPT ![s] = @ + 1]
    /\ copy' = IF copy[d] = Nothing THEN copy
               ELSE [copy EXCEPT ![d][s] = [v |-> built'[s], home |-> d, inputs |-> d]]
    /\ maker' = [maker EXCEPT ![s] = d]
    /\ UNCHANGED <<local, pc, status, rc, jobRoot, remote, result, fetched, touched, replaced, cut>>

\* A plausible slip: the exit code is looked at before the state is fetched.
RemoteEnds_ChecksFirst(d) ==
    /\ remote[d] = "on"
    /\ remote' = [remote EXCEPT ![d] = "off"]
    /\ IF pc[d] = "exec"
       THEN \E zero \in BOOLEAN :
               /\ rc' = [rc EXCEPT ![d] = zero]
               /\ status' = [status EXCEPT ![d] = IF zero THEN @ ELSE "error"]
               /\ Goto(d, IF zero THEN "collect" ELSE "stage")
       ELSE UNCHANGED <<pc, rc, status>>
    /\ UNCHANGED <<built, local, jobRoot, copy, result, fetched, history>>

RemoteEnds(d) ==
    /\ remote[d] = "on"
    /\ remote' = [remote EXCEPT ![d] = "off"]
    /\ IF pc[d] = "exec"
       THEN /\ \E zero \in BOOLEAN : rc' = [rc EXCEPT ![d] = zero]
            /\ Goto(d, "collect")
       ELSE UNCHANGED <<pc, rc>>
    /\ UNCHANGED <<built, local, status, jobRoot, copy, result, fetched, history>>

\* A plausible slip: an ssh that broke off counts as a command that ended well.
ConnectionLost_TakenForEnd(d) ==
    /\ pc[d] = "exec"
    /\ rc' = [rc EXCEPT ![d] = TRUE]
    /\ Goto(d, "collect")
    /\ UNCHANGED <<built, local, status, jobRoot, away, fetched, history>>

\* ssh ends with 255 and the remote process goes on.
ConnectionLost(d) ==
    /\ pc[d] = "exec"
    /\ rc' = [rc EXCEPT ![d] = FALSE]
    /\ cut' = [cut EXCEPT ![d] = TRUE]
    /\ Goto(d, "collect")
    /\ UNCHANGED <<built, local, status, jobRoot, away, fetched, maker, touched, replaced>>

-----------------------------------------------------------------------------
(* _sync_runtime_back, before the exit code is looked at                      *)

Collect(d) ==
    /\ pc[d] = "collect"
    /\ result' = [result EXCEPT ![d] = copy[d]]
    /\ Goto(d, "download")
    /\ UNCHANGED <<built, local, status, rc, jobRoot, copy, remote, fetched, history>>

Download(d) ==
    /\ pc[d] = "download"
    /\ stage' = [stage EXCEPT ![d] = result[d]]
    /\ todo' = [todo EXCEPT ![d] = Slots]
    /\ Goto(d, "extract")
    /\ UNCHANGED <<built, local, status, rc, jobRoot, away, writing, history>>

FetchFails(d) ==
    /\ pc[d] \in {"collect", "download"}
    /\ status' = [status EXCEPT ![d] = "failed"]
    /\ cut' = [cut EXCEPT ![d] = TRUE]
    /\ Goto(d, "stage")
    /\ UNCHANGED <<built, local, rc, jobRoot, away, fetched, maker, touched, replaced>>

\* The next member of the archive.
NextMember(d, s) ==
    /\ pc[d] = "extract" /\ writing[d] = Nobody /\ s \in todo[d]
    /\ writing' = [writing EXCEPT ![d] = [slot |-> s, record |-> stage[d][s], open |-> FALSE]]
    /\ todo' = [todo EXCEPT ![d] = @ \ {s}]
    /\ UNCHANGED <<built, local, pc, status, rc, jobRoot, away, stage, history>>

\* A plausible slip: the paths are written back as they came.
NextRepair_KeepsPath(d, s) ==
    /\ pc[d] = "repair" /\ writing[d] = Nobody /\ s \in todo[d]
    /\ todo' = [todo EXCEPT ![d] = @ \ {s}]
    /\ UNCHANGED <<built, local, pc, status, rc, jobRoot, away, stage, writing, history>>

\* _repair_returned_module_state_paths reads a file; a path of rerun_inputs_file
\* or evidence_dir below the remote runtime of this job is rebased and the file
\* rewritten.  resolved_inputs_file is left as it came.
NextRepair(d, s) ==
    /\ pc[d] = "repair" /\ writing[d] = Nobody /\ s \in todo[d]
    /\ writing' = IF local[s].v # Torn /\ local[s].home = d
                  THEN [writing EXCEPT ![d] = [slot |-> s, open |-> FALSE,
                                               record |-> [local[s] EXCEPT !.home = Here]]]
                  ELSE writing
    /\ todo' = [todo EXCEPT ![d] = @ \ {s}]
    /\ UNCHANGED <<built, local, pc, status, rc, jobRoot, away, stage, history>>

\* Both writers open the file, which empties it, and then write it.
Open(d) ==
    /\ pc[d] \in {"extract", "repair"} /\ writing[d] # Nobody /\ ~writing[d].open
    /\ writing' = [writing EXCEPT ![d].open = TRUE]
    /\ local' = [local EXCEPT ![writing[d].slot].v = Torn]
    /\ Touch(writing[d].slot, Dispatches \ {d})
    /\ replaced' = replaced \cup ({writing[d].slot} \cap touched[d])
    /\ UNCHANGED <<built, pc, status, rc, jobRoot, away, stage, todo, maker, cut>>

Fill(d) ==
    /\ pc[d] \in {"extract", "repair"} /\ writing[d] # Nobody /\ writing[d].open
    /\ local' = [local EXCEPT ![writing[d].slot] = writing[d].record]
    /\ writing' = [writing EXCEPT ![d] = Nobody]
    /\ Touch(writing[d].slot, Dispatches \ {d})
    /\ replaced' = replaced \cup ({writing[d].slot} \cap touched[d])
    /\ UNCHANGED <<built, pc, status, rc, jobRoot, away, stage, todo, maker, cut>>

\* The archive, a file or the disk is bad: files are torn, or old, or have their
\* paths as they came, and what was fetched stays in the stage.
UnpackFails(d) ==
    /\ pc[d] \in {"extract", "repair"}
    /\ status' = [status EXCEPT ![d] = "failed"]
    /\ writing' = [writing EXCEPT ![d] = Nobody]
    /\ todo' = [todo EXCEPT ![d] = {}]
    /\ Goto(d, "stage")
    /\ UNCHANGED <<built, local, rc, jobRoot, away, stage, history>>

EndExtract(d) ==
    /\ pc[d] = "extract" /\ writing[d] = Nobody /\ todo[d] = {}
    /\ todo' = [todo EXCEPT ![d] = Slots]
    /\ Goto(d, "repair")
    /\ UNCHANGED <<built, local, status, rc, jobRoot, away, stage, writing, history>>

EndRepair(d) ==
    /\ pc[d] = "repair" /\ writing[d] = Nobody /\ todo[d] = {}
    /\ Goto(d, "verdict")
    /\ UNCHANGED <<built, local, status, rc, jobRoot, away, fetched, history>>

-----------------------------------------------------------------------------
(* The end                                                                    *)

Verdict(d) ==
    /\ pc[d] = "verdict"
    /\ status' = [status EXCEPT ![d] = IF rc[d] THEN "ok" ELSE "error"]
    /\ Goto(d, "stage")
    /\ UNCHANGED <<built, local, rc, jobRoot, away, fetched, history>>

\* Ctrl-C in the try block.  The ssh child gets it too; the remote process
\* need not end.
Interrupt(d) ==
    /\ pc[d] \in Guarded
    /\ status' = [status EXCEPT ![d] = "cancelled"]
    /\ cut' = [cut EXCEPT ![d] = @ \/ pc[d] \in {"exec", "collect", "download"}]
    /\ writing' = [writing EXCEPT ![d] = Nobody]
    /\ todo' = [todo EXCEPT ![d] = {}]
    /\ Goto(d, "stage")
    /\ UNCHANGED <<built, local, rc, jobRoot, away, stage, maker, touched, replaced>>

\* finally: the stage goes with an ok only ...
CleanStage(d) ==
    /\ pc[d] = "stage"
    /\ stage' = IF status[d] = "ok" THEN [stage EXCEPT ![d] = Nothing] ELSE stage
    /\ Goto(d, "clean")
    /\ UNCHANGED <<built, local, status, rc, jobRoot, away, todo, writing, history>>

\* ... and a job that is known goes with every outcome; rm can fail unseen.
CleanJob(d) ==
    /\ pc[d] = "clean"
    /\ \E removed \in BOOLEAN :
          IF jobRoot[d] /\ ~KeepRemoteJob /\ removed
          THEN /\ copy' = [copy EXCEPT ![d] = Nothing]
               /\ result' = [result EXCEPT ![d] = Nothing]
          ELSE UNCHANGED <<copy, result>>
    /\ Goto(d, "done")
    /\ UNCHANGED <<built, local, status, rc, jobRoot, remote, fetched, history>>

\* The dispatcher is killed: no finally.
Killed(d) ==
    /\ pc[d] \in Active
    /\ writing' = [writing EXCEPT ![d] = Nobody]
    /\ todo' = [todo EXCEPT ![d] = {}]
    /\ Goto(d, "killed")
    /\ UNCHANGED <<built, local, status, rc, jobRoot, away, stage, history>>

-----------------------------------------------------------------------------
Prepare(d) == Setup(d) \/ Bundle(d) \/ PrepareFails(d) \/ Prepared(d)
Run(d) == RemoteEnds(d) \/ ConnectionLost(d) \/ \E s \in Slots : RemoteApply(d, s)
SyncBack(d) ==
    \/ Collect(d) \/ Download(d) \/ FetchFails(d)
    \/ \E s \in Slots : NextMember(d, s) \/ NextRepair(d, s)
    \/ Open(d) \/ Fill(d) \/ UnpackFails(d) \/ EndExtract(d) \/ EndRepair(d)
End(d) == Verdict(d) \/ Interrupt(d) \/ CleanStage(d) \/ CleanJob(d) \/ Killed(d)

Next ==
    \/ \E s \in Slots : LocalApply(s)
    \/ \E d \in Dispatches : Prepare(d) \/ Run(d) \/ SyncBack(d) \/ End(d)

Spec == Init /\ [][Next]_vars

-----------------------------------------------------------------------------
(* Properties                                                                 *)

Recorded(s) ==
    \/ local[s].v = built[s]
    \/ \E d \in Dispatches : /\ copy[d] # Nothing
                             /\ copy[d][s].v = built[s]
    \/ \E d \in Dispatches : /\ stage[d] # Nothing
                             /\ stage[d][s].v = built[s]
    \/ \E d \in Dispatches : writing[d] # Nobody /\ writing[d].slot = s /\ writing[d].record.v = built[s]

\* The record of what was last made of a resource is somewhere: in the local
\* state, in the archive kept in the stage or in a job directory.  A failed or
\* a killed deploy does not lose it (command.py:1045 fetches before it looks at
\* the exit code, and the finally block keeps the stage of a failure).  It is
\* lost only when a dispatch wrote over what others had written while its copy
\* was away, or when the dispatch that made the resource lost its connection,
\* failed to fetch, or was stopped with Ctrl-C before the state was fetched.
StateSurvives ==
    \A s \in Slots :
        \/ Recorded(s)
        \/ s \in replaced
        \/ maker[s] \in Dispatches /\ cut[maker[s]]

\* "status=ok" and "runner remote hyops command failed" both mean that the local
\* state holds everything that deploy made: no record of the copy is later than
\* the local file, unless somebody else wrote that file meanwhile.  Only an ssh
\* that broke off, which looks like a remote command that failed, is excused.  A
\* dispatch that fails itself, in its unpacking or repair too, says another thing.
EndMeansSynced ==
    [][\A d \in Dispatches :
          status[d] = "running" /\ status'[d] \in {"ok", "error"} /\ jobRoot[d] /\ ~cut'[d] =>
              \A s \in Slots \ touched[d] :
                  copy[d] # Nothing => /\ local[s].v = copy[d][s].v
                                       /\ local[s].home # d]_vars

\* The inputs for a rerun and the evidence of a local state are looked for in a job
\* directory only while the dispatch that fetched the state repairs it, or after
\* that dispatch was killed, interrupted or overtaken there, or failed in its
\* unpacking or repair: hyops never leaves them in a removed job behind an ok or a
\* remote command that failed.
NoPathOfEndedJob ==
    \A s \in Slots : \A d \in Dispatches :
        local[s].home = d =>
            \/ pc[d] \in {"extract", "repair"}
            \/ pc[d] = "killed"
            \/ status[d] \in {"cancelled", "failed"}
            \/ \E e \in Dispatches : s \in touched[e]

\* The same of all paths does not hold of the code: resolved_inputs_file of every
\* state that a remote deploy has made points into the job for good.
NoPathAtAllOfEndedJob ==
    \A s \in Slots : \A d \in Dispatches :
        local[s].inputs = d =>
            \/ pc[d] \in {"extract", "repair"}
            \/ pc[d] = "killed"
            \/ status[d] \in {"cancelled", "failed"}
            \/ \E e \in Dispatches : s \in touched[e]
=============================================================================
