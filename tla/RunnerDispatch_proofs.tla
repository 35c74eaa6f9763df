----------------------- MODULE RunnerDispatch_proofs -----------------------
EXTENDS RunnerDispatch, TLAPS

\* No record of a write is nobody's, no archive is nothing, and two archives are the
\* same when their records are.
LEMMA Kinds ==
    /\ Nobody \notin Writings
    /\ Slots # {} => Nothing \notin Archives
    /\ \A A \in Archives, B \in Archives : A = B <=> \A s \in Slots : A[s] = B[s]
<1>1. \A w \in Writings : w # Nobody
  <2> SUFFICES ASSUME NEW w \in Writings, w = <<>> PROVE FALSE
      BY DEF Nobody
  <2>1. DOMAIN w = {"slot", "record", "open"} /\ DOMAIN w = {}
      BY DEF Writings
  <2> QED BY <2>1
<1>2. Slots # {} => Nothing \notin Archives
    BY DEF Archives, Nothing
<1>3. \A A \in Archives, B \in Archives : A = B <=> \A s \in Slots : A[s] = B[s]
    BY DEF Archives
<1> QED BY <1>1, <1>2, <1>3

\* At first everything is here and nothing is under way.
LEMMA TypeInit == Init => TypeOK
BY MaxVersionAssumption DEF Init, TypeOK, Versions, Record, Places, Archives, Active

\* A record put in an archive, and the next version.
LEMMA Put ==
    /\ \A A \in Archives, s \in Slots, r \in Record : [A EXCEPT ![s] = r] \in Archives
    /\ \A A \in Archives, s \in Slots : A[s] \in Record
    /\ \A r \in Record : /\ r.v \in Versions \cup {Torn}
                         /\ r.v \in Int
                         /\ r.home \in Places
                         /\ [r EXCEPT !.v = Torn] \in Record
                         /\ [r EXCEPT !.home = Here] \in Record
    /\ \A v \in Versions : v < MaxVersion => v + 1 \in Versions
    /\ \A v \in Versions, h \in Places : [v |-> v, home |-> h, inputs |-> h] \in Record
    /\ \A w \in Writings : w.slot \in Slots /\ w.record \in Record /\ w.open \in BOOLEAN
BY MaxVersionAssumption DEF Archives, Record, Places, Versions, Writings, Torn


-----------------------------------------------------------------------------
\* Dispatch d is about to write slot s, or has opened it.
Writes(d, s) == writing[d] # Nobody /\ writing[d].slot = s
Opened(d, s) == Writes(d, s) /\ writing[d].open

\* From the bundle to the last file repaired, a dispatch carries records.
Carrying == {"upload", "exec", "collect", "download", "extract", "repair"}
Landing  == {"extract", "repair", "verdict"}
Ended    == {"stage", "clean", "done", "killed"}

\* The order of the steps: what is there at which of them.
ShapeInv == \A d \in Dispatches :
    /\ pc[d] \in {"idle", "bundle", "upload"} => ~jobRoot[d] /\ remote[d] = "off"
    /\ pc[d] \in {"idle", "bundle"} =>
            copy[d] = Nothing /\ result[d] = Nothing /\ stage[d] = Nothing
    /\ pc[d] \in Carrying \cup {"verdict"} => copy[d] \in Archives
    /\ pc[d] = "download" => result[d] \in Archives
    /\ pc[d] \in Landing => stage[d] \in Archives
    /\ pc[d] \notin {"extract", "repair"} => writing[d] = Nobody
    /\ status[d] # "running" => pc[d] \in Ended
    /\ remote[d] = "on" => /\ copy[d] \in Archives \/ pc[d] = "done"
                           /\ \/ pc[d] = "exec"
                              \/ cut[d]
                              \/ pc[d] = "killed" /\ status[d] = "running"

\* A record that a dispatch has for a slot, in any of its places.
Holds(d, s, r) ==
    \/ copy[d] \in Archives /\ r = copy[d][s]
    \/ result[d] \in Archives /\ r = result[d][s]
    \/ stage[d] \in Archives /\ r = stage[d][s]
    \/ Writes(d, s) /\ r = writing[d].record

\* The remote deploy of d has begun.
Begun(d) == pc[d] \notin {"idle", "bundle", "upload"}

\* A record is of a version that was made, by a deploy that began.
Genuine(s, r) ==
    /\ r.v <= built[s]
    /\ r.home \in Dispatches => Begun(r.home)

\* All records are genuine, and one that a dispatch made itself is whole.
VersionInv == \A s \in Slots :
    /\ Genuine(s, local[s])
    /\ \A d \in Dispatches, r \in Record :
          Holds(d, s, r) => Genuine(s, r) /\ (r.home = d => r.v # Torn)

-----------------------------------------------------------------------------
\* Somebody else wrote s after a dispatch had bundled it.
Overtaken(s) == \E e \in Dispatches : s \in touched[e] /\ pc[e] \notin {"idle", "bundle"}

\* A path of d may be left in s for good.
Excused(s, d) == Overtaken(s) \/ pc[d] = "killed" \/ status[d] \in {"cancelled", "failed"}

\* d is at work on s, and will take its path away.
Mending(s, d) ==
    /\ pc[d] \in {"extract", "repair"}
    /\ pc[d] = "repair" => s \in todo[d] \/ Writes(d, s)
    /\ local[s].v = Torn => Opened(d, s)

\* A path of a dispatch is in the local file only if it may stay or will be mended.
PathInv == \A s \in Slots, d \in Dispatches :
    local[s].home = d => Excused(s, d) \/ Mending(s, d)

\* Who carries a path of another dispatch has it from the local file.
HeldInv == \A e \in Dispatches : pc[e] \in Carrying =>
    \A d \in Dispatches \ {e}, s \in Slots, r \in Record :
        Holds(e, s, r) /\ r.home = d => Excused(s, d) \/ local[s].home = d

-----------------------------------------------------------------------------
\* Dispatch d has extracted slot s, and has looked at the paths in it.
Extracted(d, s) ==
    \/ pc[d] = "extract" /\ s \notin todo[d] /\ ~Writes(d, s)
    \/ pc[d] = "repair" /\ ~Opened(d, s)
    \/ pc[d] = "verdict"
Repaired(d, s) ==
    \/ pc[d] = "repair" /\ s \notin todo[d] /\ ~Writes(d, s)
    \/ pc[d] = "verdict"

\* What a dispatch has unpacked is what it has fetched, until others write there.
Unpacks(d, s) ==
    /\ pc[d] = "extract" /\ Writes(d, s) => writing[d].record = stage[d][s]
    /\ pc[d] = "repair" /\ Writes(d, s) => writing[d].record.home # d
    /\ s \notin touched[d] =>
          /\ pc[d] = "repair" /\ Writes(d, s) => writing[d].record.v = stage[d][s].v
          /\ Extracted(d, s) => local[s].v = stage[d][s].v
          /\ Extracted(d, s) /\ local[s].home = d => local[s] = stage[d][s]
          /\ Repaired(d, s) => local[s].home # d

\* What it has fetched is what its deploy made, unless it was cut off.
Fetches(d) ==
    /\ pc[d] = "download" /\ ~cut[d] => result[d] = copy[d]
    /\ pc[d] \in Landing /\ ~cut[d] => stage[d] = copy[d]

\* The two together, of every dispatch.
UnpackedInv == \A d \in Dispatches : Fetches(d) /\ \A s \in Slots : Unpacks(d, s)

-----------------------------------------------------------------------------
\* A dispatch that nobody has overtaken carries the latest version when the
\* local file has it.
Carries(d, s) ==
    /\ pc[d] \in {"upload", "exec", "collect"} => copy[d][s].v = built[s]
    /\ pc[d] = "download" => result[d][s].v = built[s]
    /\ pc[d] \in {"extract", "repair"} => stage[d][s].v = built[s]

\* Of every slot that nobody has written since the dispatch bundled it.
LatestInv == \A d \in Dispatches : \A s \in Slots \ touched[d] :
    local[s].v = built[s] => Carries(d, s)

\* The fetched archive has the latest version of s.
Staged(d, s) == stage[d] \in Archives /\ stage[d][s].v = built[s]

\* What a dispatch has made is in its job directory, then in its stage.
Keeps(d, s) ==
    /\ Begun(d)
    /\ copy[d] \in Archives \/ pc[d] = "done"
    /\ ~cut[d] =>
         /\ copy[d] \in Archives => copy[d][s].v = built[s]
         /\ pc[d] = "download" => result[d][s].v = built[s]
         /\ (\/ pc[d] \in Landing \cup {"stage"}
             \/ pc[d] \in {"clean", "done"} /\ status[d] # "ok") => Staged(d, s)

\* Whoever has made the latest version of a slot still has it.
MadeInv == \A s \in Slots, d \in Dispatches : maker[s] = d => Keeps(d, s)

\* d has unpacked s.
Landed(d, s) ==
    \/ pc[d] = "extract" /\ s \notin todo[d] /\ ~Writes(d, s)
    \/ pc[d] \in {"repair", "verdict"}
    \/ status[d] = "ok"

\* The local state has the latest version, or a file torn in the writing has it
\* in the archive of who tore it.
Tearing(d, s) == Opened(d, s) /\ writing[d].record.v = built[s] /\ Staged(d, s)
Left(d, s)    == (pc[d] = "killed" \/ status[d] \in {"cancelled", "failed"}) /\ Staged(d, s)
Saved(s)      == \/ local[s].v = built[s]
                 \/ \E d \in Dispatches : Tearing(d, s) \/ Left(d, s)

\* A slot whose maker has unpacked it, or is no dispatch, is saved.
LandedInv == \A s \in Slots \ replaced :
    (\A d \in Dispatches : maker[s] = d => ~cut[d] /\ Landed(d, s)) => Saved(s)

\* The inductive invariant; each part rests on those above it.
RunnerInv ==
    /\ TypeOK
    /\ ShapeInv
    /\ VersionInv
    /\ PathInv
    /\ HeldInv
    /\ UnpackedInv
    /\ LatestInv
    /\ MadeInv
    /\ LandedInv

-----------------------------------------------------------------------------
\* Every step of every dispatch keeps the types; the archives are there when unpacked.
LEMMA TypeStep == TypeOK /\ ShapeInv /\ [Next]_vars => TypeOK'
<1> SUFFICES ASSUME TypeOK, ShapeInv, [Next]_vars PROVE TypeOK'
    OBVIOUS
<1>1. ASSUME NEW s \in Slots, LocalApply(s) PROVE TypeOK'
    <2>1. built[s] \in Versions /\ built[s] + 1 \in Versions /\ built'[s] = built[s] + 1
          /\ built' \in [Slots -> Versions]
        BY <1>1, Put DEF LocalApply, TypeOK
    <2>2. local' \in Archives
      <4>1. [v |-> built'[s], home |-> Here, inputs |-> Here] \in Record
          BY <2>1, Put DEF Places
      <4> QED BY <1>1, <4>1, Put DEF LocalApply, TypeOK
    <2> QED BY <1>1, <2>1, <2>2 DEF LocalApply, Touch, TypeOK, Places, Goto, away, fetched,
        history
<1>2. ASSUME NEW d \in Dispatches, Prepare(d) \/ Run(d) \/ SyncBack(d) \/ End(d)
      PROVE  TypeOK'
  <2>1. CASE Setup(d)
      BY <2>1 DEF Setup, Goto, away, fetched, history, TypeOK, Active, Guarded, Preparing
  <2>2. CASE Bundle(d)
      BY <2>2 DEF Bundle, Goto, away, fetched, history, TypeOK, Active, Guarded, Preparing
  <2>3. CASE PrepareFails(d)
      BY <2>3 DEF PrepareFails, Goto, away, fetched, history, TypeOK, Active, Guarded,
          Preparing
  <2>4. CASE Prepared(d)
      BY <2>4 DEF Prepared, Goto, away, fetched, history, TypeOK, Active, Guarded, Preparing
  <2>5. ASSUME NEW s \in Slots, RemoteApply(d, s) PROVE TypeOK'
    <3>1. built[s] \in Versions /\ built[s] + 1 \in Versions /\ built'[s] = built[s] + 1
          /\ built' \in [Slots -> Versions]
        BY <2>5, Put DEF RemoteApply, TypeOK
    <3>2. copy' \in [Dispatches -> Archives \cup {Nothing}]
      <4>1. [v |-> built'[s], home |-> d, inputs |-> d] \in Record
          BY <3>1, Put DEF Places
      <4>2. CASE copy[d] = Nothing
          BY <2>5, <4>2 DEF RemoteApply, TypeOK
      <4>3. CASE copy[d] # Nothing
        <5>1. copy[d] \in Archives
            BY <4>3 DEF TypeOK
        <5>2. [copy[d] EXCEPT ![s] = [v |-> built'[s], home |-> d, inputs |-> d]] \in Archives
            BY <4>1, <5>1, Put
        <5>3. copy' = [copy EXCEPT ![d] =
                          [copy[d] EXCEPT ![s] = [v |-> built'[s], home |-> d, inputs |-> d]]]
            BY <2>5, <4>3 DEF RemoteApply
        <5> QED BY <5>2, <5>3 DEF TypeOK
      <4> QED BY <4>2, <4>3
    <3> QED BY <2>5, <3>1, <3>2 DEF RemoteApply, TypeOK, Places, Goto, away, fetched, history
  <2>6. CASE RemoteEnds(d)
      BY <2>6 DEF RemoteEnds, Goto, away, fetched, history, TypeOK, Active, Guarded, Preparing
  <2>7. CASE ConnectionLost(d)
      BY <2>7 DEF ConnectionLost, Goto, away, fetched, history, TypeOK, Active, Guarded,
          Preparing
  <2>8. CASE Collect(d)
      BY <2>8 DEF Collect, Goto, away, fetched, history, TypeOK, Active, Guarded, Preparing
  <2>9. CASE Download(d)
      BY <2>9 DEF Download, Goto, away, fetched, history, TypeOK, Active, Guarded, Preparing
  <2>10. CASE FetchFails(d)
      BY <2>10 DEF FetchFails, Goto, away, fetched, history, TypeOK, Active, Guarded,
          Preparing
  <2>11. ASSUME NEW s \in Slots, NextMember(d, s) PROVE TypeOK'
    <3>1. writing' \in [Dispatches -> {Nobody} \cup Writings]
      <4> DEFINE w == [slot |-> s, record |-> stage[d][s], open |-> FALSE]
      <4>1. stage[d] \in Archives
          BY <2>11 DEF NextMember, TypeOK, ShapeInv, Landing
      <4>2. w \in Writings
          BY <4>1, Put DEF Writings
      <4>3. writing' = [writing EXCEPT ![d] = w]
          BY <2>11 DEF NextMember
      <4> HIDE DEF w
      <4> QED BY <4>2, <4>3 DEF TypeOK
    <3> QED BY <2>11, <3>1 DEF NextMember, TypeOK, Goto, away, fetched, history, Active,
                Guarded, Preparing
  <2>12. ASSUME NEW s \in Slots, NextRepair(d, s) PROVE TypeOK'
    <3>1. writing' \in [Dispatches -> {Nobody} \cup Writings]
      <4>1. [local[s] EXCEPT !.home = Here] \in Record
          BY Put DEF TypeOK
      <4> DEFINE w == [slot |-> s, open |-> FALSE, record |-> [local[s] EXCEPT !.home = Here]]
      <4>2. w \in Writings
          BY <4>1 DEF Writings
      <4>3. writing' = writing \/ writing' = [writing EXCEPT ![d] = w]
          BY <2>12 DEF NextRepair
      <4> HIDE DEF w
      <4> QED BY <4>2, <4>3 DEF TypeOK
    <3> QED BY <2>12, <3>1 DEF NextRepair, TypeOK, Goto, away, fetched, history, Active,
                Guarded, Preparing
  <2>13. CASE Open(d)
    <3>1. writing[d] \in Writings
        BY <2>13 DEF Open, TypeOK
    <3>2. local' \in Archives
      <4> DEFINE slot == writing[d].slot
      <4>1. slot \in Slots /\ local[slot] \in Record
          BY <3>1, Put DEF TypeOK
      <4>2. local' = [local EXCEPT ![slot] = [local[slot] EXCEPT !.v = Torn]]
          BY <2>13 DEF Open
      <4> HIDE DEF slot
      <4> QED BY <4>1, <4>2, Put DEF TypeOK
    <3>3. writing' \in [Dispatches -> {Nobody} \cup Writings]
        BY <2>13, <3>1 DEF Open, Writings, TypeOK
    <3>4. writing[d].slot \in Slots
        BY <3>1, Put
    <3> QED BY <2>13, <3>2, <3>3, <3>4 DEF Open, Touch, TypeOK, Goto, away, fetched, history
  <2>14. CASE Fill(d)
    <3>1. writing[d] \in Writings
        BY <2>14 DEF Fill, TypeOK
    <3>2. writing[d].slot \in Slots /\ writing[d].record \in Record
        BY <3>1, Put
    <3>3. local' \in Archives
        BY <2>14, <3>2, Put DEF Fill, TypeOK
    <3> QED BY <2>14, <3>2, <3>3 DEF Fill, Touch, TypeOK, Goto, away, fetched, history
  <2>15. CASE EndExtract(d)
      BY <2>15 DEF EndExtract, Goto, away, fetched, history, TypeOK, Active, Guarded,
          Preparing
  <2>16. CASE EndRepair(d)
      BY <2>16 DEF EndRepair, Goto, away, fetched, history, TypeOK, Active, Guarded, Preparing
  <2>17. CASE Verdict(d)
      BY <2>17 DEF Verdict, Goto, away, fetched, history, TypeOK, Active, Guarded, Preparing
  <2>18. CASE Interrupt(d) \/ UnpackFails(d)
      BY <2>18 DEF Interrupt, UnpackFails, Goto, away, fetched, history, TypeOK, Active,
          Guarded, Preparing
  <2>19. CASE CleanStage(d)
      BY <2>19 DEF CleanStage, Goto, away, fetched, history, TypeOK, Active, Guarded,
          Preparing
  <2>20. CASE CleanJob(d)
      BY <2>20 DEF CleanJob, Goto, away, fetched, history, TypeOK, Active, Guarded, Preparing
  <2>21. CASE Killed(d)
      BY <2>21 DEF Killed, Goto, away, fetched, history, TypeOK, Active, Guarded, Preparing
  <2> QED BY <1>2, <2>1, <2>2, <2>3, <2>4, <2>5, <2>6, <2>7, <2>8, <2>9, <2>10, <2>11, <2>12,
              <2>13, <2>14, <2>15, <2>16, <2>17, <2>18, <2>19, <2>20, <2>21 DEF Prepare, Run,
              SyncBack, End
<1>3. CASE UNCHANGED vars
    BY <1>3 DEF vars, away, fetched, history, Goto, away, fetched, history, TypeOK, Active,
        Guarded, Preparing
<1> QED BY <1>1, <1>2, <1>3 DEF Next

-----------------------------------------------------------------------------
(* What a step does to the local files, and to the records a dispatch has     *)

\* A step of one dispatch.
Moves(d) == Prepare(d) \/ Run(d) \/ SyncBack(d) \/ End(d)

\* Opening a file empties it, and touches no other.
LEMMA OpenEffect ==
    ASSUME TypeOK, NEW d \in Dispatches, Open(d)
    PROVE  LET slot == writing[d].slot IN
           /\ writing[d] \in Writings /\ slot \in Slots /\ writing[d].record \in Record
           /\ writing' = [writing EXCEPT ![d] = writing'[d]]
           /\ writing'[d] \in Writings /\ writing'[d].open
           /\ writing'[d].slot = slot /\ writing'[d].record = writing[d].record
           /\ local'[slot].v = Torn /\ local'[slot].home = local[slot].home
           /\ \A t \in Slots \ {slot} : local'[t] = local[t]
<1>1. writing[d] \in Writings
    BY DEF Open, TypeOK
<1>2. writing[d].slot \in Slots /\ writing[d].record \in Record /\ writing[d].open \in BOOLEAN
    BY <1>1, Put
<1>3. writing'[d] = [writing[d] EXCEPT !.open = TRUE]
    BY DEF Open, TypeOK
<1>4. local' = [local EXCEPT ![writing[d].slot] = [local[writing[d].slot] EXCEPT !.v = Torn]]
    BY DEF Open
<1>5. local[writing[d].slot] \in Record /\ DOMAIN local = Slots
    BY <1>2 DEF TypeOK, Archives
<1>6. writing' = [writing EXCEPT ![d] = writing'[d]]
    BY DEF Open, TypeOK
<1>7. writing'[d] \in Writings /\ writing'[d].open
      /\ writing'[d].slot = writing[d].slot /\ writing'[d].record = writing[d].record
    BY <1>1, <1>3 DEF Writings
<1>8. local'[writing[d].slot] = [local[writing[d].slot] EXCEPT !.v = Torn]
    BY <1>2, <1>4, <1>5
<1>9. /\ local'[writing[d].slot].v = Torn
      /\ local'[writing[d].slot].home = local[writing[d].slot].home
    BY <1>5, <1>8 DEF Record
<1>10. \A t \in Slots \ {writing[d].slot} : local'[t] = local[t]
    BY <1>4, <1>5
<1> QED BY <1>1, <1>2, <1>6, <1>7, <1>9, <1>10

\* Filling it puts the record there, and touches no other.
LEMMA FillEffect ==
    ASSUME TypeOK, NEW d \in Dispatches, Fill(d)
    PROVE  LET slot == writing[d].slot IN
           /\ writing[d] \in Writings /\ slot \in Slots /\ writing[d].record \in Record
           /\ writing' = [writing EXCEPT ![d] = Nobody] /\ writing'[d] = Nobody
           /\ local'[slot] = writing[d].record
           /\ \A t \in Slots \ {slot} : local'[t] = local[t]
<1>1. writing[d] \in Writings
    BY DEF Fill, TypeOK
<1>2. writing[d].slot \in Slots /\ writing[d].record \in Record
    BY <1>1, Put
<1> QED BY <1>1, <1>2 DEF Fill, TypeOK, Archives

\* A remote apply makes the next version and records it in the job, if that is there.
LEMMA RemoteEffect ==
    ASSUME TypeOK, NEW d \in Dispatches, NEW s \in Slots, RemoteApply(d, s)
    PROVE  /\ built[s] \in Nat /\ built'[s] = built[s] + 1
           /\ built' = [built EXCEPT ![s] = built[s] + 1]
           /\ copy[d] \notin Archives => copy' = copy
           /\ copy[d] \in Archives =>
                /\ copy' = [copy EXCEPT ![d] = copy'[d]]
                /\ copy'[d] \in Archives
                /\ copy'[d][s] = [v |-> built'[s], home |-> d, inputs |-> d]
                /\ \A t \in Slots \ {s} : copy'[d][t] = copy[d][t]
<1>1. built[s] \in Versions /\ built[s] + 1 \in Versions /\ built'[s] = built[s] + 1
    BY Put DEF RemoteApply, TypeOK
<1>2. built[s] \in Nat
    BY <1>1, MaxVersionAssumption DEF Versions
<1>3. built' = [built EXCEPT ![s] = built[s] + 1]
    BY DEF RemoteApply
<1>4. copy[d] \in Archives => copy[d] # Nothing
    BY Kinds
<1>5. CASE copy[d] \notin Archives
    BY <1>1, <1>2, <1>3, <1>5 DEF RemoteApply, TypeOK
<1>6. CASE copy[d] \in Archives
  <2> DEFINE r == [v |-> built'[s], home |-> d, inputs |-> d]
             A == [copy[d] EXCEPT ![s] = r]
  <2>1. r \in Record
      BY <1>1, Put DEF Places
  <2>2. A \in Archives /\ A[s] = r /\ \A t \in Slots \ {s} : A[t] = copy[d][t]
      BY <1>6, <2>1, Put DEF Archives
  <2>3. copy' = [copy EXCEPT ![d] = A]
      BY <1>4, <1>6 DEF RemoteApply
  <2> HIDE DEF A, r
  <2>4. copy'[d] = A
      BY <2>3 DEF TypeOK
  <2> QED BY <1>1, <1>2, <1>3, <1>6, <2>2, <2>3, <2>4 DEF r
<1> QED BY <1>5, <1>6

\* What it leaves alone.
LEMMA RemoteBesides ==
    ASSUME TypeOK, NEW d \in Dispatches, NEW s \in Slots, RemoteApply(d, s),
           NEW t \in Slots, built'[t] = built[t]
    PROVE  /\ copy[d] \in Archives => copy'[d] \in Archives /\ copy'[d][t] = copy[d][t]
           /\ copy[d] \notin Archives => copy' = copy
<1>1. built[s] \in Nat /\ built'[s] = built[s] + 1
    BY RemoteEffect
<1>2. t \in Slots \ {s}
    BY <1>1
<1>3. CASE copy[d] \in Archives
  <2>1. copy'[d] \in Archives /\ \A u \in Slots \ {s} : copy'[d][u] = copy[d][u]
      BY <1>3, RemoteEffect
  <2> QED BY <1>2, <1>3, <2>1
<1>4. CASE copy[d] \notin Archives
    BY <1>4, RemoteEffect
<1> QED BY <1>3, <1>4

\* A local file is changed by a local command, or by a dispatch that opens or
\* fills it; whoever does it has touched it for all the others.
LEMMA LocalFrom ==
    ASSUME TypeOK, NEW d \in Dispatches, Moves(d), NEW t \in Slots
    PROVE  \/ local'[t] = local[t]
           \/ Open(d) /\ writing[d].slot = t
           \/ Fill(d) /\ writing[d].slot = t
<1>1. CASE Open(d)
    BY <1>1, OpenEffect
<1>2. CASE Fill(d)
    BY <1>2, FillEffect
<1>3. ASSUME ~Open(d), ~Fill(d) PROVE local' = local
    BY <1>3 DEF Moves, Prepare, Run, SyncBack, End, Setup, Bundle, PrepareFails, Prepared,
        RemoteApply, RemoteEnds, ConnectionLost, Collect, Download, FetchFails, NextMember,
        NextRepair, EndExtract, EndRepair, Verdict, Interrupt, UnpackFails, CleanStage,
        CleanJob, Killed
<1> QED BY <1>1, <1>2, <1>3


\* Where a record that a dispatch has after a step comes from.
HoldsFrom(d, e, t, r) ==
    \/ Holds(e, t, r)
    \/ e = d /\ Bundle(d) /\ r = local[t]
    \/ e = d /\ RemoteApply(d, t) /\ r = [v |-> built'[t], home |-> d, inputs |-> d]
    \/ /\ e = d /\ NextRepair(d, t)
       /\ local[t].v # Torn /\ local[t].home = d /\ r = [local[t] EXCEPT !.home = Here]

\* Every record a dispatch holds comes from the local file, from a place it held it
\* in before, or is of its own making.
LEMMA RecordsMove ==
    ASSUME TypeOK, ShapeInv, NEW d \in Dispatches, Moves(d),
           NEW e \in Dispatches, NEW t \in Slots, NEW r, Holds(e, t, r)'
    PROVE  HoldsFrom(d, e, t, r)
<1> USE Kinds
<1>1. CASE Setup(d)
    BY <1>1 DEF Setup, HoldsFrom, Holds, Writes, Goto, away, fetched, history, TypeOK
<1>2. CASE Bundle(d)
    BY <1>2 DEF Bundle, HoldsFrom, Holds, Writes, Goto, away, fetched, history, TypeOK
<1>3. CASE PrepareFails(d)
    BY <1>3 DEF PrepareFails, HoldsFrom, Holds, Writes, Goto, away, fetched, history, TypeOK
<1>4. CASE Prepared(d)
    BY <1>4 DEF Prepared, HoldsFrom, Holds, Writes, Goto, away, fetched, history, TypeOK
<1>5. ASSUME NEW s \in Slots, RemoteApply(d, s) PROVE HoldsFrom(d, e, t, r)
    <2>1. CASE e = d /\ copy[d] \in Archives
      <3>1. result' = result /\ stage' = stage /\ writing' = writing
          BY <1>5 DEF RemoteApply, fetched
      <3>2. /\ copy'[d] \in Archives
            /\ copy'[d][s] = [v |-> built'[s], home |-> d, inputs |-> d]
            /\ \A u \in Slots \ {s} : copy'[d][u] = copy[d][u]
          BY <1>5, <2>1, RemoteEffect
      <3>3. CASE t = s
          BY <1>5, <2>1, <3>1, <3>2, <3>3 DEF HoldsFrom, Holds, Writes
      <3>4. CASE t # s
          BY <1>5, <2>1, <3>1, <3>2, <3>4 DEF HoldsFrom, Holds, Writes
      <3> QED BY <3>3, <3>4
    <2>2. CASE ~(e = d /\ copy[d] \in Archives)
        BY <1>5, <2>2, RemoteEffect DEF RemoteApply, HoldsFrom, Holds, Writes, fetched, TypeOK
    <2> QED BY <2>1, <2>2
<1>6. CASE RemoteEnds(d)
    BY <1>6 DEF RemoteEnds, HoldsFrom, Holds, Writes, Goto, away, fetched, history, TypeOK
<1>7. CASE ConnectionLost(d)
    BY <1>7 DEF ConnectionLost, HoldsFrom, Holds, Writes, Goto, away, fetched, history, TypeOK
<1>8. CASE Collect(d)
    BY <1>8 DEF Collect, HoldsFrom, Holds, Writes, Goto, away, fetched, history, TypeOK
<1>9. CASE Download(d)
    BY <1>9 DEF Download, HoldsFrom, Holds, Writes, Goto, away, fetched, history, TypeOK
<1>10. CASE FetchFails(d)
    BY <1>10 DEF FetchFails, HoldsFrom, Holds, Writes, Goto, away, fetched, history, TypeOK
<1>11. ASSUME NEW s \in Slots, NextMember(d, s) PROVE HoldsFrom(d, e, t, r)
    BY <1>11 DEF NextMember, HoldsFrom, Holds, Writes, Goto, away, fetched, history, TypeOK,
        ShapeInv, Landing
<1>12. ASSUME NEW s \in Slots, NextRepair(d, s) PROVE HoldsFrom(d, e, t, r)
    BY <1>12 DEF NextRepair, HoldsFrom, Holds, Writes, Goto, away, fetched, history, TypeOK
<1>13. CASE Open(d)
    BY <1>13, OpenEffect DEF Open, HoldsFrom, Holds, Writes, away, TypeOK
<1>14. CASE Fill(d)
    BY <1>14, FillEffect DEF Fill, HoldsFrom, Holds, Writes, away, TypeOK
<1>15. CASE EndExtract(d)
    BY <1>15 DEF EndExtract, HoldsFrom, Holds, Writes, Goto, away, fetched, history, TypeOK
<1>16. CASE EndRepair(d)
    BY <1>16 DEF EndRepair, HoldsFrom, Holds, Writes, Goto, away, fetched, history, TypeOK
<1>17. CASE Verdict(d)
    BY <1>17 DEF Verdict, HoldsFrom, Holds, Writes, Goto, away, fetched, history, TypeOK
<1>18. CASE Interrupt(d) \/ UnpackFails(d)
    BY <1>18 DEF Interrupt, UnpackFails, HoldsFrom, Holds, Writes, Goto, away, fetched,
        history, TypeOK
<1>19. CASE CleanStage(d)
    BY <1>19 DEF CleanStage, HoldsFrom, Holds, Writes, Goto, away, fetched, history, TypeOK
<1>20. CASE CleanJob(d)
    BY <1>20 DEF CleanJob, HoldsFrom, Holds, Writes, Goto, away, fetched, history, TypeOK
<1>21. CASE Killed(d)
    BY <1>21 DEF Killed, HoldsFrom, Holds, Writes, Goto, away, fetched, history, TypeOK
<1> QED BY <1>1, <1>2, <1>3, <1>4, <1>5, <1>6, <1>7, <1>8, <1>9, <1>10, <1>11, <1>12, <1>13,
            <1>14, <1>15, <1>16, <1>17, <1>18, <1>19, <1>20, <1>21 DEF Moves, Prepare, Run,
            SyncBack, End

\* What does not come back.
Grows(e) ==
    /\ Begun(e) => Begun(e)'
    /\ cut[e] => cut'[e]
    /\ pc[e] \notin {"idle", "bundle"} =>
          pc'[e] \notin {"idle", "bundle"} /\ touched[e] \subseteq touched'[e]
    /\ pc[e] \notin {"idle", "bundle"} /\ pc'[e] \in Carrying => pc[e] \in Carrying
    /\ pc[e] = "killed" => pc'[e] = "killed"
    /\ status[e] \in {"cancelled", "failed"} => status'[e] = status[e]

\* Dispatches only go forward: begun, touched and ended stay so.
LEMMA Growth == TypeOK /\ ShapeInv /\ [Next]_vars => \A e \in Dispatches : Grows(e)
<1> SUFFICES ASSUME TypeOK, ShapeInv, [Next]_vars, NEW e \in Dispatches PROVE Grows(e)
    OBVIOUS
<1>1. ASSUME NEW s \in Slots, LocalApply(s) PROVE Grows(e)
    BY <1>1 DEF LocalApply, Touch, Grows, Begun, Carrying, ShapeInv, Ended, Goto, away,
        fetched, history, TypeOK
<1>2. ASSUME NEW d \in Dispatches, Prepare(d) \/ Run(d) \/ SyncBack(d) \/ End(d)
      PROVE  Grows(e)
  <2>1. CASE Setup(d)
      BY <2>1 DEF Setup, Grows, Begun, Carrying, ShapeInv, Ended, Goto, away, fetched,
          history, TypeOK
  <2>2. CASE Bundle(d)
      BY <2>2 DEF Bundle, Grows, Begun, Carrying, ShapeInv, Ended, Goto, away, fetched,
          history, TypeOK
  <2>3. CASE PrepareFails(d)
      BY <2>3 DEF PrepareFails, Grows, Begun, Carrying, ShapeInv, Ended, Goto, away, fetched,
          history, TypeOK, Active, Guarded, Preparing
  <2>4. CASE Prepared(d)
      BY <2>4 DEF Prepared, Grows, Begun, Carrying, ShapeInv, Ended, Goto, away, fetched,
          history, TypeOK
  <2>5. ASSUME NEW s \in Slots, RemoteApply(d, s) PROVE Grows(e)
      BY <2>5 DEF RemoteApply, Grows, Begun, Carrying, ShapeInv, Ended, Goto, away, fetched,
          history, TypeOK
  <2>6. CASE RemoteEnds(d)
      BY <2>6 DEF RemoteEnds, Grows, Begun, Carrying, ShapeInv, Ended, Goto, away, fetched,
          history, TypeOK
  <2>7. CASE ConnectionLost(d)
      BY <2>7 DEF ConnectionLost, Grows, Begun, Carrying, ShapeInv, Ended, Goto, away,
          fetched, history, TypeOK
  <2>8. CASE Collect(d)
      BY <2>8 DEF Collect, Grows, Begun, Carrying, ShapeInv, Ended, Goto, away, fetched,
          history, TypeOK
  <2>9. CASE Download(d)
      BY <2>9 DEF Download, Grows, Begun, Carrying, ShapeInv, Ended, Goto, away, fetched,
          history, TypeOK
  <2>10. CASE FetchFails(d)
      BY <2>10 DEF FetchFails, Grows, Begun, Carrying, ShapeInv, Ended, Goto, away, fetched,
          history, TypeOK
  <2>11. ASSUME NEW s \in Slots, NextMember(d, s) PROVE Grows(e)
      BY <2>11 DEF NextMember, Grows, Begun, Carrying, ShapeInv, Ended, Goto, away, fetched,
          history, TypeOK
  <2>12. ASSUME NEW s \in Slots, NextRepair(d, s) PROVE Grows(e)
      BY <2>12 DEF NextRepair, Grows, Begun, Carrying, ShapeInv, Ended, Goto, away, fetched,
          history, TypeOK
  <2>13. CASE Open(d)
      BY <2>13 DEF Open, Touch, Grows, Begun, Carrying, ShapeInv, Ended, Goto, away, fetched,
          history, TypeOK
  <2>14. CASE Fill(d)
      BY <2>14 DEF Fill, Touch, Grows, Begun, Carrying, ShapeInv, Ended, Goto, away, fetched,
          history, TypeOK
  <2>15. CASE EndExtract(d)
      BY <2>15 DEF EndExtract, Grows, Begun, Carrying, ShapeInv, Ended, Goto, away, fetched,
          history, TypeOK
  <2>16. CASE EndRepair(d)
      BY <2>16 DEF EndRepair, Grows, Begun, Carrying, ShapeInv, Ended, Goto, away, fetched,
          history, TypeOK
  <2>17. CASE Verdict(d)
      BY <2>17 DEF Verdict, Grows, Begun, Carrying, ShapeInv, Ended, Goto, away, fetched,
          history, TypeOK
  <2>18. CASE Interrupt(d) \/ UnpackFails(d)
      BY <2>18 DEF Interrupt, UnpackFails, Grows, Begun, Carrying, ShapeInv, Ended, Goto,
          away, fetched,
          history, TypeOK, Active, Guarded, Preparing
  <2>19. CASE CleanStage(d)
      BY <2>19 DEF CleanStage, Grows, Begun, Carrying, ShapeInv, Ended, Goto, away, fetched,
          history, TypeOK
  <2>20. CASE CleanJob(d)
      BY <2>20 DEF CleanJob, Grows, Begun, Carrying, ShapeInv, Ended, Goto, away, fetched,
          history, TypeOK
  <2>21. CASE Killed(d)
      BY <2>21 DEF Killed, Grows, Begun, Carrying, ShapeInv, Ended, Goto, away, fetched,
          history, TypeOK, Active, Guarded, Preparing
  <2> QED BY <1>2, <2>1, <2>2, <2>3, <2>4, <2>5, <2>6, <2>7, <2>8, <2>9, <2>10, <2>11, <2>12,
              <2>13, <2>14, <2>15, <2>16, <2>17, <2>18, <2>19, <2>20, <2>21 DEF Prepare, Run,
              SyncBack, End
<1>3. CASE UNCHANGED vars
    BY <1>3 DEF vars, away, fetched, history, Grows, Begun, Carrying, ShapeInv, Ended, Goto,
        away, fetched, history, TypeOK
<1> QED BY <1>1, <1>2, <1>3 DEF Next

\* Versions only grow.
LEMMA BuiltGrows == TypeOK /\ [Next]_vars =>
    \A s \in Slots : built[s] \in Nat /\ built'[s] \in Nat /\ built[s] <= built'[s]
<1> SUFFICES ASSUME TypeOK, [Next]_vars, NEW s \in Slots
             PROVE  built[s] \in Nat /\ built'[s] \in Nat /\ built[s] <= built'[s]
    OBVIOUS
<1>1. built \in [Slots -> Nat]
    BY MaxVersionAssumption DEF TypeOK, Versions
<1>2. \/ built' = built
      \/ \E t \in Slots : built' = [built EXCEPT ![t] = @ + 1]
    BY DEF Next, vars, Prepare, Run, SyncBack, End, Setup, Bundle, PrepareFails, Prepared,
        RemoteApply, RemoteEnds, ConnectionLost, Collect, Download, FetchFails, NextMember,
        NextRepair, Open, Fill, EndExtract, EndRepair, Verdict, Interrupt, UnpackFails,
        CleanStage,
        CleanJob, Killed, LocalApply
<1> QED BY <1>1, <1>2

\* What excuses a path left behind does not go away.
LEMMA ExcuseStays ==
    ASSUME TypeOK, ShapeInv, [Next]_vars, NEW s \in Slots, NEW d \in Dispatches, Excused(s, d)
    PROVE  Excused(s, d)'
BY Growth DEF Excused, Overtaken, Grows

\* What is written when, by whom.
LEMMA MemberEffect ==
    ASSUME TypeOK, ShapeInv, NEW d \in Dispatches, NEW s \in Slots, NextMember(d, s)
    PROVE  /\ stage[d] \in Archives
           /\ writing' = [writing EXCEPT ![d] = writing'[d]]
           /\ writing'[d] \in Writings /\ writing'[d].slot = s /\ ~writing'[d].open
           /\ writing'[d].record = stage[d][s]
<1> DEFINE w == [slot |-> s, record |-> stage[d][s], open |-> FALSE]
<1>1. stage[d] \in Archives
    BY DEF NextMember, ShapeInv, Landing
<1>2. w \in Writings /\ w.slot = s /\ ~w.open /\ w.record = stage[d][s]
    BY <1>1, Put DEF Writings
<1>3. writing' = [writing EXCEPT ![d] = w]
    BY DEF NextMember
<1> HIDE DEF w
<1> QED BY <1>1, <1>2, <1>3 DEF TypeOK

\* A repair rewrites a file of this job with its version and the local path.
LEMMA RepairEffect ==
    ASSUME TypeOK, NEW d \in Dispatches, NEW s \in Slots, NextRepair(d, s)
    PROVE  \/ /\ local[s].v # Torn /\ local[s].home = d
              /\ writing' = [writing EXCEPT ![d] = writing'[d]]
              /\ writing'[d] \in Writings /\ writing'[d].slot = s /\ ~writing'[d].open
              /\ writing'[d].record.v = local[s].v /\ writing'[d].record.home = Here
           \/ /\ ~(local[s].v # Torn /\ local[s].home = d)
              /\ writing' = writing
<1> DEFINE r == [local[s] EXCEPT !.home = Here]
           w == [slot |-> s, open |-> FALSE, record |-> r]
<1>1. r \in Record /\ r.v = local[s].v /\ r.home = Here
  <2>1. local[s] \in Record
      BY Put DEF TypeOK
  <2> QED BY <2>1, Put DEF Record
<1>2. w \in Writings /\ w.slot = s /\ ~w.open /\ w.record = r
    BY <1>1 DEF Writings
<1>3. IF local[s].v # Torn /\ local[s].home = d
      THEN writing' = [writing EXCEPT ![d] = w] ELSE writing' = writing
    BY DEF NextRepair
<1> HIDE DEF w, r
<1> QED BY <1>1, <1>2, <1>3 DEF TypeOK

\* A dispatch leaves all that is another one's alone.
Own(d) == <<pc[d], status[d], rc[d], jobRoot[d], copy[d], remote[d], result[d], stage[d],
            todo[d], writing[d], cut[d]>>

\* What a dispatch has in its places is its own: no other moves it.
LEMMA OthersStay ==
    ASSUME TypeOK, NEW d \in Dispatches, Moves(d), NEW e \in Dispatches \ {d}
    PROVE  Own(e)' = Own(e)
<1>1. CASE Setup(d)
    BY <1>1 DEF Setup, Own, Goto, away, fetched, history, TypeOK
<1>2. CASE Bundle(d)
    BY <1>2 DEF Bundle, Own, Goto, away, fetched, history, TypeOK
<1>3. CASE PrepareFails(d)
    BY <1>3 DEF PrepareFails, Own, Goto, away, fetched, history, TypeOK
<1>4. CASE Prepared(d)
    BY <1>4 DEF Prepared, Own, Goto, away, fetched, history, TypeOK
<1>5. ASSUME NEW s \in Slots, RemoteApply(d, s) PROVE Own(e)' = Own(e)
    <2>1. copy' = copy \/ copy' = [copy EXCEPT ![d] = copy'[d]]
        BY <1>5, RemoteEffect
    <2> QED BY <1>5, <2>1 DEF RemoteApply, Own, fetched, TypeOK
<1>6. CASE RemoteEnds(d)
    BY <1>6 DEF RemoteEnds, Own, Goto, away, fetched, history, TypeOK
<1>7. CASE ConnectionLost(d)
    BY <1>7 DEF ConnectionLost, Own, Goto, away, fetched, history, TypeOK
<1>8. CASE Collect(d)
    BY <1>8 DEF Collect, Own, Goto, away, fetched, history, TypeOK
<1>9. CASE Download(d)
    BY <1>9 DEF Download, Own, Goto, away, fetched, history, TypeOK
<1>10. CASE FetchFails(d)
    BY <1>10 DEF FetchFails, Own, Goto, away, fetched, history, TypeOK
<1>11. ASSUME NEW s \in Slots, NextMember(d, s) PROVE Own(e)' = Own(e)
    BY <1>11 DEF NextMember, Own, Goto, away, fetched, history, TypeOK
<1>12. ASSUME NEW s \in Slots, NextRepair(d, s) PROVE Own(e)' = Own(e)
    BY <1>12 DEF NextRepair, Own, Goto, away, fetched, history, TypeOK
<1>13. CASE Open(d)
    BY <1>13 DEF Open, Touch, Own, Goto, away, fetched, history, TypeOK
<1>14. CASE Fill(d)
    BY <1>14 DEF Fill, Touch, Own, Goto, away, fetched, history, TypeOK
<1>15. CASE EndExtract(d)
    BY <1>15 DEF EndExtract, Own, Goto, away, fetched, history, TypeOK
<1>16. CASE EndRepair(d)
    BY <1>16 DEF EndRepair, Own, Goto, away, fetched, history, TypeOK
<1>17. CASE Verdict(d)
    BY <1>17 DEF Verdict, Own, Goto, away, fetched, history, TypeOK
<1>18. CASE Interrupt(d) \/ UnpackFails(d)
    BY <1>18 DEF Interrupt, UnpackFails, Own, Goto, away, fetched, history, TypeOK
<1>19. CASE CleanStage(d)
    BY <1>19 DEF CleanStage, Own, Goto, away, fetched, history, TypeOK
<1>20. CASE CleanJob(d)
    BY <1>20 DEF CleanJob, Own, Goto, away, fetched, history, TypeOK
<1>21. CASE Killed(d)
    BY <1>21 DEF Killed, Own, Goto, away, fetched, history, TypeOK
<1> QED BY <1>1, <1>2, <1>3, <1>4, <1>5, <1>6, <1>7, <1>8, <1>9, <1>10, <1>11, <1>12, <1>13,
            <1>14, <1>15, <1>16, <1>17, <1>18, <1>19, <1>20, <1>21 DEF Moves, Prepare, Run,
            SyncBack, End

\* What can happen while a dispatch unpacks and repairs.
LEMMA WhileLanding ==
    ASSUME TypeOK, NEW d \in Dispatches, Moves(d), pc[d] \in {"extract", "repair"}
    PROVE  \/ \E s \in Slots : NextMember(d, s) \/ NextRepair(d, s)
           \/ Open(d) \/ Fill(d) \/ EndExtract(d) \/ EndRepair(d)
           \/ Interrupt(d) \/ UnpackFails(d) \/ Killed(d)
           \/ UNCHANGED <<local, pc, status, stage, todo, writing, cut, touched>>
BY DEF Moves, Prepare, Run, SyncBack, End, Setup, Bundle, PrepareFails, Prepared, RemoteApply,
    RemoteEnds, ConnectionLost, Collect, Download, FetchFails, Verdict, CleanStage, CleanJob,
    Preparing, fetched, history

\* Whoever writes a file touches it for all others that are away.
LEMMA TouchOthers ==
    ASSUME TypeOK, NEW d \in Dispatches, Open(d) \/ Fill(d), NEW s \in Slots,
        writing[d].slot = s,
           NEW e \in Dispatches \ {d}
    PROVE  /\ pc'[e] = pc[e]
           /\ pc[e] \in Active => s \in touched'[e]
           /\ pc[e] \in Carrying => Overtaken(s)'
<1>1. pc' = pc /\ Touch(s, Dispatches \ {d})
    BY DEF Open, Fill
<1>2. pc[e] \in Active => s \in touched'[e]
    BY <1>1 DEF Touch, TypeOK
<1>3. pc[e] \in Carrying => pc[e] \in Active /\ pc[e] \notin {"idle", "bundle"}
    BY DEF Carrying, Active, Guarded, Preparing
<1> QED BY <1>1, <1>2, <1>3 DEF Overtaken

\* A local apply is noted by every dispatch under way.
LEMMA TouchAll ==
    ASSUME TypeOK, NEW s \in Slots, LocalApply(s), NEW e \in Dispatches, pc[e] \in Active
    PROVE  /\ s \in touched'[e]
           /\ pc[e] \in Carrying => Overtaken(s)'
BY DEF LocalApply, Touch, TypeOK, Active, Guarded, Preparing, Carrying, Overtaken

\* Every step leaves the places of a dispatch as its position says.
LEMMA ShapeStep == TypeOK /\ ShapeInv /\ [Next]_vars => ShapeInv'
<1> SUFFICES ASSUME TypeOK, ShapeInv, [Next]_vars PROVE ShapeInv'
    OBVIOUS
<1>1. ASSUME NEW s \in Slots, LocalApply(s) PROVE ShapeInv'
    BY <1>1 DEF LocalApply, Touch, Goto, away, fetched, history, TypeOK, ShapeInv, Carrying,
        Landing, Ended
<1>2. ASSUME NEW d \in Dispatches, Prepare(d) \/ Run(d) \/ SyncBack(d) \/ End(d)
      PROVE  ShapeInv'
  <2>1. CASE Setup(d)
      BY <2>1 DEF Setup, Goto, away, fetched, history, TypeOK, ShapeInv, Carrying, Landing,
          Ended
  <2>2. CASE Bundle(d)
      BY <2>2 DEF Bundle, Goto, away, fetched, history, TypeOK, ShapeInv, Carrying, Landing,
          Ended
  <2>3. CASE PrepareFails(d)
      BY <2>3 DEF PrepareFails, Goto, away, fetched, history, TypeOK, ShapeInv, Carrying,
          Landing, Ended, Active, Guarded, Preparing
  <2>4. CASE Prepared(d)
      BY <2>4 DEF Prepared, Goto, away, fetched, history, TypeOK, ShapeInv, Carrying, Landing,
          Ended
  <2>5. ASSUME NEW s \in Slots, RemoteApply(d, s) PROVE ShapeInv'
    <3>1. UNCHANGED <<pc, status, jobRoot, remote, result, fetched, cut>> /\ remote[d] = "on"
        BY <2>5 DEF RemoteApply
    <3>2. ASSUME NEW e \in Dispatches
          PROVE  /\ copy[e] \in Archives => copy'[e] \in Archives
                 /\ e # d => copy'[e] = copy[e]
      <4>1. \/ copy' = copy
            \/ copy' = [copy EXCEPT ![d] = copy'[d]] /\ copy'[d] \in Archives
          BY <2>5, RemoteEffect
      <4>2. DOMAIN copy = Dispatches
          BY DEF TypeOK
      <4> QED BY <4>1, <4>2
    <3>3. pc[d] \notin {"idle", "bundle"}
        BY <3>1 DEF ShapeInv
    <3> QED BY <3>1, <3>2, <3>3 DEF fetched, ShapeInv
  <2>6. CASE RemoteEnds(d)
      BY <2>6 DEF RemoteEnds, Goto, away, fetched, history, TypeOK, ShapeInv, Carrying,
          Landing, Ended
  <2>7. CASE ConnectionLost(d)
      BY <2>7 DEF ConnectionLost, Goto, away, fetched, history, TypeOK, ShapeInv, Carrying,
          Landing, Ended
  <2>8. CASE Collect(d)
      BY <2>8 DEF Collect, Goto, away, fetched, history, TypeOK, ShapeInv, Carrying, Landing,
          Ended
  <2>9. CASE Download(d)
      BY <2>9 DEF Download, Goto, away, fetched, history, TypeOK, ShapeInv, Carrying, Landing,
          Ended
  <2>10. CASE FetchFails(d)
      BY <2>10 DEF FetchFails, Goto, away, fetched, history, TypeOK, ShapeInv, Carrying,
          Landing, Ended
  <2>11. ASSUME NEW s \in Slots, NextMember(d, s) PROVE ShapeInv'
      BY <2>11 DEF NextMember, Goto, away, fetched, history, TypeOK, ShapeInv, Carrying,
          Landing, Ended
  <2>12. ASSUME NEW s \in Slots, NextRepair(d, s) PROVE ShapeInv'
      BY <2>12 DEF NextRepair, Goto, away, fetched, history, TypeOK, ShapeInv, Carrying,
          Landing, Ended
  <2>13. CASE Open(d)
    BY <2>13, OpenEffect DEF Open, Touch, away, TypeOK, ShapeInv, Carrying, Landing, Ended
  <2>14. CASE Fill(d)
    BY <2>14, FillEffect DEF Fill, Touch, away, TypeOK, ShapeInv, Carrying, Landing, Ended
  <2>15. CASE EndExtract(d)
      BY <2>15 DEF EndExtract, Goto, away, fetched, history, TypeOK, ShapeInv, Carrying,
          Landing, Ended
  <2>16. CASE EndRepair(d)
      BY <2>16 DEF EndRepair, Goto, away, fetched, history, TypeOK, ShapeInv, Carrying,
          Landing, Ended
  <2>17. CASE Verdict(d)
      BY <2>17 DEF Verdict, Goto, away, fetched, history, TypeOK, ShapeInv, Carrying, Landing,
          Ended
  <2>18. CASE Interrupt(d) \/ UnpackFails(d)
    <3>1. CASE Interrupt(d)
        BY <3>1 DEF Interrupt, Goto, away, fetched, history, TypeOK, ShapeInv, Carrying,
            Landing, Ended, Active, Guarded, Preparing
    <3>2. CASE UnpackFails(d)
        BY <3>2 DEF UnpackFails, Goto, away, fetched, history, TypeOK, ShapeInv, Carrying,
            Landing, Ended
    <3> QED BY <2>18, <3>1, <3>2
  <2>19. CASE CleanStage(d)
      BY <2>19 DEF CleanStage, Goto, away, fetched, history, TypeOK, ShapeInv, Carrying,
          Landing, Ended
  <2>20. CASE CleanJob(d)
      BY <2>20 DEF CleanJob, Goto, away, fetched, history, TypeOK, ShapeInv, Carrying,
          Landing, Ended
  <2>21. CASE Killed(d)
      BY <2>21 DEF Killed, Goto, away, fetched, history, TypeOK, ShapeInv, Carrying, Landing,
          Ended, Active, Guarded, Preparing
  <2> QED BY <1>2, <2>1, <2>2, <2>3, <2>4, <2>5, <2>6, <2>7, <2>8, <2>9, <2>10, <2>11, <2>12,
              <2>13, <2>14, <2>15, <2>16, <2>17, <2>18, <2>19, <2>20, <2>21 DEF Prepare, Run,
              SyncBack, End
<1>3. CASE UNCHANGED vars
    BY <1>3 DEF vars, away, fetched, history, Goto, away, fetched, history, TypeOK, ShapeInv,
        Carrying, Landing, Ended
<1> QED BY <1>1, <1>2, <1>3 DEF Next


-----------------------------------------------------------------------------
(* The inductive steps                                                        *)

\* Genuine, after the step.
StillGenuine(s, r) ==
    /\ r.v <= built'[s]
    /\ r.home \in Dispatches => pc'[r.home] \notin {"idle", "bundle", "upload"}

\* A genuine record stays genuine.
LEMMA GenuineStays ==
    ASSUME TypeOK, ShapeInv, [Next]_vars, NEW s \in Slots, NEW r \in Record, Genuine(s, r)
    PROVE  StillGenuine(s, r)
<1>1. r.v \in Int /\ built[s] \in Nat /\ built'[s] \in Nat /\ built[s] <= built'[s]
    BY Put, BuiltGrows
<1> QED BY <1>1, Growth DEF Genuine, StillGenuine, Grows, Begun

\* No step makes a record of a version nobody has made.
LEMMA VersionStep == TypeOK /\ ShapeInv /\ VersionInv /\ [Next]_vars => VersionInv'
<1> SUFFICES ASSUME TypeOK, ShapeInv, VersionInv, [Next]_vars PROVE VersionInv'
    OBVIOUS
<1>1. \A s \in Slots : /\ local[s] \in Record /\ local[s].v \in Int
                       /\ built[s] \in Nat /\ built'[s] \in Nat
    BY Put, BuiltGrows DEF TypeOK
<1>2. ASSUME NEW t \in Slots, LocalApply(t), NEW s \in Slots
      PROVE  /\ StillGenuine(s, local'[s])
             /\ \A d \in Dispatches, r \in Record :
                   Holds(d, s, r)' => StillGenuine(s, r) /\ (r.home = d => r.v # Torn)
  <2>1. s = t => local'[s] = [v |-> built'[s], home |-> Here, inputs |-> Here]
      BY <1>2 DEF LocalApply, TypeOK, Archives
  <2>2. s # t => local'[s] = local[s]
      BY <1>2 DEF LocalApply, TypeOK, Archives
  <2>3. StillGenuine(s, local'[s])
      BY <1>1, <2>1, <2>2, GenuineStays, HereAssumption DEF VersionInv, Genuine, StillGenuine
  <2>4. ASSUME NEW d \in Dispatches, NEW r \in Record, Holds(d, s, r)' PROVE Holds(d, s, r)
      BY <1>2, <2>4 DEF LocalApply, Holds, Writes, away, fetched
  <2> QED BY <2>3, <2>4, GenuineStays DEF VersionInv, Genuine, StillGenuine
<1>3. ASSUME NEW d \in Dispatches, Moves(d), NEW s \in Slots
      PROVE  /\ StillGenuine(s, local'[s])
             /\ \A e \in Dispatches, r \in Record :
                   Holds(e, s, r)' => StillGenuine(s, r) /\ (r.home = e => r.v # Torn)
  <2>1. StillGenuine(s, local'[s])
    <3>1. CASE local'[s] = local[s]
        BY <1>1, <3>1, GenuineStays DEF VersionInv
    <3>2. CASE Open(d) /\ writing[d].slot = s
      <4>1. local'[s].v = Torn /\ local'[s].home = local[s].home
          BY <3>2, OpenEffect
      <4>2. StillGenuine(s, local[s])
          BY <1>1, GenuineStays DEF VersionInv
      <4> QED BY <1>1, <4>1, <4>2 DEF StillGenuine, Torn
    <3>3. CASE Fill(d) /\ writing[d].slot = s
      <4>1. local'[s] = writing[d].record /\ writing[d].record \in Record
          BY <3>3, FillEffect
      <4>2. Holds(d, s, writing[d].record)
          BY <3>3 DEF Fill, Holds, Writes
      <4> QED BY <4>1, <4>2, GenuineStays DEF VersionInv
    <3> QED BY <1>3, <3>1, <3>2, <3>3, LocalFrom
  <2>2. ASSUME NEW e \in Dispatches, NEW r \in Record, Holds(e, s, r)'
        PROVE  StillGenuine(s, r) /\ (r.home = e => r.v # Torn)
    <3>1. CASE Holds(e, s, r)
        BY <3>1, GenuineStays DEF VersionInv
    <3>2. CASE e = d /\ Bundle(d) /\ r = local[s]
      <4>1. ~Begun(d)
          BY <3>2 DEF Bundle, Begun
      <4> QED BY <3>2, <4>1, GenuineStays DEF VersionInv, Genuine, StillGenuine
    <3>3. CASE e = d /\ RemoteApply(d, s) /\ r = [v |-> built'[s], home |-> d, inputs |-> d]
      <4>1. Begun(d)'
        <5>1. Begun(d)
            BY <3>3 DEF RemoteApply, Begun, ShapeInv
        <5> QED BY <5>1, Growth DEF Grows
      <4> QED BY <1>1, <3>3, <4>1 DEF StillGenuine, Torn, Begun
    <3>4. CASE /\ e = d /\ NextRepair(d, s)
               /\ local[s].v # Torn /\ local[s].home = d /\ r = [local[s] EXCEPT !.home = Here]
      <4>1. r.v = local[s].v /\ r.home = Here
          BY <1>1, <3>4 DEF Record
      <4>2. StillGenuine(s, local[s])
          BY <1>1, GenuineStays DEF VersionInv
      <4>3. StillGenuine(s, r)
        <5>1. r.v <= built'[s]
          <6>1. local[s].v <= built[s] /\ built[s] <= built'[s]
              BY BuiltGrows DEF VersionInv, Genuine, StillGenuine
          <6> QED BY <1>1, <4>1, <6>1
        <5> QED BY <4>1, <5>1, HereAssumption DEF StillGenuine
      <4> QED BY <3>4, <4>1, <4>3
    <3> QED BY <1>3, <2>2, <3>1, <3>2, <3>3, <3>4, RecordsMove DEF HoldsFrom
  <2> QED BY <2>1, <2>2
<1>4. CASE UNCHANGED vars
    BY <1>4 DEF vars, VersionInv, Genuine, StillGenuine, Holds, Writes, Begun
<1> QED BY <1>2, <1>3, <1>4 DEF Next, Moves, VersionInv, Genuine, StillGenuine, Begun

\* A path that comes to a file, by the hand of a dispatch that unpacks it, ...
LEMMA PathStep ==
    TypeOK /\ ShapeInv /\ VersionInv /\ PathInv /\ HeldInv /\ UnpackedInv /\ [Next]_vars => PathInv'
<1> SUFFICES ASSUME TypeOK, ShapeInv, VersionInv, PathInv, HeldInv, UnpackedInv, [Next]_vars,
                    NEW s \in Slots, NEW d \in Dispatches, local'[s].home = d, ~Excused(s, d)'
             PROVE  Mending(s, d)'
    BY DEF PathInv
<1>1. ~Excused(s, d)
    BY ExcuseStays
<1>2. local[s].home = d => Mending(s, d)
    BY <1>1 DEF PathInv
<1>3. d # Here
    BY HereAssumption
<1>4. ASSUME NEW t \in Slots, LocalApply(t) PROVE Mending(s, d)'
  <2>1. s = t => local'[s].home = Here
      BY <1>4 DEF LocalApply, TypeOK, Archives
  <2>2. local'[s] = local[s]
      BY <1>3, <1>4, <2>1 DEF LocalApply, TypeOK, Archives
  <2> QED BY <1>2, <1>4, <2>2 DEF LocalApply, Mending, Opened, Writes, fetched
<1>5. ASSUME NEW e \in Dispatches, Moves(e) PROVE Mending(s, d)'
  <2>1. CASE Open(e) /\ writing[e].slot = s
    <3>1. local'[s].home = local[s].home
        BY <2>1, OpenEffect
    <3>2. Mending(s, d)
        BY <1>2, <3>1
    <3>3. e = d
        BY <1>1, <2>1, <3>2, TouchOthers DEF Mending, Carrying, Excused
    <3>4. Opened(d, s)' /\ pc'[d] \in {"extract", "repair"}
        BY <2>1, <3>3, OpenEffect, Kinds DEF Open, Opened, Writes
    <3> QED BY <3>4 DEF Mending, Opened
  <2>2. CASE Fill(e) /\ writing[e].slot = s
    <3> DEFINE r == writing[e].record
    <3>1. local'[s] = r /\ r \in Record
        BY <2>2, FillEffect
    <3>2. Holds(e, s, r) /\ pc[e] \in {"extract", "repair"} /\ Writes(e, s)
        BY <2>2 DEF Fill, Holds, Writes
    <3>3. CASE e = d
      <4>1. r.v # Torn
          BY <3>1, <3>2, <3>3 DEF VersionInv
      <4>2. pc[d] = "extract" /\ pc'[d] = "extract"
          BY <2>2, <3>1, <3>2, <3>3 DEF UnpackedInv, Unpacks, Fill
      <4> QED BY <3>1, <4>1, <4>2 DEF Mending
    <3>4. CASE e # d
      <4>1. local[s].home = d
          BY <1>1, <3>1, <3>2, <3>4 DEF HeldInv, Carrying
      <4>2. pc[d] \in Carrying
          BY <1>2, <4>1 DEF Mending, Carrying
      <4> QED BY <2>2, <3>4, <4>2, TouchOthers DEF Excused
    <3> QED BY <3>3, <3>4
  <2>3. CASE /\ local'[s] = local[s]
             /\ ~(Open(e) /\ writing[e].slot = s)
             /\ ~(Fill(e) /\ writing[e].slot = s)
    <3>1. Mending(s, d)
        BY <1>2, <2>3
    <3>2. CASE e # d
        BY <1>5, <2>3, <3>1, <3>2, OthersStay DEF Own, Mending, Opened, Writes
    <3>3. CASE e = d
      <4> USE <2>3, <3>1, <3>3 DEF Mending
      <4>1. ASSUME NEW t \in Slots, NextMember(d, t) PROVE Mending(s, d)'
          BY <4>1 DEF NextMember, Opened, Writes, Goto, TypeOK
      <4>2. ASSUME NEW t \in Slots, NextRepair(d, t) PROVE Mending(s, d)'
        <5>1. local[s].v # Torn /\ s \in todo[d] /\ local[s].home = d
            BY <4>2 DEF NextRepair, Opened, Writes
        <5>2. CASE t # s
            BY <4>2, <5>1, <5>2 DEF NextRepair, TypeOK
        <5>3. CASE t = s
          <6>1. writing'[d] \in Writings /\ writing'[d].slot = s
              BY <4>2, <5>1, <5>3, RepairEffect
          <6> QED BY <4>2, <5>1, <6>1, Kinds DEF NextRepair, Writes
        <5> QED BY <5>2, <5>3
      <4>3. CASE Open(d)
          BY <4>3, OpenEffect, Kinds DEF Open, Opened, Writes
      <4>4. CASE Fill(d)
          BY <4>4, FillEffect DEF Fill, Opened, Writes
      <4>5. CASE EndExtract(d)
          BY <4>5 DEF EndExtract, Opened, Writes, Goto, TypeOK
      <4>6. CASE EndRepair(d)
          BY <4>6 DEF EndRepair, Writes
      <4>7. CASE Interrupt(d) \/ UnpackFails(d) \/ Killed(d)
        <5>1. Excused(s, d)'
            BY <4>7 DEF Interrupt, UnpackFails, Killed, Excused, Goto, TypeOK
        <5> QED BY <5>1
      <4>8. CASE UNCHANGED <<local, pc, status, stage, todo, writing, cut, touched>>
          BY <4>8 DEF Opened, Writes
      <4> QED BY <1>5, <4>1, <4>2, <4>3, <4>4, <4>5, <4>6, <4>7, <4>8, WhileLanding
    <3> QED BY <3>2, <3>3
  <2> QED BY <1>5, <2>1, <2>2, <2>3, LocalFrom
<1>6. CASE UNCHANGED vars
    BY <1>2, <1>6 DEF vars, Mending, Opened, Writes
<1> QED BY <1>4, <1>5, <1>6 DEF Next, Moves

\* ... has come from there, or from the file when it was bundled.
LEMMA HeldStep ==
    TypeOK /\ ShapeInv /\ PathInv /\ HeldInv /\ [Next]_vars => HeldInv'
<1> SUFFICES ASSUME TypeOK, ShapeInv, PathInv, HeldInv, [Next]_vars,
                    NEW e \in Dispatches, pc'[e] \in Carrying, NEW d \in Dispatches \ {e},
                    NEW s \in Slots, NEW r \in Record, Holds(e, s, r)', r.home = d,
                    ~Excused(s, d)'
             PROVE  local'[s].home = d
    BY DEF HeldInv
<1>1. ~Excused(s, d)
    BY ExcuseStays
<1>2. d # Here /\ (pc[e] \in Carrying /\ Holds(e, s, r) => local[s].home = d)
    BY <1>1, HereAssumption DEF HeldInv
<1>3. ASSUME NEW t \in Slots, LocalApply(t) PROVE local'[s].home = d
  <2>1. local[s].home = d /\ pc[e] \in Carrying
      BY <1>2, <1>3 DEF LocalApply, Holds, Writes, away, fetched
  <2>2. s # t
      BY <1>3, <2>1, TouchAll DEF Excused, Carrying, Active, Guarded, Preparing
  <2> QED BY <1>3, <2>1, <2>2 DEF LocalApply, TypeOK, Archives
<1>4. ASSUME NEW f \in Dispatches, Moves(f) PROVE local'[s].home = d
  <2>1. \/ local[s].home = d /\ pc[e] \in Carrying
        \/ local'[s].home = d
    <3>1. CASE Holds(e, s, r)
      <4>1. pc[e] \in Carrying
        <5>1. pc[e] \notin {"idle", "bundle"}
            BY <3>1, Kinds DEF ShapeInv, Holds, Writes
        <5> QED BY <5>1, Growth DEF Grows
      <4> QED BY <1>2, <3>1, <4>1
    <3>2. CASE Bundle(f) /\ r = local[s]
        BY <3>2 DEF Bundle
    <3> QED BY <1>2, <1>4, <3>1, <3>2, RecordsMove DEF HoldsFrom, Record
  <2>2. CASE local'[s].home = local[s].home
      BY <2>1, <2>2
  <2>3. CASE Fill(f) /\ writing[f].slot = s
    <3>1. CASE local[s].home = d /\ pc[e] \in Carrying
      <4>1. f = e
          BY <2>3, <3>1, TouchOthers DEF Excused
      <4>2. pc[d] \in Carrying
          BY <1>1, <3>1 DEF PathInv, Mending, Carrying
      <4> QED BY <2>3, <4>1, <4>2, TouchOthers DEF Excused
    <3> QED BY <2>1, <3>1
  <2> QED BY <1>4, <2>2, <2>3, LocalFrom, OpenEffect
<1>5. CASE UNCHANGED vars
    BY <1>2, <1>5 DEF vars, Holds, Writes
<1> QED BY <1>3, <1>4, <1>5 DEF Next, Moves

\* A dispatch that unpacks has just begun, is at it, or has ended.
LEMMA Lands ==
    ASSUME TypeOK, NEW d \in Dispatches, Moves(d), pc'[d] \in Landing
    PROVE  \/ Download(d)
           \/ pc[d] \in {"extract", "repair"}
           \/ pc[d] = "verdict" /\ UNCHANGED <<local, pc, stage, writing, todo, touched>>
BY DEF Moves, Prepare, Run, SyncBack, End, Setup, Bundle, PrepareFails, Prepared, RemoteApply,
    RemoteEnds, ConnectionLost, Collect, FetchFails, NextMember, NextRepair, Open, Fill,
    EndExtract, EndRepair, Verdict, Interrupt, UnpackFails, CleanStage, CleanJob, Killed,
    Goto, TypeOK,
    fetched, history, Landing

\* Starting on a member of the archive.
LEMMA UnpacksMember ==
    ASSUME TypeOK, ShapeInv, NEW d \in Dispatches, NEW s \in Slots, NEW t \in Slots,
           NextMember(d, t), Unpacks(d, s)
    PROVE  Unpacks(d, s)'
<1>1. /\ pc'[d] = "extract" /\ writing[d] = Nobody /\ UNCHANGED <<local, stage, touched>>
      /\ todo'[d] = todo[d] \ {t}
    BY DEF NextMember, history, TypeOK
<1>2. writing'[d] # Nobody /\ writing'[d].slot = t /\ writing'[d].record = stage[d][t]
    BY MemberEffect, Kinds
<1>3. CASE s = t
    BY <1>1, <1>2, <1>3 DEF Unpacks, Extracted, Repaired, Writes
<1>4. CASE s # t
  <2>1. Extracted(d, s)' => Extracted(d, s)
      BY <1>1, <1>4 DEF NextMember, Extracted, Writes
  <2> QED BY <1>1, <1>2, <1>4, <2>1 DEF Unpacks, Repaired, Writes
<1> QED BY <1>3, <1>4

\* Looking at the next file to repair.
LEMMA UnpacksRepair ==
    ASSUME TypeOK, ShapeInv, VersionInv, NEW d \in Dispatches, NEW s \in Slots, NEW t \in Slots,
           NextRepair(d, t), Unpacks(d, s)
    PROVE  Unpacks(d, s)'
<1>1. /\ pc[d] = "repair" /\ pc'[d] = "repair" /\ writing[d] = Nobody
      /\ UNCHANGED <<local, stage, touched>> /\ todo'[d] = todo[d] \ {t}
    BY DEF NextRepair, history, TypeOK
<1>2. Extracted(d, s)
    BY <1>1 DEF Extracted, Opened, Writes
<1>3. CASE s # t
  <2>1. ~Writes(d, s)'
      BY <1>1, <1>3, RepairEffect DEF Writes
  <2>2. Repaired(d, s)' => Repaired(d, s)
      BY <1>1, <1>3 DEF Repaired, Writes
  <2> QED BY <1>1, <1>2, <2>1, <2>2 DEF Unpacks
<1>4. CASE s = t /\ local[s].v # Torn /\ local[s].home = d
  <2>1. /\ Writes(d, s)' /\ writing'[d].record.v = local[s].v /\ writing'[d].record.home = Here
      BY <1>4, RepairEffect, Kinds DEF Writes
  <2>2. ~Repaired(d, s)'
      BY <1>1, <2>1 DEF Repaired
  <2> QED BY <1>1, <1>2, <2>1, <2>2, HereAssumption DEF Unpacks
<1>5. CASE s = t /\ ~(local[s].v # Torn /\ local[s].home = d)
  <2>1. writing'[d] = Nobody
      BY <1>1, <1>5, RepairEffect
  <2>2. s \notin touched[d] => local[s].home # d
    <3> SUFFICES ASSUME s \notin touched[d], local[s].home = d PROVE FALSE
        OBVIOUS
    <3>1. local[s] = stage[d][s] /\ stage[d] \in Archives
        BY <1>1, <1>2 DEF Unpacks, ShapeInv, Landing
    <3>2. local[s] \in Record /\ Holds(d, s, local[s])
        BY <3>1, Put DEF Holds
    <3> QED BY <1>5, <3>2 DEF VersionInv
  <2> QED BY <1>1, <1>2, <2>1, <2>2 DEF Unpacks, Writes
<1> QED BY <1>3, <1>4, <1>5

\* Every step of the dispatch that unpacks.
LEMMA UnpacksStep ==
    ASSUME TypeOK, ShapeInv, VersionInv, NEW d \in Dispatches, Moves(d), NEW s \in Slots,
           Unpacks(d, s)
    PROVE  Unpacks(d, s)'
<1> SUFFICES ASSUME pc'[d] \in Landing PROVE Unpacks(d, s)'
    BY DEF Unpacks, Landing, Extracted, Repaired
<1>1. CASE Download(d)
  <2>1. pc'[d] = "extract" /\ todo'[d] = Slots /\ writing'[d] = Nobody
      BY <1>1 DEF Download, Goto, TypeOK, ShapeInv
  <2> QED BY <2>1 DEF Unpacks, Extracted, Repaired, Writes
<1>2. CASE pc[d] = "verdict" /\ UNCHANGED <<local, pc, stage, writing, todo, touched>>
    BY <1>2 DEF Unpacks, Extracted, Repaired, Writes, Opened
<1>3. CASE pc[d] \in {"extract", "repair"}
  <2>1. CASE Open(d)
    <3>1. /\ writing[d] # Nobody /\ writing'[d] # Nobody /\ writing'[d].open
          /\ writing'[d].slot = writing[d].slot /\ writing'[d].record = writing[d].record
          /\ s # writing[d].slot => local'[s] = local[s]
        BY <2>1, OpenEffect, Kinds
    <3>2. UNCHANGED <<pc, stage, todo>> /\ touched'[d] = touched[d]
        BY <2>1 DEF Open, Touch, TypeOK
    <3> QED BY <1>3, <3>1, <3>2 DEF Unpacks, Extracted, Repaired, Writes, Opened
  <2>2. CASE Fill(d)
    <3>1. /\ writing[d] # Nobody /\ writing'[d] = Nobody
          /\ writing[d].slot \in Slots /\ local'[writing[d].slot] = writing[d].record
          /\ s # writing[d].slot => local'[s] = local[s]
        BY <2>2, FillEffect, Kinds
    <3>2. UNCHANGED <<pc, stage, todo>> /\ touched'[d] = touched[d]
        BY <2>2 DEF Fill, Touch, TypeOK
    <3> QED BY <1>3, <3>1, <3>2 DEF Unpacks, Extracted, Repaired, Writes, Opened
  <2>3. CASE EndExtract(d)
      BY <2>3 DEF EndExtract, Goto, TypeOK, history, Unpacks, Extracted, Repaired, Writes,
          Opened
  <2>4. CASE EndRepair(d)
      BY <2>4 DEF EndRepair, Goto, TypeOK, fetched, history, Unpacks, Extracted, Repaired,
          Writes, Opened
  <2>5. CASE Interrupt(d) \/ UnpackFails(d) \/ Killed(d)
      BY <2>5 DEF Interrupt, UnpackFails, Killed, Goto, TypeOK, Landing
  <2>6. CASE UNCHANGED <<local, pc, status, stage, todo, writing, cut, touched>>
      BY <2>6 DEF Unpacks, Extracted, Repaired, Writes, Opened
  <2> QED BY <1>3, <2>1, <2>2, <2>3, <2>4, <2>5, <2>6, WhileLanding, UnpacksMember,
              UnpacksRepair
<1> QED BY <1>1, <1>2, <1>3, Lands

\* Between collection and verdict the archive changes only in a dispatch cut off.
LEMMA FetchesStep ==
    ASSUME TypeOK, ShapeInv, NEW d \in Dispatches, Moves(d), Fetches(d)
    PROVE  Fetches(d)'
<1>1. CASE Setup(d)
    BY <1>1 DEF Setup, Fetches, Landing, Goto, away, fetched, history, TypeOK
<1>2. CASE Bundle(d)
    BY <1>2 DEF Bundle, Fetches, Landing, Goto, away, fetched, history, TypeOK
<1>3. CASE PrepareFails(d)
    BY <1>3 DEF PrepareFails, Fetches, Landing, Goto, away, fetched, history, TypeOK
<1>4. CASE Prepared(d)
    BY <1>4 DEF Prepared, Fetches, Landing, Goto, away, fetched, history, TypeOK
<1>5. ASSUME NEW s \in Slots, RemoteApply(d, s) PROVE Fetches(d)'
    <2>1. remote[d] = "on" /\ UNCHANGED <<pc, cut>>
        BY <1>5 DEF RemoteApply
    <2>2. ~(pc'[d] \in Landing \cup {"download"} /\ ~cut'[d])
        BY <2>1 DEF ShapeInv, Landing
    <2> QED BY <2>2 DEF Fetches
<1>6. CASE RemoteEnds(d)
    BY <1>6 DEF RemoteEnds, Fetches, Landing, Goto, away, fetched, history, TypeOK
<1>7. CASE ConnectionLost(d)
    BY <1>7 DEF ConnectionLost, Fetches, Landing, Goto, away, fetched, history, TypeOK
<1>8. CASE Collect(d)
    BY <1>8 DEF Collect, Fetches, Landing, Goto, away, fetched, history, TypeOK
<1>9. CASE Download(d)
    BY <1>9 DEF Download, Fetches, Landing, Goto, away, fetched, history, TypeOK
<1>10. CASE FetchFails(d)
    BY <1>10 DEF FetchFails, Fetches, Landing, Goto, away, fetched, history, TypeOK
<1>11. ASSUME NEW s \in Slots, NextMember(d, s) PROVE Fetches(d)'
    BY <1>11 DEF NextMember, Fetches, Landing, Goto, away, fetched, history, TypeOK
<1>12. ASSUME NEW s \in Slots, NextRepair(d, s) PROVE Fetches(d)'
    BY <1>12 DEF NextRepair, Fetches, Landing, Goto, away, fetched, history, TypeOK
<1>13. CASE Open(d)
    BY <1>13 DEF Open, Touch, Fetches, Landing, Goto, away, fetched, history, TypeOK
<1>14. CASE Fill(d)
    BY <1>14 DEF Fill, Touch, Fetches, Landing, Goto, away, fetched, history, TypeOK
<1>15. CASE EndExtract(d)
    BY <1>15 DEF EndExtract, Fetches, Landing, Goto, away, fetched, history, TypeOK
<1>16. CASE EndRepair(d)
    BY <1>16 DEF EndRepair, Fetches, Landing, Goto, away, fetched, history, TypeOK
<1>17. CASE Verdict(d)
    BY <1>17 DEF Verdict, Fetches, Landing, Goto, away, fetched, history, TypeOK
<1>18. CASE Interrupt(d) \/ UnpackFails(d)
    BY <1>18 DEF Interrupt, UnpackFails, Fetches, Landing, Goto, away, fetched, history, TypeOK
<1>19. CASE CleanStage(d)
    BY <1>19 DEF CleanStage, Fetches, Landing, Goto, away, fetched, history, TypeOK
<1>20. CASE CleanJob(d)
    BY <1>20 DEF CleanJob, Fetches, Landing, Goto, away, fetched, history, TypeOK
<1>21. CASE Killed(d)
    BY <1>21 DEF Killed, Fetches, Landing, Goto, away, fetched, history, TypeOK
<1> QED BY <1>1, <1>2, <1>3, <1>4, <1>5, <1>6, <1>7, <1>8, <1>9, <1>10, <1>11, <1>12, <1>13,
            <1>14, <1>15, <1>16, <1>17, <1>18, <1>19, <1>20, <1>21 DEF Moves, Prepare, Run,
            SyncBack, End

\* A dispatch that another one moves past keeps what it has unpacked, or was
\* overtaken.
LEMMA UnpacksBesides ==
    ASSUME TypeOK, ShapeInv, [Next]_vars, NEW d \in Dispatches, NEW s \in Slots, Unpacks(d, s),
           Own(d)' = Own(d), local'[s] = local[s] \/ (pc[d] \in Active => s \in touched'[d])
    PROVE  Unpacks(d, s)'
<1>1. pc[d] \notin {"idle", "bundle"} => touched[d] \subseteq touched'[d]
    BY Growth DEF Grows
<1> QED BY <1>1 DEF Own, Unpacks, Extracted, Repaired, Writes, Opened, Active, Guarded

\* And the steps of all others.
LEMMA UnpackedStep == TypeOK /\ ShapeInv /\ VersionInv /\ UnpackedInv /\ [Next]_vars => UnpackedInv'
<1> SUFFICES ASSUME TypeOK, ShapeInv, VersionInv, UnpackedInv, [Next]_vars, NEW d \in Dispatches
             PROVE  Fetches(d)' /\ \A s \in Slots : Unpacks(d, s)'
    BY DEF UnpackedInv
<1>1. Fetches(d) /\ \A s \in Slots : Unpacks(d, s)
    BY DEF UnpackedInv
<1>2. ASSUME Own(d)' = Own(d) PROVE Fetches(d)'
    BY <1>1, <1>2 DEF Own, Fetches
<1>3. ASSUME NEW t \in Slots, LocalApply(t) PROVE Fetches(d)' /\ \A s \in Slots : Unpacks(d, s)'
  <2>1. Own(d)' = Own(d)
      BY <1>3 DEF LocalApply, Own, away, fetched
  <2>2. ASSUME NEW s \in Slots
        PROVE  local'[s] = local[s] \/ (pc[d] \in Active => s \in touched'[d])
      BY <1>3, TouchAll DEF LocalApply, TypeOK, Archives
  <2> QED BY <1>1, <1>2, <2>1, <2>2, UnpacksBesides
<1>4. CASE Moves(d)
    BY <1>1, <1>4, FetchesStep, UnpacksStep
<1>5. ASSUME NEW e \in Dispatches \ {d}, Moves(e)
      PROVE  Fetches(d)' /\ \A s \in Slots : Unpacks(d, s)'
  <2>1. Own(d)' = Own(d)
      BY <1>5, OthersStay
  <2>2. ASSUME NEW s \in Slots
        PROVE  local'[s] = local[s] \/ (pc[d] \in Active => s \in touched'[d])
      BY <1>5, LocalFrom, TouchOthers
  <2> QED BY <1>1, <1>2, <2>1, <2>2, UnpacksBesides
<1>6. CASE UNCHANGED vars
    BY <1>1, <1>6 DEF vars, Fetches, Unpacks, Extracted, Repaired, Writes, Opened
<1> QED BY <1>3, <1>4, <1>5, <1>6 DEF Next, Moves


\* Only a remote apply makes a version in a step of a dispatch.
LEMMA Builds ==
    ASSUME TypeOK, NEW d \in Dispatches, Moves(d), NEW s \in Slots
    PROVE  RemoteApply(d, s) \/ (built'[s] = built[s] /\ maker'[s] = maker[s])
<1>1. ASSUME NEW t \in Slots, RemoteApply(d, t), s # t
      PROVE  built'[s] = built[s] /\ maker'[s] = maker[s]
    BY <1>1 DEF RemoteApply, TypeOK
<1>2. ASSUME ~\E t \in Slots : RemoteApply(d, t) PROVE built' = built /\ maker' = maker
    BY <1>2 DEF Moves, Prepare, Run, SyncBack, End, Setup, Bundle, PrepareFails, Prepared,
        RemoteEnds, ConnectionLost, Collect, Download, FetchFails, NextMember, NextRepair,
        Open, Fill, EndExtract, EndRepair, Verdict, Interrupt, UnpackFails, CleanStage,
        CleanJob, Killed,
        history
<1> QED BY <1>1, <1>2

\* A local apply makes one here, and touches nothing else.
LEMMA Applies ==
    ASSUME TypeOK, NEW t \in Slots, LocalApply(t), NEW s \in Slots
    PROVE  /\ s # t => built'[s] = built[s] /\ maker'[s] = maker[s] /\ local'[s] = local[s]
           /\ s = t => maker'[s] = Here /\ local'[s].v = built'[s]
           /\ UNCHANGED <<pc, status, rc, jobRoot, away, fetched, replaced, cut>>
BY DEF LocalApply, TypeOK, Archives

\* An open file has an archive to come from.
LEMMA WritesWhole ==
    ASSUME TypeOK, ShapeInv, UnpackedInv, NEW d \in Dispatches, NEW s \in Slots, Writes(d, s)
    PROVE  /\ pc[d] \in {"extract", "repair"} /\ stage[d] \in Archives
           /\ s \notin touched[d] => writing[d].record.v = stage[d][s].v
BY DEF ShapeInv, UnpackedInv, Unpacks, Writes, Landing

\* A dispatch that carries the latest version goes on carrying it.
LEMMA CarriesOn ==
    ASSUME TypeOK, ShapeInv, UnpackedInv, NEW d \in Dispatches, Moves(d),
           NEW s \in Slots \ touched'[d], local'[s].v = built'[s], built'[s] = built[s],
           local[s].v = built[s] /\ pc[d] \notin {"idle", "bundle"} => Carries(d, s)
    PROVE  Carries(d, s)'
<1>1. CASE Setup(d)
    BY <1>1 DEF Setup, Goto, Carries, TypeOK
<1>2. CASE Bundle(d)
    BY <1>2 DEF Bundle, fetched, Goto, Carries, TypeOK
<1>3. CASE PrepareFails(d)
    BY <1>3 DEF PrepareFails, Carries, Carrying, Goto, away, fetched, history, TypeOK
<1>4. CASE Prepared(d)
    BY <1>4 DEF Prepared, Carries, Carrying, Goto, away, fetched, history, TypeOK
<1>5. ASSUME NEW t \in Slots, RemoteApply(d, t) PROVE Carries(d, s)'
    <2>1. /\ copy[d] \in Archives => copy'[d][s] = copy[d][s]
          /\ copy[d] \notin Archives => copy' = copy
        BY <1>5, RemoteBesides
    <2> QED BY <1>5, <2>1 DEF RemoteApply, fetched, Carries, ShapeInv
<1>6. CASE RemoteEnds(d)
    BY <1>6 DEF RemoteEnds, Carries, Carrying, Goto, away, fetched, history, TypeOK
<1>7. CASE ConnectionLost(d)
    BY <1>7 DEF ConnectionLost, Carries, Carrying, Goto, away, fetched, history, TypeOK
<1>8. CASE Collect(d)
    BY <1>8 DEF Collect, Carries, Carrying, Goto, away, fetched, history, TypeOK
<1>9. CASE Download(d)
    BY <1>9 DEF Download, Carries, Carrying, Goto, away, fetched, history, TypeOK
<1>10. CASE FetchFails(d)
    BY <1>10 DEF FetchFails, Carries, Carrying, Goto, away, fetched, history, TypeOK
<1>11. ASSUME NEW t \in Slots, NextMember(d, t) PROVE Carries(d, s)'
    BY <1>11 DEF NextMember, Carries, Carrying, Goto, away, fetched, history, TypeOK
<1>12. ASSUME NEW t \in Slots, NextRepair(d, t) PROVE Carries(d, s)'
    BY <1>12 DEF NextRepair, Carries, Carrying, Goto, away, fetched, history, TypeOK
<1>13. CASE Open(d)
    <2>1. writing[d].slot = s => local'[s].v = Torn
        BY <1>13, OpenEffect
    <2>2. built'[s] \in Nat
        BY MaxVersionAssumption DEF TypeOK, Versions
    <2>3. local'[s] = local[s]
        BY <1>13, <2>1, <2>2, OpenEffect DEF Torn
    <2> QED BY <1>13, <2>3 DEF Open, away, Carries
<1>14. CASE Fill(d)
    <2>1. CASE writing[d].slot = s
      <3>1. Writes(d, s) /\ s \notin touched[d] /\ local'[s] = writing[d].record
          BY <1>14, <2>1, FillEffect DEF Fill, Touch, Writes, TypeOK
      <3>2. stage[d][s].v = built'[s] /\ pc[d] \in {"extract", "repair"}
          BY <3>1, WritesWhole
      <3> QED BY <1>14, <3>2 DEF Fill, away, Carries
    <2>2. CASE writing[d].slot # s
      <3>1. local'[s] = local[s]
          BY <1>14, <2>2, FillEffect
      <3> QED BY <1>14, <3>1 DEF Fill, away, Carries
    <2> QED BY <2>1, <2>2
<1>15. CASE EndExtract(d)
    BY <1>15 DEF EndExtract, Carries, Carrying, Goto, away, fetched, history, TypeOK
<1>16. CASE EndRepair(d)
    BY <1>16 DEF EndRepair, Carries, Carrying, Goto, away, fetched, history, TypeOK
<1>17. CASE Verdict(d)
    BY <1>17 DEF Verdict, Carries, Carrying, Goto, away, fetched, history, TypeOK
<1>18. CASE Interrupt(d) \/ UnpackFails(d)
    BY <1>18 DEF Interrupt, UnpackFails, Carries, Carrying, Goto, away, fetched, history,
        TypeOK
<1>19. CASE CleanStage(d)
    BY <1>19 DEF CleanStage, Carries, Carrying, Goto, away, fetched, history, TypeOK
<1>20. CASE CleanJob(d)
    BY <1>20 DEF CleanJob, Carries, Carrying, Goto, away, fetched, history, TypeOK
<1>21. CASE Killed(d)
    BY <1>21 DEF Killed, Carries, Carrying, Goto, away, fetched, history, TypeOK
<1> QED BY <1>1, <1>2, <1>3, <1>4, <1>5, <1>6, <1>7, <1>8, <1>9, <1>10, <1>11, <1>12, <1>13,
            <1>14, <1>15, <1>16, <1>17, <1>18, <1>19, <1>20, <1>21 DEF Moves, Prepare, Run,
            SyncBack, End

\* No step loses the latest version from a dispatch nobody has overtaken.
LEMMA LatestStep ==
    TypeOK /\ ShapeInv /\ VersionInv /\ UnpackedInv /\ LatestInv /\ [Next]_vars => LatestInv'
<1> SUFFICES ASSUME TypeOK, ShapeInv, VersionInv, UnpackedInv, LatestInv, [Next]_vars,
                    NEW d \in Dispatches, NEW s \in Slots \ touched'[d], local'[s].v = built'[s]
             PROVE  Carries(d, s)'
    BY DEF LatestInv
<1>1. local[s].v = built[s] /\ pc[d] \notin {"idle", "bundle"} => Carries(d, s)
    BY Growth DEF Grows, LatestInv
<1>2. ASSUME Own(d)' = Own(d), built'[s] = built[s], local'[s] = local[s] PROVE Carries(d, s)'
    BY <1>1, <1>2 DEF Own, Carries
<1>3. ASSUME NEW t \in Slots, LocalApply(t) PROVE Carries(d, s)'
  <2>1. CASE s = t
      BY <1>3, <2>1, TouchAll DEF LocalApply, Carries, Active, Guarded, Preparing
  <2>2. CASE s # t
      BY <1>2, <1>3, <2>2, Applies DEF Own, away, fetched
  <2> QED BY <2>1, <2>2
<1>4. ASSUME NEW e \in Dispatches, Moves(e) PROVE Carries(d, s)'
  <2>1. built'[s] = built[s]
    <3>1. CASE RemoteApply(e, s)
      <4>1. local'[s].v <= built[s] /\ built'[s] = built[s] + 1 /\ built[s] \in Nat
          BY <3>1, RemoteEffect DEF RemoteApply, VersionInv, Genuine
      <4> QED BY <4>1
    <3> QED BY <1>4, <3>1, Builds
  <2>2. CASE e = d
      BY <1>1, <1>4, <2>1, <2>2, CarriesOn
  <2>3. CASE e # d
    <3>1. Own(d)' = Own(d)
        BY <1>4, <2>3, OthersStay
    <3>2. CASE local'[s] = local[s]
        BY <1>2, <2>1, <3>1, <3>2
    <3>3. CASE local'[s] # local[s]
      <4>1. pc'[d] = pc[d] /\ pc[d] \notin Active
          BY <1>4, <2>3, <3>3, LocalFrom, TouchOthers
      <4> QED BY <4>1 DEF Carries, Active, Guarded, Preparing
    <3> QED BY <3>2, <3>3
  <2> QED BY <2>2, <2>3
<1>5. CASE UNCHANGED vars
    BY <1>2, <1>5 DEF vars, Own
<1> QED BY <1>3, <1>4, <1>5 DEF Next, Moves

\* A maker keeps its version until it is done, unless it was cut off.
LEMMA KeepsOn ==
    ASSUME TypeOK, ShapeInv, NEW d \in Dispatches, Moves(d), NEW s \in Slots, Keeps(d, s),
           built'[s] = built[s]
    PROVE  Keeps(d, s)'
<1>1. CASE Setup(d)
    BY <1>1, Kinds DEF Setup, Keeps, Staged, Begun, Landing, ShapeInv, Goto, away, fetched,
        history, TypeOK
<1>2. CASE Bundle(d)
    BY <1>2, Kinds DEF Bundle, Keeps, Staged, Begun, Landing, ShapeInv, Goto, away, fetched,
        history, TypeOK
<1>3. CASE PrepareFails(d)
    BY <1>3, Kinds DEF PrepareFails, Keeps, Staged, Begun, Landing, ShapeInv, Goto, away,
        fetched, history, TypeOK, Active, Guarded, Preparing
<1>4. CASE Prepared(d)
    BY <1>4, Kinds DEF Prepared, Keeps, Staged, Begun, Landing, ShapeInv, Goto, away, fetched,
        history, TypeOK
<1>5. ASSUME NEW t \in Slots, RemoteApply(d, t) PROVE Keeps(d, s)'
    <2>1. /\ copy[d] \in Archives => copy'[d] \in Archives /\ copy'[d][s] = copy[d][s]
          /\ copy[d] \notin Archives => copy' = copy
        BY <1>5, RemoteBesides
    <2> QED BY <1>5, <2>1 DEF RemoteApply, fetched, Keeps, Staged, Begun
<1>6. CASE RemoteEnds(d)
    BY <1>6, Kinds DEF RemoteEnds, Keeps, Staged, Begun, Landing, ShapeInv, Goto, away,
        fetched, history, TypeOK
<1>7. CASE ConnectionLost(d)
    BY <1>7, Kinds DEF ConnectionLost, Keeps, Staged, Begun, Landing, ShapeInv, Goto, away,
        fetched, history, TypeOK
<1>8. CASE Collect(d)
    BY <1>8, Kinds DEF Collect, Keeps, Staged, Begun, Landing, ShapeInv, Goto, away, fetched,
        history, TypeOK
<1>9. CASE Download(d)
    BY <1>9, Kinds DEF Download, Keeps, Staged, Begun, Landing, ShapeInv, Goto, away, fetched,
        history, TypeOK
<1>10. CASE FetchFails(d)
    BY <1>10, Kinds DEF FetchFails, Keeps, Staged, Begun, Landing, ShapeInv, Goto, away,
        fetched, history, TypeOK
<1>11. ASSUME NEW t \in Slots, NextMember(d, t) PROVE Keeps(d, s)'
    BY <1>11, Kinds DEF NextMember, Keeps, Staged, Begun, Landing, ShapeInv, Goto, away,
        fetched, history, TypeOK
<1>12. ASSUME NEW t \in Slots, NextRepair(d, t) PROVE Keeps(d, s)'
    BY <1>12, Kinds DEF NextRepair, Keeps, Staged, Begun, Landing, ShapeInv, Goto, away,
        fetched, history, TypeOK
<1>13. CASE Open(d)
    BY <1>13 DEF Open, away, Keeps, Staged, Begun
<1>14. CASE Fill(d)
    BY <1>14 DEF Fill, away, Keeps, Staged, Begun
<1>15. CASE EndExtract(d)
    BY <1>15, Kinds DEF EndExtract, Keeps, Staged, Begun, Landing, ShapeInv, Goto, away,
        fetched, history, TypeOK
<1>16. CASE EndRepair(d)
    BY <1>16, Kinds DEF EndRepair, Keeps, Staged, Begun, Landing, ShapeInv, Goto, away,
        fetched, history, TypeOK
<1>17. CASE Verdict(d)
    BY <1>17, Kinds DEF Verdict, Keeps, Staged, Begun, Landing, ShapeInv, Goto, away, fetched,
        history, TypeOK
<1>18. CASE Interrupt(d) \/ UnpackFails(d)
    <2>1. /\ pc[d] \in Guarded /\ pc'[d] = "stage" /\ UNCHANGED <<copy, stage>>
          /\ cut'[d] = (cut[d] \/ pc[d] \in {"exec", "collect", "download"})
      <3>1. CASE Interrupt(d)
          BY <3>1 DEF Interrupt, Goto, away, TypeOK
      <3>2. CASE UnpackFails(d)
        <4>1. cut[d] \in BOOLEAN /\ cut' = cut
            BY <3>2 DEF UnpackFails, history, TypeOK
        <4> QED BY <3>2, <4>1 DEF UnpackFails, Goto, away, Guarded, TypeOK
      <3> QED BY <1>18, <3>1, <3>2
    <2>2. Begun(d)' /\ (copy[d] \in Archives \/ pc'[d] = "done")
        BY <2>1 DEF Keeps, Begun, Guarded, Preparing
    <2>3. ASSUME ~cut'[d] PROVE copy[d] \in Archives => copy[d][s].v = built[s]
        BY <2>1, <2>3 DEF Keeps
    <2>4. ASSUME ~cut'[d] PROVE Staged(d, s)
        BY <2>1, <2>4 DEF Keeps, Begun, Guarded, Preparing, Landing
    <2> QED BY <2>1, <2>2, <2>3, <2>4 DEF Keeps, Staged
<1>19. CASE CleanStage(d)
    BY <1>19, Kinds DEF CleanStage, Keeps, Staged, Begun, Landing, ShapeInv, Goto, away,
        fetched, history, TypeOK
<1>20. CASE CleanJob(d)
    BY <1>20, Kinds DEF CleanJob, Keeps, Staged, Begun, Landing, ShapeInv, Goto, away,
        fetched, history, TypeOK
<1>21. CASE Killed(d)
    BY <1>21, Kinds DEF Killed, Keeps, Staged, Begun, Landing, ShapeInv, Goto, away, fetched,
        history, TypeOK, Active, Guarded, Preparing
<1> QED BY <1>1, <1>2, <1>3, <1>4, <1>5, <1>6, <1>7, <1>8, <1>9, <1>10, <1>11, <1>12, <1>13,
            <1>14, <1>15, <1>16, <1>17, <1>18, <1>19, <1>20, <1>21 DEF Moves, Prepare, Run,
            SyncBack, End

\* The deploy that makes a version has it in its job directory.
LEMMA KeepsFirst ==
    ASSUME TypeOK, ShapeInv, NEW d \in Dispatches, NEW s \in Slots, RemoteApply(d, s)
    PROVE  Keeps(d, s)' /\ (cut[d] \/ ~Landed(d, s)')
<1>1. remote[d] = "on" /\ UNCHANGED <<pc, status, result, stage, todo, writing, cut>>
    BY DEF RemoteApply, fetched
<1>2. copy'[d] \in Archives => copy'[d][s].v = built'[s]
  <2>1. CASE copy[d] \in Archives
    <3>1. copy'[d][s] = [v |-> built'[s], home |-> d, inputs |-> d]
        BY <2>1, RemoteEffect
    <3> QED BY <3>1
  <2>2. CASE copy[d] \notin Archives
      BY <2>2, RemoteEffect
  <2> QED BY <2>1, <2>2
<1>3. copy'[d] \in Archives \/ pc[d] = "done"
    BY <1>1, RemoteEffect DEF ShapeInv
<1>4. Begun(d)'
    BY <1>1 DEF ShapeInv, Begun
<1>5. cut[d] \/ pc[d] = "exec" \/ (pc[d] = "killed" /\ status[d] = "running")
    BY <1>1 DEF ShapeInv
<1>6. pc[d] = "exec" => status[d] = "running"
    BY DEF ShapeInv, Ended
<1> QED BY <1>1, <1>2, <1>3, <1>4, <1>5, <1>6 DEF Keeps, Staged, Landed, Landing

\* The latest version is its maker's, whoever that becomes.
LEMMA MadeStep == TypeOK /\ ShapeInv /\ MadeInv /\ [Next]_vars => MadeInv'
<1> SUFFICES ASSUME TypeOK, ShapeInv, MadeInv, [Next]_vars,
                    NEW s \in Slots, NEW d \in Dispatches, maker'[s] = d
             PROVE  Keeps(d, s)'
    BY DEF MadeInv
<1>1. maker[s] = d => Keeps(d, s)
    BY DEF MadeInv
<1>2. ASSUME Own(d)' = Own(d), built'[s] = built[s], maker'[s] = maker[s] PROVE Keeps(d, s)'
    BY <1>1, <1>2 DEF Own, Keeps, Staged, Begun
<1>3. ASSUME NEW t \in Slots, LocalApply(t) PROVE Keeps(d, s)'
    BY <1>2, <1>3, Applies, HereAssumption DEF Own, away, fetched
<1>4. ASSUME NEW e \in Dispatches, Moves(e) PROVE Keeps(d, s)'
  <2>1. CASE RemoteApply(e, s)
    <3>1. e = d
        BY <2>1 DEF RemoteApply, TypeOK
    <3> QED BY <2>1, <3>1, KeepsFirst
  <2>2. CASE built'[s] = built[s] /\ maker'[s] = maker[s] /\ e = d
      BY <1>1, <1>4, <2>2, KeepsOn
  <2>3. CASE built'[s] = built[s] /\ maker'[s] = maker[s] /\ e # d
      BY <1>2, <1>4, <2>3, OthersStay
  <2> QED BY <1>4, <2>1, <2>2, <2>3, Builds
<1>5. CASE UNCHANGED vars
    BY <1>2, <1>5 DEF vars, Own
<1> QED BY <1>3, <1>4, <1>5 DEF Next, Moves

-----------------------------------------------------------------------------
\* Whoever tears a file that is up to date has it in his archive, and ends by
\* filling it or by leaving the archive.
LEMMA SavedByMover ==
    ASSUME TypeOK, ShapeInv, UnpackedInv, LatestInv, NEW d \in Dispatches, Moves(d),
           [Next]_vars, NEW s \in Slots, s \notin replaced', built'[s] = built[s], Saved(s)
    PROVE  Saved(s)'
<1>1. CASE local'[s] = local[s] /\ local[s].v = built[s]
    BY <1>1 DEF Saved
<1>2. CASE Open(d) /\ writing[d].slot = s /\ local[s].v = built[s]
  <2>1. s \notin touched[d] /\ Writes(d, s)
      BY <1>2 DEF Open, Writes
  <2>2. pc[d] \in {"extract", "repair"} /\ stage[d] \in Archives
        /\ writing[d].record.v = stage[d][s].v
      BY <2>1, WritesWhole
  <2>3. stage[d][s].v = built[s]
      BY <1>2, <2>1, <2>2 DEF LatestInv, Carries
  <2>4. /\ writing'[d] \in Writings /\ writing'[d].open
        /\ writing'[d].slot = s /\ writing'[d].record = writing[d].record
      BY <1>2, OpenEffect
  <2>5. stage' = stage
      BY <1>2 DEF Open
  <2>6. Tearing(d, s)'
      BY <2>2, <2>3, <2>4, <2>5, Kinds DEF Tearing, Opened, Writes, Staged
  <2> QED BY <2>6 DEF Saved
<1>3. CASE Fill(d) /\ writing[d].slot = s /\ local[s].v = built[s]
  <2>1. s \notin touched[d] /\ Writes(d, s)
      BY <1>3 DEF Fill, Writes
  <2>2. pc[d] \in {"extract", "repair"} /\ writing[d].record.v = stage[d][s].v
      BY <2>1, WritesWhole
  <2>3. stage[d][s].v = built[s]
      BY <1>3, <2>1, <2>2 DEF LatestInv, Carries
  <2>4. local'[s] = writing[d].record
      BY <1>3, FillEffect
  <2> QED BY <2>2, <2>3, <2>4 DEF Saved
<1>4. ASSUME NEW e \in Dispatches \ {d}, Tearing(e, s) \/ Left(e, s) PROVE Saved(s)'
  <2>1. Own(e)' = Own(e)
      BY <1>4, OthersStay
  <2>2. Tearing(e, s)' \/ Left(e, s)'
      BY <1>4, <2>1 DEF Own, Tearing, Left, Staged, Opened, Writes
  <2> QED BY <2>2 DEF Saved
<1>5. CASE Tearing(d, s)
  <2>1. Writes(d, s) /\ writing[d].open /\ writing[d].record.v = built[s] /\ Staged(d, s)
      BY <1>5 DEF Tearing, Opened
  <2>2. pc[d] \in {"extract", "repair"} /\ writing[d] # Nobody
      BY <2>1, WritesWhole DEF Writes
  <2>3. CASE Fill(d)
    <3>1. local'[s] = writing[d].record
        BY <2>1, <2>3, FillEffect DEF Writes
    <3> QED BY <2>1, <3>1 DEF Saved
  <2>4. CASE Interrupt(d) \/ UnpackFails(d) \/ Killed(d)
    <3>1. Left(d, s)'
        BY <2>1, <2>4 DEF Interrupt, UnpackFails, Killed, Goto, TypeOK, Left, Staged
    <3> QED BY <3>1 DEF Saved
  <2>5. CASE UNCHANGED <<local, pc, status, stage, todo, writing, cut, touched>>
    <3>1. Tearing(d, s)'
        BY <1>5, <2>5 DEF Tearing, Opened, Writes, Staged
    <3> QED BY <3>1 DEF Saved
  <2>6. ~Open(d) /\ ~EndExtract(d) /\ ~EndRepair(d)
        /\ \A t \in Slots : ~NextMember(d, t) /\ ~NextRepair(d, t)
      BY <2>1, <2>2 DEF Open, EndExtract, EndRepair, NextMember, NextRepair
  <2> QED BY <2>2, <2>3, <2>4, <2>5, <2>6, WhileLanding
<1>6. CASE Left(d, s)
  <2>1. pc[d] \in Ended /\ (pc[d] = "killed" \/ status[d] # "ok")
      BY <1>6 DEF Left, ShapeInv, Ended
  <2>2. stage' = stage
      BY <2>1 DEF Moves, Prepare, Run, SyncBack, End, Setup, Bundle, PrepareFails, Prepared,
          RemoteApply, RemoteEnds, ConnectionLost, Collect, Download, FetchFails, NextMember,
          NextRepair, Open, Fill, EndExtract, EndRepair, Verdict, Interrupt, UnpackFails,
          CleanStage,
          CleanJob, Killed, fetched, Ended
  <2>3. Left(d, s)'
      BY <1>6, <2>2, Growth DEF Grows, Left, Staged
  <2> QED BY <2>3 DEF Saved
<1> QED BY <1>1, <1>2, <1>3, <1>4, <1>5, <1>6, LocalFrom DEF Saved

\* What was not unpacked when its maker was asked, and is now, was just filled.
LEMMA LandedNow ==
    ASSUME TypeOK, ShapeInv, UnpackedInv, NEW d \in Dispatches, Moves(d), NEW s \in Slots,
           ~Landed(d, s), Landed(d, s)', ~cut'[d], Keeps(d, s), built'[s] = built[s]
    PROVE  local'[s].v = built'[s]
<1>1. pc'[d] \in Landing \/ (status'[d] = "ok" /\ status[d] # "ok")
    BY DEF Landed, Landing
<1>2. status'[d] = "ok" /\ status[d] # "ok" => pc[d] = "verdict"
    BY DEF Moves, Prepare, Run, SyncBack, End, Setup, Bundle, PrepareFails, Prepared,
        RemoteApply, RemoteEnds, ConnectionLost, Collect, Download, FetchFails, NextMember,
        NextRepair, Open, Fill, EndExtract, EndRepair, Verdict, Interrupt, UnpackFails,
        CleanStage,
        CleanJob, Killed, TypeOK
<1>3. ~Download(d)
    BY DEF Download, Landed, Goto, TypeOK, ShapeInv
<1>4. pc[d] = "extract"
    BY <1>1, <1>2, <1>3, Lands DEF Landed
<1>5. CASE Fill(d)
  <2>1. CASE writing[d].slot = s
    <3>1. Writes(d, s) /\ ~cut[d]
        BY <1>5, <2>1 DEF Fill, Writes
    <3>2. writing[d].record = stage[d][s]
        BY <1>4, <3>1 DEF UnpackedInv, Unpacks
    <3>3. stage[d][s].v = built[s]
        BY <1>4, <3>1 DEF Keeps, Staged, Landing
    <3>4. local'[s] = writing[d].record
        BY <1>5, <2>1, FillEffect
    <3> QED BY <3>2, <3>3, <3>4
  <2>2. CASE writing[d].slot # s
    <3>1. s \in todo[d] /\ todo' = todo /\ pc' = pc /\ status' = status
        BY <1>4, <1>5, <2>2 DEF Fill, Landed, Writes
    <3> QED BY <1>4, <3>1 DEF Landed
  <2> QED BY <2>1, <2>2
<1>6. CASE Open(d)
  <2>1. writing'[d].slot = writing[d].slot /\ writing'[d] # Nobody /\ writing[d] # Nobody
      BY <1>6, OpenEffect, Kinds
  <2> QED BY <1>4, <1>6, <2>1 DEF Open, Landed, Writes
<1>7. ASSUME NEW t \in Slots, NextMember(d, t) PROVE FALSE
  <2>1. writing'[d] # Nobody /\ writing'[d].slot = t
      BY <1>7, MemberEffect, Kinds
  <2> QED BY <1>4, <1>7, <2>1 DEF NextMember, Landed, Writes, TypeOK
<1>8. ~EndExtract(d) /\ ~EndRepair(d) /\ \A t \in Slots : ~NextRepair(d, t)
    BY <1>4 DEF EndExtract, EndRepair, NextRepair, Landed, Writes
<1>9. ~Interrupt(d) /\ ~UnpackFails(d) /\ ~Killed(d)
    BY <1>4 DEF Interrupt, UnpackFails, Killed, Landed, Goto, TypeOK, ShapeInv, Ended
<1>10. ~UNCHANGED <<local, pc, status, stage, todo, writing, cut, touched>>
    BY DEF Landed, Writes
<1> QED BY <1>4, <1>5, <1>6, <1>7, <1>8, <1>9, <1>10, WhileLanding

\* No step loses what has landed, but an overwriting one, which is noted.
LEMMA LandedStep ==
    TypeOK /\ ShapeInv /\ UnpackedInv /\ LatestInv /\ MadeInv /\ LandedInv /\ [Next]_vars => LandedInv'
<1> SUFFICES ASSUME TypeOK, ShapeInv, UnpackedInv, LatestInv, MadeInv, LandedInv, [Next]_vars,
                    NEW s \in Slots, s \notin replaced',
                    \A d \in Dispatches : maker'[s] = d => ~cut'[d] /\ Landed(d, s)'
             PROVE  Saved(s)'
    BY DEF LandedInv
<1>1. s \notin replaced /\ (\A d \in Dispatches : maker[s] = d => ~cut[d] /\ Landed(d, s))
          => Saved(s)
    BY DEF LandedInv
<1>2. ASSUME UNCHANGED <<pc, status, stage, todo, writing, replaced, cut>>,
             local'[s] = local[s], built'[s] = built[s], maker'[s] = maker[s]
      PROVE  Saved(s)'
  <2>1. Saved(s)
      BY <1>1, <1>2 DEF Landed, Writes
  <2> QED BY <1>2, <2>1 DEF Saved, Tearing, Left, Staged, Opened, Writes
<1>3. ASSUME NEW t \in Slots, LocalApply(t) PROVE Saved(s)'
  <2>1. CASE s = t
      BY <1>3, <2>1, Applies DEF Saved
  <2>2. CASE s # t
      BY <1>2, <1>3, <2>2, Applies DEF fetched
  <2> QED BY <2>1, <2>2
<1>4. ASSUME NEW e \in Dispatches, Moves(e) PROVE Saved(s)'
  <2>1. CASE RemoteApply(e, s)
    <3>1. maker'[s] = e /\ cut' = cut
        BY <2>1 DEF RemoteApply, TypeOK
    <3>2. cut[e] \/ ~Landed(e, s)'
        BY <2>1, KeepsFirst
    <3> QED BY <3>1, <3>2
  <2>2. CASE built'[s] = built[s] /\ maker'[s] = maker[s]
    <3>1. CASE \A d \in Dispatches : maker[s] = d => ~cut[d] /\ Landed(d, s)
      <4>1. s \notin replaced
          BY <1>4 DEF Moves, Prepare, Run, SyncBack, End, Setup, Bundle, PrepareFails,
              Prepared, RemoteApply, RemoteEnds, ConnectionLost, Collect, Download,
              FetchFails, NextMember, NextRepair, Open, Fill, EndExtract, EndRepair, Verdict,
              Interrupt, UnpackFails, CleanStage, CleanJob, Killed, history
      <4> QED BY <1>1, <1>4, <2>2, <3>1, <4>1, SavedByMover
    <3>2. CASE \E d \in Dispatches : maker[s] = d /\ (cut[d] \/ ~Landed(d, s))
      <4>1. PICK d \in Dispatches : maker[s] = d /\ (cut[d] \/ ~Landed(d, s))
          BY <3>2
      <4>2. ~cut'[d] /\ Landed(d, s)' /\ ~Landed(d, s)
          BY <2>2, <4>1, Growth DEF Grows
      <4>3. d = e
        <5> SUFFICES ASSUME d # e PROVE FALSE
            OBVIOUS
        <5>1. Own(d)' = Own(d)
            BY <1>4, OthersStay
        <5> QED BY <4>2, <5>1 DEF Own, Landed, Writes
      <4>4. Keeps(d, s)
          BY <4>1 DEF MadeInv
      <4>5. local'[s].v = built'[s]
          BY <1>4, <2>2, <4>2, <4>3, <4>4, LandedNow
      <4> QED BY <4>5 DEF Saved
    <3> QED BY <3>1, <3>2
  <2> QED BY <1>4, <2>1, <2>2, Builds
<1>5. CASE UNCHANGED vars
    BY <1>2, <1>5 DEF vars
<1> QED BY <1>3, <1>4, <1>5 DEF Next, Moves

-----------------------------------------------------------------------------
\* At first everything is of version 0 and here.
LEMMA InvInit == Init => RunnerInv
<1> SUFFICES ASSUME Init PROVE RunnerInv
    OBVIOUS
<1>1. /\ \A d \in Dispatches : pc[d] = "idle" /\ status[d] = "running" /\ writing[d] = Nobody
                               /\ copy[d] = Nothing /\ result[d] = Nothing /\ stage[d] = Nothing
                               /\ ~cut[d] /\ remote[d] = "off" /\ ~jobRoot[d]
      /\ \A s \in Slots : /\ built[s] = 0 /\ maker[s] = Here
                          /\ local[s] = [v |-> 0, home |-> Here, inputs |-> Here]
    BY DEF Init
<1>2. TypeOK
    BY TypeInit
<1>3. ShapeInv /\ UnpackedInv
    BY <1>1 DEF ShapeInv, Carrying, Landing, UnpackedInv, Unpacks, Fetches, Extracted,
        Repaired
<1>4. VersionInv /\ PathInv /\ HeldInv
    BY <1>1, Kinds, HereAssumption DEF VersionInv, Genuine, Holds, Writes, PathInv, HeldInv,
        Carrying
<1>5. LatestInv /\ MadeInv /\ LandedInv
    BY <1>1, HereAssumption DEF LatestInv, Carries, MadeInv, LandedInv, Saved
<1> QED BY <1>2, <1>3, <1>4, <1>5 DEF RunnerInv

\* The invariant of the theorems that follow.
LEMMA RunnerInductive == Spec => []RunnerInv
<1>1. RunnerInv /\ [Next]_vars => RunnerInv'
    BY TypeStep, ShapeStep, VersionStep, PathStep, HeldStep, UnpackedStep, LatestStep,
        MadeStep, LandedStep DEF RunnerInv
<1> QED BY InvInit, <1>1, PTL DEF Spec

-----------------------------------------------------------------------------

\* Every variable has its type: what is fetched, bundled or written is a record
\* of every slot, at every step of every dispatch.
THEOREM TypeCorrect == Spec => []TypeOK
<1>1. RunnerInv => TypeOK
    BY DEF RunnerInv
<1> QED BY RunnerInductive, <1>1, PTL

\* The record of what was last made of a resource is in the local state, in a job
\* directory, in a stage or being written, whatever fails, unless a dispatch wrote
\* over others' writes or its maker was cut off.
THEOREM StateIsKept == Spec => []StateSurvives
<1>1. RunnerInv => StateSurvives
  <2> SUFFICES ASSUME RunnerInv, NEW s \in Slots, s \notin replaced,
                      ~(maker[s] \in Dispatches /\ cut[maker[s]])
               PROVE  Recorded(s)
      BY DEF StateSurvives
  <2>1. \A d \in Dispatches : Staged(d, s) => Recorded(s)
      BY Kinds DEF Staged, Recorded
  <2>2. Saved(s) => Recorded(s)
      BY <2>1 DEF Saved, Tearing, Left, Recorded
  <2>3. CASE \A d \in Dispatches : maker[s] = d => ~cut[d] /\ Landed(d, s)
      BY <2>2, <2>3 DEF RunnerInv, LandedInv
  <2>4. ASSUME NEW d \in Dispatches, maker[s] = d, ~Landed(d, s) PROVE Recorded(s)
    <3>1. Keeps(d, s) /\ ~cut[d]
        BY <2>4 DEF RunnerInv, MadeInv
    <3>2. CASE copy[d] \in Archives
        BY <3>1, <3>2, Kinds DEF Keeps, Recorded
    <3>3. CASE copy[d] \notin Archives
        BY <2>1, <2>4, <3>1, <3>3 DEF Keeps, Landed
    <3> QED BY <3>2, <3>3
  <2> QED BY <2>3, <2>4
<1> QED BY RunnerInductive, <1>1, PTL

\* A path of the rerun inputs or of the evidence into a job is left in the local
\* state only by a dispatch at work on it, killed, cancelled or overtaken, or that
\* failed in its unpacking or repair.
THEOREM PathsAreRepaired == Spec => []NoPathOfEndedJob
<1>1. RunnerInv => NoPathOfEndedJob
    BY DEF RunnerInv, PathInv, Excused, Overtaken, Mending, NoPathOfEndedJob
<1> QED BY RunnerInductive, <1>1, PTL

\* A dispatch that says ok, or that the remote command failed, has brought home what
\* its deploy made, unless its connection broke off.
THEOREM EndsInSync == Spec => EndMeansSynced
<1> DEFINE InSync == \A d \in Dispatches :
          status[d] = "running" /\ status'[d] \in {"ok", "error"} /\ jobRoot[d] /\ ~cut'[d] =>
              \A s \in Slots \ touched[d] :
                  copy[d] # Nothing => /\ local[s].v = copy[d][s].v
                                       /\ local[s].home # d
<1>1. RunnerInv /\ [Next]_vars => [InSync]_vars
  <2> SUFFICES ASSUME RunnerInv, [Next]_vars, NEW d \in Dispatches, status[d] = "running",
                      status'[d] \in {"ok", "error"}, jobRoot[d], ~cut'[d],
                      NEW s \in Slots \ touched[d]
               PROVE  local[s].v = copy[d][s].v /\ local[s].home # d
      OBVIOUS
  <2> USE DEF RunnerInv
  <2>1. Moves(d)
    <3>1. ASSUME NEW e \in Dispatches \ {d}, Moves(e) PROVE FALSE
        BY <3>1, OthersStay DEF Own
    <3> QED BY <3>1 DEF Next, Moves, vars, LocalApply
  <2>2. pc[d] \notin {"idle", "bundle", "upload"}
      BY DEF ShapeInv
  <2>3. Verdict(d)
      BY <2>1, <2>2 DEF Moves, Prepare, Run, SyncBack, End, Setup, Bundle, PrepareFails,
          Prepared, RemoteApply, RemoteEnds, ConnectionLost, Collect, Download, FetchFails,
          NextMember, NextRepair, Open, Fill, EndExtract, EndRepair, Interrupt, UnpackFails,
          CleanStage,
          CleanJob, Killed, Preparing, TypeOK
  <2>4. pc[d] = "verdict" /\ ~cut[d]
      BY <2>3 DEF Verdict, history
  <2> QED BY <2>4 DEF UnpackedInv, Fetches, Unpacks, Extracted, Repaired, Landing
<1> QED BY RunnerInductive, <1>1, PTL DEF Spec, EndMeansSynced

=============================================================================
