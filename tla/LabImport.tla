------------------------------ MODULE LabImport ------------------------------
(* lab/migration.py:stage_migration_archive: a migration bundle is copied     *)
(* into the runtime, part by part, and made the active record of a blueprint. *)
(* For Containerlab it also becomes the latest recovery set, three files all  *)
(* the Containerlab blueprints of the runtime share.  Imports exclude neither *)
(* each other nor themselves run again after a crash.                         *)
EXTENDS Sequences

CONSTANTS
    Processes,     \* where hyops lab migration import runs, again and again
    Blueprints,
    Containerlab,  \* the blueprints of that platform; the others are EVE-NG
    Bundles,       \* migration bundles; a name stands for its checksums
    NoBundle

ASSUME ContainerlabAssumption == Containerlab \subseteq Blueprints
ASSUME NoBundleAssumption == NoBundle \notin Bundles

VARIABLES
    staged,   \* the parts in each bundle's directory, and if they are whole
    record,   \* the active record of each blueprint
    sum,      \* latest.tar.gz.sha256
    meta,     \* latest.tar.gz.json
    link,     \* what latest.tar.gz points to
    importPc, \* where each process is
    job,      \* the import it is at
    seen,     \* the record it has read
    swapped,  \* the source files have changed since they were inspected
    clash,    \* history: another import published in the course of this one's
    dirty     \* history: the last imports to publish clashed or were cut off

latest == <<sum, meta, link>>
importVars == <<staged, record, latest, importPc, job, seen, swapped, clash, dirty>>

BundleParts == {"archive", "node"}
Jobs        == [blueprint : Blueprints, bundle : Bundles, force : BOOLEAN]
Targets     == Blueprints \X Bundles
NoLink      == <<NoBundle, NoBundle>>
NoJob       == <<>>

\* Node state comes with an EVE-NG bundle only.
PartsOf(bp) == IF bp \in Containerlab THEN {"archive"} ELSE BundleParts

Importing == {"decide", "copy", "check", "sum", "meta", "link", "record"}

ImportTypeOK ==
    /\ staged \in [Targets -> [BundleParts -> {"none", "whole", "bad"}]]
    /\ record \in [Blueprints -> Bundles \cup {NoBundle}]
    /\ sum \in Bundles \cup {NoBundle}
    /\ meta \in Bundles \cup {NoBundle}
    /\ link \in Targets \cup {NoLink}
    /\ importPc \in [Processes -> {"idle"} \cup Importing]
    /\ job \in [Processes -> Jobs \cup {NoJob}]
    /\ seen \in [Processes -> Bundles \cup {NoBundle}]
    /\ swapped \in [Processes -> BOOLEAN]
    /\ clash \in [Processes -> BOOLEAN]
    /\ dirty \in BOOLEAN

ImportInit ==
    /\ staged = [t \in Targets |-> [p \in BundleParts |-> "none"]]
    /\ record = [bp \in Blueprints |-> NoBundle]
    /\ sum = NoBundle
    /\ meta = NoBundle
    /\ link = NoLink
    /\ importPc = [i \in Processes |-> "idle"]
    /\ job = [i \in Processes |-> NoJob]
    /\ seen = [i \in Processes |-> NoBundle]
    /\ swapped = [i \in Processes |-> FALSE]
    /\ clash = [i \in Processes |-> FALSE]
    /\ dirty = FALSE

ImportGoto(i, step) == importPc' = [importPc EXCEPT ![i] = step]

Blueprint(i) == job[i].blueprint
Bundle(i)    == job[i].bundle
Target(i)    == <<Blueprint(i), Bundle(i)>>
Publishing(i) ==
    \/ importPc[i] \in {"meta", "link"}
    \/ importPc[i] = "record" /\ Blueprint(i) \in Containerlab

\* What is over is forgotten.
Idle(i) ==
    /\ ImportGoto(i, "idle")
    /\ job' = [job EXCEPT ![i] = NoJob]
    /\ seen' = [seen EXCEPT ![i] = NoBundle]
    /\ swapped' = [swapped EXCEPT ![i] = FALSE]
    /\ clash' = [clash EXCEPT ![i] = FALSE]

-----------------------------------------------------------------------------
(* Verification and the active record                                         *)

\* inspect_migration_archive has passed: the checksums, and with them the
\* bundle's identity, are settled.
BeginImport(i, j) ==
    /\ importPc[i] = "idle"
    /\ job' = [job EXCEPT ![i] = j]
    /\ ImportGoto(i, "decide")
    /\ UNCHANGED <<staged, record, latest, seen, swapped, clash, dirty>>

\* The source files are changed after they were inspected.
SourceChanges(i) ==
    /\ importPc[i] \in {"decide", "copy"}
    /\ swapped' = [swapped EXCEPT ![i] = TRUE]
    /\ UNCHANGED <<staged, record, latest, importPc, job, seen, clash, dirty>>

\* A different bundle is replaced with --force only.
Decide(i) ==
    /\ importPc[i] = "decide"
    /\ record[Blueprint(i)] \in {NoBundle, Bundle(i)} \/ job[i].force
    /\ seen' = [seen EXCEPT ![i] = record[Blueprint(i)]]
    /\ ImportGoto(i, "copy")
    /\ UNCHANGED <<staged, record, latest, job, swapped, clash, dirty>>

-----------------------------------------------------------------------------
(* The copies                                                                 *)

Put(i, p, quality) == staged' = [staged EXCEPT ![Target(i)][p] = quality]

\* A plausible slip: a copy that fails its checksum stays under its name.
Copy_KeepsBad(i, p) ==
    /\ importPc[i] = "copy" /\ p \in PartsOf(Blueprint(i))
    /\ staged[Target(i)][p] # "whole"
    /\ Put(i, p, IF swapped[i] THEN "bad" ELSE "whole")
    /\ UNCHANGED <<record, latest, importPc, job, seen, swapped, clash, dirty>>

\* _copy_verified: a candidate is written, compared with the checksum of the
\* inspection and moved into place; a part that is there already is kept.
Copy(i, p) ==
    /\ importPc[i] = "copy" /\ p \in PartsOf(Blueprint(i))
    /\ staged[Target(i)][p] # "whole"
    /\ ~swapped[i]
    /\ Put(i, p, "whole")
    /\ UNCHANGED <<record, latest, importPc, job, seen, swapped, clash, dirty>>

Copied(i) ==
    /\ importPc[i] = "copy"
    /\ \A p \in PartsOf(Blueprint(i)) : staged[Target(i)][p] # "none"
    /\ ImportGoto(i, IF Blueprint(i) \in Containerlab THEN "check" ELSE "record")
    /\ UNCHANGED <<staged, record, latest, job, seen, swapped, clash, dirty>>

-----------------------------------------------------------------------------
(* _publish_containerlab_latest                                               *)

Markers == {sum # NoBundle, meta # NoBundle, link # NoLink}

\* A plausible slip: a set with this checksum counts as published.
CheckLatest_SkipsSame(i) ==
    /\ importPc[i] = "check"
    /\ Markers = {FALSE} \/ (Markers = {TRUE} /\ sum = Bundle(i)) \/ job[i].force
    /\ ImportGoto(i, IF Markers = {TRUE} /\ sum = Bundle(i) THEN "record" ELSE "sum")
    /\ UNCHANGED <<staged, record, latest, job, seen, swapped, clash, dirty>>

\* A set that is incomplete or has another checksum is replaced with --force
\* only.
CheckLatest(i) ==
    /\ importPc[i] = "check"
    /\ Markers = {FALSE} \/ (Markers = {TRUE} /\ sum = Bundle(i)) \/ job[i].force
    /\ ImportGoto(i, "sum")
    /\ UNCHANGED <<staged, record, latest, job, seen, swapped, clash, dirty>>

\* The checksum, the metadata and the link, each put in place at once.
WriteSum(i) ==
    /\ importPc[i] = "sum"
    /\ sum' = Bundle(i)
    /\ clash' = [k \in Processes |->
                    IF k = i THEN \E o \in Processes : Publishing(o)
                    ELSE clash[k] \/ Publishing(k)]
    /\ ImportGoto(i, "meta")
    /\ UNCHANGED <<staged, record, meta, link, job, seen, swapped, dirty>>

WriteMeta(i) ==
    /\ importPc[i] = "meta"
    /\ meta' = Bundle(i)
    /\ ImportGoto(i, "link")
    /\ UNCHANGED <<staged, record, sum, link, job, seen, swapped, clash, dirty>>

ReplaceLink(i) ==
    /\ importPc[i] = "link"
    /\ link' = Target(i)
    /\ ImportGoto(i, "record")
    /\ UNCHANGED <<staged, record, sum, meta, job, seen, swapped, clash, dirty>>

-----------------------------------------------------------------------------
(* The end                                                                    *)

\* _write_record, last and at once.
WriteRecord(i) ==
    /\ importPc[i] = "record"
    /\ record' = [record EXCEPT ![Blueprint(i)] = Bundle(i)]
    /\ dirty' = IF Blueprint(i) \in Containerlab THEN clash[i] ELSE dirty
    /\ Idle(i)
    /\ UNCHANGED <<staged, latest>>

\* An error, a refusal or the end of the process, at any step.  What is in
\* place stays; a candidate file is nobody's.
Stops(i) ==
    /\ importPc[i] \in Importing
    /\ dirty' = (dirty \/ Publishing(i))
    /\ Idle(i)
    /\ UNCHANGED <<staged, record, latest>>

ImportNext ==
    \E i \in Processes :
        \/ \E j \in Jobs : BeginImport(i, j)
        \/ SourceChanges(i) \/ Decide(i) \/ Copied(i)
        \/ \E p \in BundleParts : Copy(i, p)
        \/ CheckLatest(i) \/ WriteSum(i) \/ WriteMeta(i) \/ ReplaceLink(i)
        \/ WriteRecord(i) \/ Stops(i)

ImportSpec == ImportInit /\ [][ImportNext]_importVars

-----------------------------------------------------------------------------
(* Properties                                                                 *)

Whole(bp, b) == \A p \in PartsOf(bp) : staged[<<bp, b>>][p] = "whole"

\* Whatever stopped an import, and whatever became of its sources, a record
\* names a bundle whose parts are all there with the checksums it states, and
\* the latest link leads to such a bundle (the copies come first, record and
\* link last).
NothingNamedIsMissing ==
    /\ \A bp \in Blueprints : record[bp] # NoBundle => Whole(bp, record[bp])
    /\ link # NoLink => Whole(link[1], link[2])

\* The three files of the latest recovery set are of one archive, or of none,
\* whenever nobody is at them and the last import that published went through
\* to its end undisturbed: importing again mends a set that a crash left mixed.
LatestIsOneSet ==
    (\A i \in Processes : ~Publishing(i)) /\ ~dirty =>
        sum = meta /\ meta = link[2]

\* An active record gives way to another bundle with --force only, or when it
\* was written after the import had read the one before it.
RecordReplacedByForce ==
    [][\A bp \in Blueprints :
          record[bp] # NoBundle /\ record'[bp] # record[bp] =>
              \E i \in Processes :
                  /\ importPc[i] = "record" /\ Target(i) = <<bp, record'[bp]>>
                  /\ job[i].force \/ seen[i] # record[bp]]_importVars
=============================================================================
