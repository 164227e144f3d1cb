------------------------------ MODULE Packaging ------------------------------
(***************************************************************************)
(* The packages of one AuditRun: _dispatch_package_build (app/views.py),   *)
(* the Celery task build_audit_package (exporters/tasks.py), what          *)
(* build_package_for_run (exporters/run_package.py) and                    *)
(* save_artifact_bytes (app/domain/storage.py) leave behind, and the       *)
(* stale-stage scan (app/domain/tasks.py).                                 *)
(*                                                                         *)
(* The task holds no lock: it reads the run once, works for minutes, and   *)
(* writes rows one by one from what it has read, while people go on with   *)
(* the run, pages poll and ask for builds, messages are delivered again,   *)
(* and a redeploy wipes the containers' local files.                       *)
(*                                                                         *)
(* Every package is stamped with the time it was built, so two builds      *)
(* never have the same bytes: the bytes are the number of their build.     *)
(***************************************************************************)
EXTENDS Naturals, Sequences, FiniteSets

CONSTANTS
    Worker,      \* the worker processes
    Slow,        \* workers that may render past a heartbeat timeout
    MaxVersion,  \* bound: people act only below this version
    MaxBuilds,   \* bound: no more builds are asked for than this number
    MaxLosses    \* bound on lost workers and redeploys

ASSUME PackagingAssumption ==
    /\ IsFiniteSet(Worker)
    /\ Slow \subseteq Worker
    /\ {MaxVersion, MaxBuilds, MaxLosses} \subseteq Nat

\* The run's state as far as packages see it.  REVIEW stands for every state of
\* PACKAGEABLE_STATES but APPROVED, FAILED for every other state people can leave,
\* those of an audit under way included.
RunState == {"REVIEW", "APPROVED", "FAILED", "CANCELLED"}
Status == {"absent", "pending", "running", "succeeded", "failed"}

\* How far a build is: the write it makes next follows this one.
BuildStep == {"compiling", "rendered", "saved", "archived", "published"}

VARIABLES
    state,     \* AuditRun.state
    version,   \* AuditRun.version
    status,    \* RunStage.status of the packaging stage, "absent" without a row
    late,      \* is RunStage.heartbeat_at older than the scan's timeout?
    queue,     \* messages waiting in the broker
    pc,        \* [Worker -> ...]: "idle", "due", or a step of a build
    ver,       \* [Worker -> Nat]: run.version of the task's own instance
    made,      \* [Worker -> Nat]: the bytes the task builds
    builds,    \* how many builds have begun
    objects,   \* the bytes in the artifact storage
    artifacts, \* the package Artifact rows, oldest first
    archives,  \* the bytes with a PackageArchive row
    manifests, \* PackageManifest rows: of some versions, the bytes they name
    losses     \* how often workers have been lost

run == <<state, version>>
stage == <<status, late>>
task == <<pc, ver, made, builds>>
files == <<objects, artifacts, archives, manifests>>
vars == <<run, stage, queue, task, files, losses>>

Row == [bytes : Nat, version : Nat]

TypeOK ==
    /\ state \in RunState
    /\ version \in Nat
    /\ status \in Status
    /\ late \in BOOLEAN
    /\ queue \in Nat
    /\ pc \in [Worker -> {"idle", "due"} \cup BuildStep]
    /\ ver \in [Worker -> Nat]
    /\ made \in [Worker -> 0 .. builds]
    /\ builds \in Nat
    /\ objects \subseteq 1 .. builds
    /\ artifacts \in Seq(Row)
    /\ archives \subseteq 1 .. builds
    /\ DOMAIN manifests \subseteq Nat
    /\ manifests \in [DOMAIN manifests -> 1 .. builds]
    /\ losses \in Nat

\* The audit has brought the run to the first gate.
Init ==
    /\ state = "REVIEW"
    /\ version = 1
    /\ status = "absent"
    /\ late = FALSE
    /\ queue = 0
    /\ pc = [w \in Worker |-> "idle"]
    /\ ver = [w \in Worker |-> 0]
    /\ made = [w \in Worker |-> 0]
    /\ builds = 0
    /\ objects = {}
    /\ artifacts = <<>>
    /\ archives = {}
    /\ manifests = [v \in {} |-> 0]
    /\ losses = 0

-----------------------------------------------------------------------------
Rows == {artifacts[i] : i \in 1 .. Len(artifacts)}

Downloadable == objects \cup archives

\* The latest row of a version can be downloaded.
Built(v) ==
    \E i \in 1 .. Len(artifacts) :
        /\ artifacts[i].version = v
        /\ \A j \in i + 1 .. Len(artifacts) : artifacts[j].version # v
        /\ artifacts[i].bytes \in Downloadable

Building(w) == pc[w] \in BuildStep

Go(w, step) == pc' = [pc EXCEPT ![w] = step]
Done(w) ==
    /\ Go(w, "idle")
    /\ ver' = [ver EXCEPT ![w] = 0]
    /\ made' = [made EXCEPT ![w] = 0]
    /\ builds' = builds
Step(w, from, to) ==
    /\ pc[w] = from
    /\ Go(w, to)
    /\ UNCHANGED <<ver, made, builds, run, queue, losses>>

-----------------------------------------------------------------------------
(* Asking for a build.                                                     *)

\* _dispatch_package_build.  Pages that poll are throttled and stop after a few
\* attempts; the button (force) is not stopped by the stage, so a build may be
\* asked for at any time.  The broker may refuse the message.
Dispatch ==
    /\ state \in {"REVIEW", "APPROVED"}
    /\ ~Built(version)
    /\ builds + queue + Cardinality({w \in Worker : pc[w] = "due"}) < MaxBuilds
    /\ status' = IF status = "absent" THEN "pending" ELSE status
    /\ \/ queue' = queue + 1
       \/ queue' = queue /\ status = "absent"
    /\ UNCHANGED <<run, late, task, files, losses>>

-----------------------------------------------------------------------------
(* build_audit_package.                                                    *)

\* The task reads the run, and is over if its version is built.
Look(w) ==
    /\ pc[w] = "idle"
    /\ queue > 0
    /\ queue' = queue - 1
    /\ \/ /\ ~Built(version)
          /\ Go(w, "due")
          /\ ver' = [ver EXCEPT ![w] = version]
       \/ /\ Built(version)
          /\ UNCHANGED <<pc, ver>>
    /\ UNCHANGED <<run, stage, made, builds, files, losses>>

\* The stage is taken, whoever has it, and this task's instance of it remembered.
Begin(w) ==
    /\ pc[w] = "due"
    /\ Go(w, "compiling")
    /\ builds' = builds + 1
    /\ made' = [made EXCEPT ![w] = builds + 1]
    /\ status' = "running"
    /\ late' = FALSE
    /\ UNCHANGED <<run, queue, ver, files, losses>>

\* Progress messages: the heartbeat only, whatever the stage's status is by now.
Progress(w) ==
    /\ Step(w, "compiling", "rendered")
    /\ late' = FALSE
    /\ UNCHANGED <<status, files>>

\* save_artifact_bytes writes the object, which no rollback takes back, and then
\* commits its row.  Nothing looks at an object without a row.
Save(w) ==
    /\ Step(w, "rendered", "saved")
    /\ objects' = objects \cup {made[w]}
    /\ artifacts' = Append(artifacts, [bytes |-> made[w], version |-> ver[w]])
    /\ UNCHANGED <<stage, archives, manifests>>

\* Mutant of Archive: skipped while the storage has the bytes.
ArchiveLater(w) ==
    /\ Step(w, "saved", "archived")
    /\ archives' = IF made[w] \in objects THEN archives ELSE archives \cup {made[w]}
    /\ UNCHANGED <<stage, objects, artifacts, manifests>>

\* The bytes are kept in the database, too.
Archive(w) ==
    /\ Step(w, "saved", "archived")
    /\ archives' = archives \cup {made[w]}
    /\ UNCHANGED <<stage, objects, artifacts, manifests>>

\* Mutant of Publish: the newest build replaces the row.
PublishLatest(w) ==
    /\ Step(w, "archived", "published")
    /\ manifests' = [v \in DOMAIN manifests \cup {ver[w]} |->
                        IF v = ver[w] THEN made[w] ELSE manifests[v]]
    /\ UNCHANGED <<stage, objects, artifacts, archives>>

\* Mutant of Publish: the row is for the version the run has by now.
PublishCurrent(w) ==
    /\ Step(w, "archived", "published")
    /\ manifests' = [v \in DOMAIN manifests \cup {version} |->
                        IF v \in DOMAIN manifests THEN manifests[v] ELSE made[w]]
    /\ UNCHANGED <<stage, objects, artifacts, archives>>

\* The version's manifest row, unless another build has made it.
Publish(w) ==
    /\ Step(w, "archived", "published")
    /\ manifests' = [v \in DOMAIN manifests \cup {ver[w]} |->
                        IF v \in DOMAIN manifests THEN manifests[v] ELSE made[w]]
    /\ UNCHANGED <<stage, objects, artifacts, archives>>

\* The task's own instance of the stage is saved as a whole.
Close(w, result) ==
    /\ status' = result
    /\ late' = FALSE
    /\ Done(w)
    /\ UNCHANGED <<run, queue, files, losses>>

Finish(w) == pc[w] = "published" /\ Close(w, "succeeded")

\* Whatever raises in build_package_for_run, QA rows and events included.
Fail(w) == Building(w) /\ Close(w, "failed")

\* An exception outside the try block, or the hard time limit: the message is
\* acknowledged, and nothing is written.
Abort(w) ==
    /\ pc[w] # "idle"
    /\ Done(w)
    /\ UNCHANGED <<run, stage, queue, files, losses>>

-----------------------------------------------------------------------------
(* Lost workers, redeploys and the scan.                                   *)

\* The worker process is lost, and its message delivered again.
Crash(w) ==
    /\ losses < MaxLosses
    /\ losses' = losses + 1
    /\ pc[w] # "idle"
    /\ queue' = queue + 1
    /\ Done(w)
    /\ UNCHANGED <<run, stage, files>>

\* New containers: every worker is lost, and local files are gone.
Redeploy ==
    /\ losses < MaxLosses
    /\ losses' = losses + 1
    /\ queue' = queue + Cardinality({w \in Worker : pc[w] # "idle"})
    /\ pc' = [w \in Worker |-> "idle"]
    /\ ver' = [w \in Worker |-> 0]
    /\ made' = [w \in Worker |-> 0]
    /\ objects' = {}
    /\ UNCHANGED <<run, stage, builds, artifacts, archives, manifests>>

\* Mutant of Scan: a finished run's stages are left alone.
ScanOpenRuns ==
    /\ status = "running"
    /\ late
    /\ state \notin {"APPROVED", "CANCELLED"}
    /\ status' = "failed"
    /\ state' = "FAILED"
    /\ version' = version + 1
    /\ UNCHANGED <<late, queue, task, files, losses>>

\* The timeout on the stage's heartbeat passes.
Expire ==
    /\ status = "running"
    /\ ~late
    /\ \A w \in Worker \ Slow : ~Building(w)
    /\ late' = TRUE
    /\ UNCHANGED <<run, status, queue, task, files, losses>>

\* mark_stale_run_stages: the stage, and the run with it.
Scan ==
    /\ status = "running"
    /\ late
    /\ status' = "failed"
    /\ IF state \in {"APPROVED", "CANCELLED"} THEN UNCHANGED run
       ELSE state' = "FAILED" /\ version' = version + 1
    /\ UNCHANGED <<late, queue, task, files, losses>>

-----------------------------------------------------------------------------
(* People: transition_run, and decide_approval, which may also be called on *)
(* a finished run.                                                         *)
Moves == [REVIEW |-> RunState, FAILED |-> {"REVIEW", "CANCELLED", "FAILED"},
          APPROVED |-> {"APPROVED"}, CANCELLED |-> {"CANCELLED"}]

Move(to) ==
    /\ to \in Moves[state]
    /\ version < MaxVersion
    /\ state' = to
    /\ version' = version + 1
    /\ UNCHANGED <<stage, queue, task, files, losses>>

-----------------------------------------------------------------------------
Work(w) ==
    \/ Look(w) \/ Begin(w) \/ Progress(w) \/ Save(w)
    \/ Archive(w) \/ Publish(w) \/ Finish(w) \/ Fail(w) \/ Abort(w)

\* The audit of a run that was claimed again fails, and with it the running stage
\* of the highest sequence: an old build's, though it may still be at work.
AuditFails ==
    /\ state = "FAILED"
    /\ status = "running"
    /\ status' = "failed"
    /\ late' = FALSE
    /\ version' = version + 1
    /\ UNCHANGED <<state, queue, task, files, losses>>

Heartbeat == Expire \/ Scan

Next ==
    \/ Dispatch
    \/ \E w \in Worker : Work(w) \/ Crash(w)
    \/ Redeploy
    \/ Heartbeat
    \/ AuditFails
    \/ \E to \in RunState : Move(to)

Spec == Init /\ [][Next]_vars

\* Workers work, time passes, beat starts the scan.  Nobody has to poll.
FairSpec == Spec /\ (\A w \in Worker : WF_vars(Work(w))) /\ WF_vars(Heartbeat)

-----------------------------------------------------------------------------
(* Properties.                                                             *)

\* However builds overlap, are lost, fail late or are marked stale, and whatever
\* a redeploy wipes: what is archived stays, and a version's manifest names, for
\* good, an archived package of that version.
Shelf == INSTANCE PackageShelf WITH
             shelf <- {row \in Rows : row.bytes \in archives},
             catalogue <- manifests
KeepsPackages == Shelf!SSpec

\* "Package ready" is never said in vain: there is a package no redeploy can take.
ReadyIsKept ==
    status = "succeeded" => \E row \in Rows : row.bytes \in archives

\* The scan can only find a stage that is stale because nobody is at work on it,
\* or a slow worker is: a new build never inherits the silence of a lost one.
NoInheritedSilence ==
    status = "running" /\ late => \A w \in Worker \ Slow : ~Building(w)

\* A stage does not stay running: a build ends, or the scan ends it, also when
\* the run is finished or was cancelled meanwhile.
Ends == status = "running" ~> status # "running"
=============================================================================
