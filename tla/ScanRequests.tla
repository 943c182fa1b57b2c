---------------------------- MODULE ScanRequests ----------------------------
(***************************************************************************)
(* The API requests that interfere with a running assessment: cancel       *)
(* (backend/api/scans.py), clear a program and delete a program            *)
(* (backend/api/projects.py), with process_registry.terminate_scan, which  *)
(* all three call.  A request is a process; each step runs from one await  *)
(* of the handler to the next.                                             *)
(***************************************************************************)
EXTENDS ScanEngine

CONSTANTS
  Cancels,    \* POST /scans/{id}/cancel and DELETE /scans/{id}
  Clears,     \* POST /projects/{id}/clear
  Deletes     \* DELETE /projects/{id}

Requests == Cancels \cup Clears \cup Deletes

ASSUME RequestsAssumption ==
  /\ Cancels \cap Clears = {}
  /\ Cancels \cap Deletes = {}
  /\ Clears \cap Deletes = {}

VARIABLES
  hpc,      \* where each request is
  hscan,    \* the Scan object a cancel request loaded
  hprocs    \* the process list terminate_scan took

requestVars == <<hpc, hscan, hprocs>>

\* "done" is a success answer; "refused" covers 404, {"cancelled": False}
\* and a failed save (500); "cut" is a request lost with the process.
RestPC == {"idle", "done", "refused", "cut"}

BusyPC ==
  {"mark", "terminate", "grace", "purge", "rmtree", "unmark",
   "list", "dropfiles", "droprow", "reset", "dropproject"}

RequestsTypeOK ==
  /\ hpc \in [Requests -> RestPC \cup BusyPC]
  /\ hscan \in [Requests -> ScanRecord \cup {NoScan}]
  /\ hprocs \in [Requests -> SUBSET Jobs]

RequestsInit ==
  /\ hpc = [r \in Requests |-> "idle"]
  /\ hscan = [r \in Requests |-> NoScan]
  /\ hprocs = [r \in Requests |-> {}]

Goto(r, pc) == hpc' = [hpc EXCEPT ![r] = pc]

Busy(r) == hpc[r] \in BusyPC

-----------------------------------------------------------------------------
(* terminate_scan, shared by the three requests.                           *)

AfterTerminate(r) == IF r \in Cancels THEN "purge" ELSE "dropfiles"

\* SIGTERM to every tracked process; with none alive there is no grace period
\* and the bucket is dropped at once.
TerminateScan(r) ==
  /\ hpc[r] = "terminate"
  /\ hprocs' = [hprocs EXCEPT ![r] = tracked]
  /\ IF tracked \cap live # {}
       THEN Goto(r, "grace") /\ UNCHANGED tracked
       ELSE Goto(r, AfterTerminate(r)) /\ tracked' = {}
  /\ UNCHANGED <<db, disk, live, jobs, epc, stage, escan, snapshot, hscan>>

\* After the grace period: SIGKILL what the list still holds, forget the
\* whole bucket.
KillScan(r) ==
  /\ hpc[r] = "grace"
  /\ live' = live \ hprocs[r]
  /\ tracked' = {}
  /\ Goto(r, AfterTerminate(r))
  /\ UNCHANGED <<db, disk, jobs, epc, stage, escan, snapshot, hscan, hprocs>>

-----------------------------------------------------------------------------
(* _cancel                                                                 *)

ReadForCancel(r) ==
  /\ r \in Cancels
  /\ hpc[r] = "idle"
  /\ IF db.scan.status = "running"
       THEN /\ hscan' = [hscan EXCEPT ![r] = [db.scan EXCEPT !.status = "cancelled"]]
            /\ Goto(r, "mark")
       ELSE Goto(r, "refused") /\ UNCHANGED hscan
  /\ UNCHANGED <<engineVars, hprocs>>

MarkCancelled(r) ==
  /\ hpc[r] = "mark"
  /\ db' = SaveScan(db, hscan[r])
  /\ Goto(r, IF AcceptsScan(db) THEN "terminate" ELSE "refused")
  /\ UNCHANGED <<disk, live, tracked, jobs, epc, stage, escan, snapshot,
                 hscan, hprocs>>

CancelDeletesResults(r) ==
  /\ hpc[r] = "purge"
  /\ db' = DeleteResults(db)
  /\ Goto(r, "rmtree")
  /\ UNCHANGED <<disk, live, tracked, jobs, epc, stage, escan, snapshot,
                 hscan, hprocs>>

CancelDeletesArtifacts(r) ==
  /\ hpc[r] = "rmtree"
  /\ disk' = FALSE
  /\ Goto(r, "unmark")
  /\ UNCHANGED <<db, live, tracked, jobs, epc, stage, escan, snapshot,
                 hscan, hprocs>>

CancelDropsProgress(r) ==
  /\ hpc[r] = "unmark"
  /\ hscan' = [hscan EXCEPT ![r] = WithoutProgress(hscan[r])]
  /\ db' = SaveScan(db, WithoutProgress(hscan[r]))
  /\ Goto(r, IF AcceptsScan(db) THEN "done" ELSE "refused")
  /\ UNCHANGED <<disk, live, tracked, jobs, epc, stage, escan, snapshot,
                 hprocs>>

-----------------------------------------------------------------------------
(* clear_project_data and delete_project                                   *)

LoadProject(r) ==
  /\ r \in Clears \cup Deletes
  /\ hpc[r] = "idle"
  /\ Goto(r, IF db.project THEN "list" ELSE "refused")
  /\ UNCHANGED <<engineVars, hscan, hprocs>>

\* After the loop over the scans: the project record of the clear request is
\* the one it loaded; the delete request removes the targets and the project.
AfterScans(r) == IF r \in Clears THEN "reset" ELSE "dropproject"

ListScans(r) ==
  /\ hpc[r] = "list"
  /\ Goto(r, IF ~HasScan(db) THEN AfterScans(r)
             ELSE IF db.scan.status = "running" THEN "terminate"
             ELSE "dropfiles")
  /\ UNCHANGED <<engineVars, hscan, hprocs>>

\* delete_scan loads the row for its workspace path, which a PENDING scan
\* does not have yet.
DropFiles(r) ==
  /\ hpc[r] = "dropfiles"
  /\ disk' = (disk /\ db.scan.status \in {"absent", "pending"})
  /\ Goto(r, "droprow")
  /\ UNCHANGED <<db, live, tracked, jobs, epc, stage, escan, snapshot,
                 hscan, hprocs>>

DropRow(r) ==
  /\ hpc[r] = "droprow"
  /\ db' = DeleteScan(db)
  /\ Goto(r, AfterScans(r))
  /\ UNCHANGED <<disk, live, tracked, jobs, epc, stage, escan, snapshot,
                 hscan, hprocs>>

\* scan_count = 0 on the loaded record; an upsert.
ResetProject(r) ==
  /\ hpc[r] = "reset"
  /\ db' = SaveProject(db)
  /\ Goto(r, "done")
  /\ UNCHANGED <<disk, live, tracked, jobs, epc, stage, escan, snapshot,
                 hscan, hprocs>>

DropProject(r) ==
  /\ hpc[r] = "dropproject"
  /\ db' = DeleteProject(db)
  /\ Goto(r, "done")
  /\ UNCHANGED <<disk, live, tracked, jobs, epc, stage, escan, snapshot,
                 hscan, hprocs>>

-----------------------------------------------------------------------------
\* What a request does once it has been accepted.
RequestContinues(r) ==
  \/ TerminateScan(r) \/ KillScan(r)
  \/ MarkCancelled(r) \/ CancelDeletesResults(r)
  \/ CancelDeletesArtifacts(r) \/ CancelDropsProgress(r)
  \/ ListScans(r) \/ DropFiles(r) \/ DropRow(r)
  \/ ResetProject(r) \/ DropProject(r)

RequestStep(r) == ReadForCancel(r) \/ LoadProject(r) \/ RequestContinues(r)

=============================================================================
