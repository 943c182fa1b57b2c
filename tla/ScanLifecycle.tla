---------------------------- MODULE ScanLifecycle ----------------------------
(***************************************************************************)
(* The assessment engine and the requests against it, in a server process  *)
(* that may crash once and restart (lifespan in backend/main.py).          *)
(***************************************************************************)
EXTENDS ScanRequests

VARIABLES
  server    \* "up", "down" after a crash, "recovered" after the restart

vars == <<engineVars, requestVars, server>>

TypeOK ==
  /\ EngineTypeOK
  /\ RequestsTypeOK
  /\ server \in {"up", "down", "recovered"}

Init ==
  /\ EngineInit
  /\ RequestsInit
  /\ server = "up"

\* The container stops: coroutines and child processes are gone, the
\* database and the workspace stay.  Bound: one crash.
Crash ==
  /\ server = "up"
  /\ server' = "down"
  /\ epc' = IF epc = "ended" THEN "ended" ELSE "dead"
  /\ jobs' = [j \in Jobs |-> IF jobs[j] \in InFlight THEN "killed" ELSE jobs[j]]
  /\ live' = {}
  /\ tracked' = {}
  /\ hpc' = [r \in Requests |-> IF Busy(r) THEN "cut" ELSE hpc[r]]
  /\ UNCHANGED <<db, disk, stage, escan, snapshot, hscan, hprocs>>

\* Mutant: startup forgets the interrupted runs.
RecoverNothing ==
  /\ server = "down"
  /\ server' = "recovered"
  /\ UNCHANGED <<engineVars, requestVars>>

\* Startup marks interrupted runs before the API is served.
Recover ==
  /\ server = "down"
  /\ server' = "recovered"
  /\ db' = IF db.scan.status = "running"
             THEN SaveScan(db, [db.scan EXCEPT !.status = "failed"])
             ELSE db
  /\ UNCHANGED <<disk, live, tracked, jobs, epc, stage, escan, snapshot,
                 requestVars>>

Engine == server # "down" /\ EngineStep /\ UNCHANGED <<requestVars, server>>

Request(r) == server # "down" /\ RequestStep(r) /\ UNCHANGED server

Quiet ==
  /\ server # "down"
  /\ epc \in OverPC
  /\ \A j \in Jobs : jobs[j] \notin InFlight
  /\ \A r \in Requests : hpc[r] \in RestPC \ {"idle"}

\* Nothing is left to do: the process idles.
Idle == Quiet /\ UNCHANGED vars

Next ==
  \/ Engine
  \/ \E r \in Requests : Request(r)
  \/ Crash
  \/ Recover
  \/ Idle

(***************************************************************************)
(* The event loop resumes every coroutine that can go on; subprocesses     *)
(* have timeouts; a restarted container runs its startup.  Nobody has to   *)
(* send a request and nothing has to crash.                                *)
(***************************************************************************)
Fairness ==
  /\ WF_vars(RunScanStep /\ server # "down" /\ UNCHANGED <<requestVars, server>>)
  /\ \A j \in Jobs :
       WF_vars(ToolStep(j) /\ server # "down" /\ UNCHANGED <<requestVars, server>>)
  /\ \A r \in Requests :
       WF_vars(RequestContinues(r) /\ server # "down" /\ UNCHANGED server)
  /\ WF_vars(Recover)

Spec == Init /\ [][Next]_vars /\ Fairness

-----------------------------------------------------------------------------
(* Safety.                                                                 *)

\* An assessment is displayed as running only while its run_scan is between
\* the first and the last save of a status, or until the restart marks it.
RunningIsAlive ==
  db.scan.status = "running" =>
    \/ server = "down"
    \/ epc \in RunningPC

\* Phase gating: a tool coroutine exists only when every selected tool of
\* every earlier phase and domain ended in done, error or skipped.
PhasesDrained ==
  \A j, k \in Jobs :
    jobs[j] # "idle" /\ Precedes(k, j) => jobs[k] \in Drained

\* ai_analysis consumes the results of the other tools of its phase.
AIRunsLast ==
  \A j \in AIJobs, k \in Jobs \ AIJobs :
    /\ jobs[j] # "idle"
    /\ DomainOf[k] = DomainOf[j]
    /\ PhaseOf[k] = PhaseOf[j]
    => jobs[k] \in Drained

\* What run_scan leaves when IT noticed the cancellation, once no other
\* request is half done.
NoticedCancelLeavesNothing ==
  /\ server = "up"
  /\ epc = "ended"
  /\ escan.status = "cancelled"
  /\ \A r \in Requests : ~Busy(r)
  => /\ db.results = {}
     /\ db.inventory = {}
     /\ ~disk
     /\ ~db.scan.progress

\* Without interference COMPLETED means that every selected tool has a
\* stored result or was skipped, and that the inventory was built from
\* exactly the stored results.
CompletedIsWhole ==
  /\ \A r \in Requests : hpc[r] \in {"idle", "refused"}
  /\ db.scan.status = "completed"
  => /\ db.results = {j \in Jobs : jobs[j] = "done"}
     /\ \A j \in Jobs : jobs[j] \in Drained
     /\ db.inventory = {db.results}

\* Once run_scan has noticed the cancellation, it produces nothing more.
QuietAfterNotice ==
  [][escan.status = "cancelled" =>
       /\ db'.results \subseteq db.results
       /\ db'.inventory \subseteq db.inventory
       /\ \A j \in Jobs : jobs[j] = "idle" => jobs'[j] = "idle"
       /\ escan'.status = "cancelled"]_vars

\* A row that says how the run ended keeps saying it, unless a cancel that
\* loaded it before overwrites it or it is removed: tool coroutines that go on
\* after a failure save run_scan's own record, which has ended too, and the
\* restart leaves it alone.
OutcomeStands ==
  [][db.scan.status \in {"completed", "failed"} =>
       db'.scan.status \in {db.scan.status, "cancelled", "absent"}]_vars

\* Deleting a program is final for its assessment although run_scan is never
\* told: every late save is rejected with the project row gone.  Only a clear
\* request that loaded the project before can bring it back.  Whoever else saves
\* a project, the scheduler and the creation of an assessment, is in Scheduler.
DeletedStaysDeleted ==
  [][/\ ~db.project
     /\ \A r \in Clears : ~Busy(r)
     => ~db'.project /\ ~HasScan(db')]_vars

-----------------------------------------------------------------------------
(* The abstract specification.                                             *)

\* A job consumes what earlier phases and domains leave behind; ai_analysis
\* also consumes the other tools of its own phase.
Consumes(j, k) ==
  \/ Precedes(k, j)
  \/ /\ j \in AIJobs /\ k \notin AIJobs
     /\ DomainOf[k] = DomainOf[j]
     /\ PhaseOf[k] = PhaseOf[j]

MustPrecede == {p \in Jobs \X Jobs : Consumes(p[2], p[1])}

Started == {j \in Jobs : jobs[j] # "idle"}

Finished == {j \in Jobs : jobs[j] \in Drained}

Staged == INSTANCE StagedRun
            WITH Order <- MustPrecede, started <- Started, finished <- Finished

\* The engine implements the staged run: whatever the requests and a crash do
\* to it, no step starts a tool before its inputs are complete, and no tool
\* that finished is ever taken back.
RunsInStages == Staged!Spec

-----------------------------------------------------------------------------
(* The inductive invariants behind RunningIsAlive, PhasesDrained and       *)
(* AIRunsLast (ScanLifecycleProofs).                                       *)

\* Who may still write "running" into the row: nobody but a run_scan inside
\* its loop, because requests never load or keep that status, run_scan has
\* a terminal status in memory before it saves one, and tool coroutines
\* that outlive run_scan share that status.  Only a clear saves the project.
WritersOwnRunning ==
  /\ RunningIsAlive
  /\ HasScan(db) => db.project
  /\ \A r \in Requests : hscan[r].status # "running"
  /\ \A r \in Requests : hpc[r] = "reset" => r \in Clears
  /\ epc \in {"queued", "marking"} => \A j \in Jobs : jobs[j] = "idle"
  /\ epc \in {"announce", "finish", "ended"} \cup ClosingPC =>
       escan.status # "running"
  /\ epc = "aborted" /\ escan.status = "running" =>
       \A j \in Jobs : jobs[j] = "idle"
  /\ epc = "dead" => \A j \in Jobs : jobs[j] \notin InFlight
  /\ server # "up" => epc \in {"ended", "dead"}

\* A job relative to where run_scan is.
Passed(j) ==
  \/ DomainOf[j] < domain
  \/ DomainOf[j] = domain /\ PhaseOf[j] < phase

Ahead(j) ==
  \/ domain < DomainOf[j]
  \/ domain = DomainOf[j] /\ phase < PhaseOf[j]

BeforePhasePC ==
  {"queued", "marking", "domain", "domainstart", "gate", "announce",
   "handoff", "enter"}

AfterPhasePC == {"handoffafter", "domaindone"}

\* The barrier: behind run_scan everything has drained, ahead of it nothing
\* has started.
StagesInOrder ==
  /\ \A j \in Jobs : Passed(j) => jobs[j] \in Drained
  /\ \A j \in Jobs : Ahead(j) => jobs[j] = "idle"
  /\ epc \in BeforePhasePC => \A j \in StageJobs : jobs[j] = "idle"
  /\ epc \in AfterPhasePC => \A j \in StageJobs : jobs[j] \in Drained
  /\ epc = "domaindone" => phase = NPhases

-----------------------------------------------------------------------------
(* What the documentation promises and the code does not keep.             *)

\* "Setting a scan to CANCELLED only stops *new* phases from starting"
\* (process_registry.py): after an answered cancel, the next gate of the
\* phase loop ends the scan.
GateHonoursCancel ==
  [][/\ \E r \in Cancels : hpc[r] = "done"
     /\ epc = "gate"
     => epc' \in {"gate", "announce", "dead"}]_vars

\* "A cancelled scan must leave no data behind" (scan_engine.py), at rest.
CancelledLeavesNoData ==
  /\ server = "up"
  /\ epc \in OverPC
  /\ \A j \in Jobs : jobs[j] \notin InFlight
  /\ \A r \in Requests : ~Busy(r)
  /\ db.scan.status = "cancelled"
  => db.results = {} /\ db.inventory = {} /\ ~disk

\* "Remove all scan history ... so no orphaned tool process outlives the
\* wipe" (projects.py): a cleared assessment is gone and has no process.
ClearedStaysCleared ==
  \A r \in Clears : hpc[r] = "done" => ~HasScan(db) /\ live = {}

-----------------------------------------------------------------------------
(* Liveness.                                                               *)

\* No assessment stays displayed as running for ever.
RunningEnds == db.scan.status = "running" ~> db.scan.status # "running"

\* A queued run_scan comes to its end, whatever the requests do.
ScanTerminates == <>(epc \in OverPC)

=============================================================================
