----------------------------- MODULE ScanEngine -----------------------------
(***************************************************************************)
(* One assessment as backend/scan_engine.py runs it: the run_scan          *)
(* coroutine, the tool coroutines a phase gathers, and the subprocesses    *)
(* they start.  Everything runs on one event loop, so a step is the code   *)
(* between two awaits that reach the database, the disk or a subprocess;   *)
(* the request handlers of ScanRequests interleave at those awaits.        *)
(*                                                                         *)
(* A job is a selected (domain, tool) pair: DomainOf and PhaseOf place it  *)
(* in the loop over domains and the loop over phases inside it.            *)
(***************************************************************************)
EXTENDS Integers, Store

CONSTANTS
  NDomains,       \* in-scope roots of the assessment
  NPhases,        \* entries of PHASES (7 in the code)
  DomainOf,       \* the domain of a job
  PhaseOf,        \* the phase of a job's tool
  AIJobs,         \* jobs of ai_analysis: run last in their phase, no permit
  ReuseJobs,      \* jobs a prior completed assessment has a result for
  HandoffBefore,  \* phases whose input files are written first ({3, 4})
  HandoffAfter,   \* phases whose output files are written after ({4})
  Permits         \* max_concurrent_tool_groups

ASSUME LoopsAssumption ==
  /\ NDomains \in Nat \ {0}
  /\ NPhases \in Nat \ {0}
  /\ DomainOf \in [Jobs -> 1 .. NDomains]
  /\ PhaseOf \in [Jobs -> 1 .. NPhases]

ASSUME JobsAssumption ==
  /\ AIJobs \subseteq Jobs
  /\ ReuseJobs \subseteq Jobs
  /\ Permits \in Nat \ {0}
  /\ IsFiniteSet(Jobs)

VARIABLES
  db,        \* the database (Store)
  disk,      \* whether the scan's workspace directory exists
  live,      \* jobs whose subprocess is alive
  tracked,   \* process_registry._procs[scan.id]
  jobs,      \* progress of each tool coroutine
  epc,       \* where run_scan is
  domain,    \* index of the current domain
  phase,     \* index of the current phase
  escan,     \* run_scan's own Scan object, shared by its tool coroutines
  snapshot   \* results read for the inventory (normalized_results)

stage == <<domain, phase>>

engineVars == <<db, disk, live, tracked, jobs, epc, stage, escan, snapshot>>

engineVarsButJobs == <<db, disk, live, tracked, epc, stage, escan, snapshot>>

\* The jobs of the current phase of the current domain.
StageJobs == {j \in Jobs : DomainOf[j] = domain /\ PhaseOf[j] = phase}

\* j belongs to an earlier stage of the run than k.
Precedes(j, k) ==
  \/ DomainOf[j] < DomainOf[k]
  \/ DomainOf[j] = DomainOf[k] /\ PhaseOf[j] < PhaseOf[k]

(***************************************************************************)
(* A tool coroutine: "waiting" for a permit of _tool_semaphore, "running"  *)
(* tool.execute, with a subprocess ("spawned"), "returned" with a result   *)
(* to save, "retrying" the save from the except branch, "stored" and yet   *)
(* to be reported, and then "done".  "raised" is an exception that leaves  *)
(* _run_tool; "killed" is a coroutine lost with the process.               *)
(***************************************************************************)
Drained == {"done", "skipped"}

InFlight == {"waiting", "running", "spawned", "returned", "retrying", "stored"}

JobState == {"idle", "raised", "killed"} \cup Drained \cup InFlight

\* Inside the phase loop or before the terminal status is saved.
RunningPC ==
  {"domain", "domainstart", "gate", "announce", "handoff", "enter", "tools",
   "handoffafter", "domaindone", "collect", "inventory", "manifest", "finish"}

ClosingPC ==
  {"notify", "terminal", "purge", "purgefiles", "purgesave", "linger"}

OverPC == {"ended", "aborted", "dead"}

EnginePC == {"queued", "marking"} \cup RunningPC \cup ClosingPC \cup OverPC

EngineTypeOK ==
  /\ db \in Database
  /\ disk \in BOOLEAN
  /\ live \subseteq Jobs
  /\ tracked \subseteq Jobs
  /\ jobs \in [Jobs -> JobState]
  /\ epc \in EnginePC
  /\ domain \in 1 .. NDomains
  /\ phase \in 1 .. NPhases
  /\ escan \in ScanRecord
  /\ snapshot \in SUBSET Jobs

\* create_scan has saved the PENDING row and queued run_scan.
EngineInit ==
  /\ db = [project |-> TRUE,
           scan |-> [status |-> "pending", progress |-> FALSE],
           results |-> {}, inventory |-> {}]
  /\ disk = FALSE
  /\ live = {}
  /\ tracked = {}
  /\ jobs = [j \in Jobs |-> "idle"]
  /\ epc = "queued"
  /\ domain = 1
  /\ phase = 1
  /\ escan = [status |-> "pending", progress |-> FALSE]
  /\ snapshot = {}

-----------------------------------------------------------------------------
(***************************************************************************)
(* _emit: append to the in-memory progress and save the in-memory record,  *)
(* whatever the row says by now.  A rejected save is only logged.          *)
(***************************************************************************)
Progressed == [escan EXCEPT !.progress = TRUE]

\* Mutant: the event saves the record as run_scan first marked it.
EmitAsMarked ==
  /\ escan' = Progressed
  /\ db' = SaveScan(db, [Progressed EXCEPT !.status = "running"])

Emit ==
  /\ escan' = Progressed
  /\ db' = SaveScan(db, Progressed)

\* _scan_cancelled reads the row again.
ScanCancelled == db.scan.status = "cancelled"

Fail == escan' = [escan EXCEPT !.status = "failed"]

-----------------------------------------------------------------------------
(* Tool coroutines: run_limited and _run_tool.                             *)

\* Tools inside "async with _tool_semaphore"; ai_analysis is called directly.
Holders ==
  {j \in Jobs \ AIJobs : jobs[j] \in InFlight \ {"waiting"}}

LaunchTool(j) ==
  /\ jobs[j] = "waiting"
  /\ j \in AIJobs \/ Cardinality(Holders) < Permits
  /\ j \notin ReuseJobs
  /\ Emit
  /\ \/ jobs' = [jobs EXCEPT ![j] = "skipped"] /\ UNCHANGED disk
     \/ jobs' = [jobs EXCEPT ![j] = "running"] /\ disk' = TRUE
  /\ UNCHANGED <<live, tracked, epc, stage, snapshot>>

\* Mutant: the reuse branch reports the prior result without storing it.
ReuseResultUnsaved(j) ==
  /\ jobs[j] = "waiting"
  /\ j \in ReuseJobs
  /\ jobs' = [jobs EXCEPT ![j] = "stored"]
  /\ UNCHANGED engineVarsButJobs

\* The prior result is saved before any handler of _run_tool is in place.
ReuseResult(j) ==
  /\ jobs[j] = "waiting"
  /\ j \in AIJobs \/ Cardinality(Holders) < Permits
  /\ j \in ReuseJobs
  /\ db' = SaveResult(db, j)
  /\ jobs' = [jobs EXCEPT ![j] = IF HasScan(db) THEN "stored" ELSE "raised"]
  /\ UNCHANGED <<disk, live, tracked, epc, stage, escan, snapshot>>

\* BaseTool._run_proc; a tool without a binary goes on without a process.
SpawnProcess(j) ==
  /\ jobs[j] = "running"
  /\ \/ /\ jobs' = [jobs EXCEPT ![j] = "spawned"]
        /\ live' = live \cup {j}
        /\ tracked' = tracked \cup {j}
     \/ /\ jobs' = [jobs EXCEPT ![j] = "returned"]
        /\ UNCHANGED <<live, tracked>>
  /\ UNCHANGED <<db, disk, epc, stage, escan, snapshot>>

\* The process ends by itself, at its timeout or by a signal, and execute
\* wraps whatever there is in a ToolResult.
ProcessExits(j) ==
  /\ jobs[j] = "spawned"
  /\ jobs' = [jobs EXCEPT ![j] = "returned"]
  /\ live' = live \ {j}
  /\ tracked' = tracked \ {j}
  /\ UNCHANGED <<db, disk, epc, stage, escan, snapshot>>

PersistResult(j) ==
  /\ jobs[j] = "returned"
  /\ db' = SaveResult(db, j)
  /\ jobs' = [jobs EXCEPT ![j] = IF HasScan(db) THEN "stored" ELSE "retrying"]
  /\ UNCHANGED <<disk, live, tracked, epc, stage, escan, snapshot>>

\* The except branch saves an error result and is not guarded itself.
PersistError(j) ==
  /\ jobs[j] = "retrying"
  /\ db' = SaveResult(db, j)
  /\ jobs' = [jobs EXCEPT ![j] = IF HasScan(db) THEN "stored" ELSE "raised"]
  /\ UNCHANGED <<disk, live, tracked, epc, stage, escan, snapshot>>

ReportTool(j) ==
  /\ jobs[j] = "stored"
  /\ jobs' = [jobs EXCEPT ![j] = "done"]
  /\ Emit
  /\ UNCHANGED <<disk, live, tracked, epc, stage, snapshot>>

ToolStep(j) ==
  \/ LaunchTool(j)
  \/ ReuseResult(j)
  \/ SpawnProcess(j)
  \/ ProcessExits(j)
  \/ PersistResult(j)
  \/ PersistError(j)
  \/ ReportTool(j)

-----------------------------------------------------------------------------
(* run_scan up to the phase loop.                                          *)

\* Load the stored API keys, create the workspace, build the reuse map.
PrepareScan ==
  /\ epc = "queued"
  /\ disk' = TRUE
  /\ epc' = "marking"
  /\ UNCHANGED <<db, live, tracked, jobs, stage, escan, snapshot>>

\* status = RUNNING is saved outside the try: a rejected save ends the task.
MarkRunning ==
  /\ epc = "marking"
  /\ escan' = [escan EXCEPT !.status = "running"]
  /\ db' = SaveScan(db, escan')
  /\ epc' = IF AcceptsScan(db) THEN "domain" ELSE "aborted"
  /\ UNCHANGED <<disk, live, tracked, jobs, stage, snapshot>>

-----------------------------------------------------------------------------
(* The loop over domains and phases.                                       *)

DomainGate ==
  /\ epc = "domain"
  /\ IF ScanCancelled
       THEN /\ escan' = [escan EXCEPT !.status = "cancelled"]
            /\ epc' = "finish"
       ELSE /\ epc' = "domainstart"
            /\ UNCHANGED escan
  /\ UNCHANGED <<db, disk, live, tracked, jobs, stage, snapshot>>

StartDomain ==
  /\ epc = "domainstart"
  /\ Emit
  /\ epc' = "gate"
  /\ UNCHANGED <<disk, live, tracked, jobs, stage, snapshot>>

PhaseGate ==
  /\ epc = "gate"
  /\ IF ScanCancelled
       THEN /\ escan' = [escan EXCEPT !.status = "cancelled"]
            /\ epc' = "announce"
       ELSE /\ epc' = IF phase \in HandoffBefore
                        THEN "handoff" ELSE "enter"
            /\ UNCHANGED escan
  /\ UNCHANGED <<db, disk, live, tracked, jobs, stage, snapshot>>

\* Mutant: the break after the announcement is missing.
AnnounceWithoutBreak ==
  /\ epc = "announce"
  /\ Emit
  /\ epc' = "enter"
  /\ UNCHANGED <<disk, live, tracked, jobs, stage, snapshot>>

AnnounceCancelled ==
  /\ epc = "announce"
  /\ Emit
  /\ epc' = "finish"
  /\ UNCHANGED <<disk, live, tracked, jobs, stage, snapshot>>

\* Write the merged or alive subdomains and report them.
WriteHandoff ==
  /\ epc = "handoff"
  /\ disk' = TRUE
  /\ Emit
  /\ epc' = "enter"
  /\ UNCHANGED <<live, tracked, jobs, stage, snapshot>>

\* Mutant: the phase loop does not stop at the last phase.
NextPhaseUnbounded ==
  /\ epc' = "gate"
  /\ phase' = phase + 1
  /\ UNCHANGED domain

NextPhase ==
  IF phase = NPhases
    THEN epc' = "domaindone" /\ UNCHANGED stage
    ELSE epc' = "gate" /\ phase' = phase + 1 /\ UNCHANGED domain

LeavePhase ==
  IF phase \in HandoffAfter
    THEN epc' = "handoffafter" /\ UNCHANGED stage
    ELSE NextPhase

\* _run_phase starts: gather the normal tools, or skip an empty phase.
EnterPhase ==
  /\ epc = "enter"
  /\ Emit
  /\ IF StageJobs = {}
       THEN LeavePhase
       ELSE epc' = "tools" /\ UNCHANGED stage
  /\ jobs' = [j \in Jobs |-> IF j \in StageJobs \ AIJobs
                              THEN "waiting" ELSE jobs[j]]
  /\ UNCHANGED <<disk, live, tracked, snapshot>>

\* Mutant: the AI tool is gathered with the others.
AIMayStartAtOnce == TRUE

\* The gathered tools of a stage, and the AI tools already started, ended.
AIMayStart ==
  \A k \in StageJobs :
    jobs[k] \in Drained \/ (k \in AIJobs /\ jobs[k] = "idle")

StartAI(j) ==
  /\ epc = "tools"
  /\ j \in StageJobs \cap AIJobs
  /\ jobs[j] = "idle"
  /\ AIMayStart
  /\ jobs' = [jobs EXCEPT ![j] = "waiting"]
  /\ UNCHANGED <<db, disk, live, tracked, epc, stage, escan, snapshot>>

\* Mutant: the phase ends with its first finished tool.
PhaseDrainedByOne == \E j \in StageJobs : jobs[j] \in Drained

\* Mutant: a skipped tool is not counted as finished.
PhaseDrainedByDone == \A j \in StageJobs : jobs[j] = "done"

PhaseDrained == \A j \in StageJobs : jobs[j] \in Drained

FinishPhase ==
  /\ epc = "tools"
  /\ PhaseDrained
  /\ Emit
  /\ LeavePhase
  /\ UNCHANGED <<disk, live, tracked, jobs, snapshot>>

\* gather re-raises at once; the other tools of the phase are not cancelled.
PhaseRaises ==
  /\ epc = "tools"
  /\ \E j \in StageJobs : jobs[j] = "raised"
  /\ Fail
  /\ epc' = "finish"
  /\ UNCHANGED <<db, disk, live, tracked, jobs, stage, snapshot>>

\* Write alive_urls.txt and report it.
WriteAliveUrls ==
  /\ epc = "handoffafter"
  /\ disk' = TRUE
  /\ Emit
  /\ NextPhase
  /\ UNCHANGED <<live, tracked, jobs, snapshot>>

FinishDomain ==
  /\ epc = "domaindone"
  /\ Emit
  /\ IF domain = NDomains
       THEN epc' = "collect" /\ UNCHANGED stage
       ELSE epc' = "domain" /\ domain' = domain + 1 /\ phase' = 1
  /\ UNCHANGED <<disk, live, tracked, jobs, snapshot>>

-----------------------------------------------------------------------------
(* Finalisation: no further look at the row's status.                      *)

CollectResults ==
  /\ epc = "collect"
  /\ snapshot' = db.results
  /\ epc' = "inventory"
  /\ UNCHANGED <<db, disk, live, tracked, jobs, stage, escan>>

WriteInventory ==
  /\ epc = "inventory"
  /\ db' = SaveInventory(db, snapshot)
  /\ IF HasScan(db)
       THEN epc' = "manifest" /\ UNCHANGED escan
       ELSE epc' = "finish" /\ Fail
  /\ UNCHANGED <<disk, live, tracked, jobs, stage, snapshot>>

\* The manifest is written into the workspace, which it does not create.
WriteManifest ==
  /\ epc = "manifest"
  /\ IF disk THEN escan' = [escan EXCEPT !.status = "completed"] ELSE Fail
  /\ epc' = "finish"
  /\ UNCHANGED <<db, disk, live, tracked, jobs, stage, snapshot>>

\* completed_at and the terminal status; a rejected save ends the task.
SaveFinal ==
  /\ epc = "finish"
  /\ db' = SaveScan(db, escan)
  /\ epc' = IF ~AcceptsScan(db) THEN "aborted"
            ELSE IF escan.status = "completed" THEN "notify"
            ELSE "terminal"
  /\ UNCHANGED <<disk, live, tracked, jobs, stage, escan, snapshot>>

\* A webhook that exceeds its total timeout raises out of run_scan.
NotifyCompleted ==
  /\ epc = "notify"
  /\ epc' \in {"terminal", "aborted"}
  /\ UNCHANGED <<db, disk, live, tracked, jobs, stage, escan, snapshot>>

EmitTerminal ==
  /\ epc = "terminal"
  /\ Emit
  /\ epc' = IF escan.status = "cancelled" THEN "purge" ELSE "linger"
  /\ UNCHANGED <<disk, live, tracked, jobs, stage, snapshot>>

PurgeResults ==
  /\ epc = "purge"
  /\ db' = DeleteResults(db)
  /\ epc' = "purgefiles"
  /\ UNCHANGED <<disk, live, tracked, jobs, stage, escan, snapshot>>

PurgeArtifacts ==
  /\ epc = "purgefiles"
  /\ disk' = FALSE
  /\ epc' = "purgesave"
  /\ UNCHANGED <<db, live, tracked, jobs, stage, escan, snapshot>>

\* Mutant: the record is saved again with its progress.
PurgeKeepsProgress ==
  /\ epc = "purgesave"
  /\ db' = SaveScan(db, escan)
  /\ epc' = "linger"
  /\ UNCHANGED <<disk, live, tracked, jobs, stage, escan, snapshot>>

\* The whole purge sits in a try: a rejected save is only logged.
PurgeProgress ==
  /\ epc = "purgesave"
  /\ escan' = WithoutProgress(escan)
  /\ db' = SaveScan(db, escan')
  /\ epc' = "linger"
  /\ UNCHANGED <<disk, live, tracked, jobs, stage, snapshot>>

\* The progress queue stays for 60 s, then run_scan returns.
Linger ==
  /\ epc = "linger"
  /\ epc' = "ended"
  /\ UNCHANGED <<db, disk, live, tracked, jobs, stage, escan, snapshot>>

-----------------------------------------------------------------------------
RunScanStep ==
  \/ PrepareScan \/ MarkRunning
  \/ DomainGate \/ StartDomain \/ PhaseGate \/ AnnounceCancelled
  \/ WriteHandoff \/ EnterPhase
  \/ \E j \in Jobs : StartAI(j)
  \/ FinishPhase \/ PhaseRaises \/ WriteAliveUrls \/ FinishDomain
  \/ CollectResults \/ WriteInventory \/ WriteManifest \/ SaveFinal
  \/ NotifyCompleted \/ EmitTerminal
  \/ PurgeResults \/ PurgeArtifacts \/ PurgeProgress \/ Linger

EngineStep == RunScanStep \/ \E j \in Jobs : ToolStep(j)

=============================================================================
