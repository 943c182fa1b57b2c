------------------------ MODULE ScanLifecycleProofs ------------------------
(***************************************************************************)
(* Proofs about ScanLifecycle, for every set of jobs and requests, every   *)
(* number of domains and phases and every placement of the jobs.           *)
(***************************************************************************)
EXTENDS ScanLifecycle, TLAPS

-----------------------------------------------------------------------------
(* The storage operators keep the shape of the database.                   *)

LEMMA StoreTypes ==
  ASSUME NEW d \in Database
  PROVE  /\ \A s \in ScanRecord \cup {NoScan} : SaveScan(d, s) \in Database
         /\ \A j \in Jobs : SaveResult(d, j) \in Database
         /\ \A rs \in SUBSET Jobs : SaveInventory(d, rs) \in Database
         /\ DeleteResults(d) \in Database
         /\ DeleteScan(d) \in Database
         /\ SaveProject(d) \in Database
         /\ DeleteProject(d) \in Database
BY DEF Database, SaveScan, SaveResult, SaveInventory, DeleteResults,
       DeleteScan, SaveProject, DeleteProject

\* Only save_scan writes a status, and it writes the status it is given;
\* only a row that is removed loses its status otherwise.
LEMMA StoreStatus ==
  ASSUME NEW d \in Database
  PROVE  /\ \A s \in ScanRecord \cup {NoScan} :
              SaveScan(d, s).scan = IF AcceptsScan(d) THEN s ELSE d.scan
         /\ \A j \in Jobs : SaveResult(d, j).scan = d.scan
         /\ \A rs \in SUBSET Jobs : SaveInventory(d, rs).scan = d.scan
         /\ DeleteResults(d).scan = d.scan
         /\ DeleteScan(d).scan = NoScan
         /\ SaveProject(d).scan = d.scan
         /\ DeleteProject(d).scan = NoScan
BY DEF Database, SaveScan, SaveResult, SaveInventory, DeleteResults,
       DeleteScan, SaveProject, DeleteProject, AcceptsScan

\* Editing a scan record gives a scan record.
LEMMA ScanEdits ==
  /\ \A sc \in ScanRecord, st \in ScanStatus :
       [sc EXCEPT !.status = st] \in ScanRecord
  /\ \A sc \in ScanRecord, pr \in BOOLEAN :
       [sc EXCEPT !.progress = pr] \in ScanRecord
  /\ \A sc \in ScanRecord \cup {NoScan} :
       WithoutProgress(sc) \in ScanRecord \cup {NoScan}
  /\ \A sc \in ScanRecord \cup {NoScan} :
       sc.status = "running" => sc \in ScanRecord
<1>1. \A sc \in ScanRecord, st \in ScanStatus :
        [sc EXCEPT !.status = st] \in ScanRecord
  BY DEF ScanRecord
<1>2. \A sc \in ScanRecord, pr \in BOOLEAN :
        [sc EXCEPT !.progress = pr] \in ScanRecord
  BY DEF ScanRecord
<1>3. \A sc \in ScanRecord : WithoutProgress(sc) \in ScanRecord
  BY DEF ScanRecord, WithoutProgress
<1>4. WithoutProgress(NoScan) = NoScan
  BY DEF NoScan, WithoutProgress
<1>5. NoScan.status # "running"
  BY DEF NoScan
<1> QED
  BY <1>1, <1>2, <1>3, <1>4, <1>5

-----------------------------------------------------------------------------
(* Type correctness.                                                       *)

\* What the engine's steps keep of the types: its own variables.
LEMMA ToolStepTypes ==
  ASSUME TypeOK, NEW j \in Jobs, ToolStep(j)
  PROVE  EngineTypeOK'
<1> USE DEF TypeOK, EngineTypeOK, JobState, Drained, InFlight
<1>1. Progressed \in ScanRecord
  BY DEF Progressed, ScanRecord
<1>2. /\ SaveScan(db, Progressed) \in Database
      /\ SaveResult(db, j) \in Database
  BY <1>1, StoreTypes
<1>3. CASE LaunchTool(j)
  BY <1>3, <1>1, <1>2 DEF LaunchTool, Emit, stage
<1>4. CASE ReuseResult(j)
  BY <1>4, <1>2 DEF ReuseResult, stage
<1>5. CASE SpawnProcess(j)
  BY <1>5 DEF SpawnProcess, stage
<1>6. CASE ProcessExits(j)
  BY <1>6 DEF ProcessExits, stage
<1>7. CASE PersistResult(j)
  BY <1>7, <1>2 DEF PersistResult, stage
<1>8. CASE PersistError(j)
  BY <1>8, <1>2 DEF PersistError, stage
<1>9. CASE ReportTool(j)
  BY <1>9, <1>1, <1>2 DEF ReportTool, Emit, stage
<1> QED
  BY <1>3, <1>4, <1>5, <1>6, <1>7, <1>8, <1>9 DEF ToolStep

LEMMA RunScanTypes ==
  ASSUME TypeOK, RunScanStep
  PROVE  EngineTypeOK'
<1> USE LoopsAssumption
    DEF TypeOK, EngineTypeOK, JobState, Drained, InFlight,
        EnginePC, RunningPC, ClosingPC, OverPC, stage
<1>2. /\ Progressed \in ScanRecord
      /\ WithoutProgress(escan) \in ScanRecord
      /\ \A st \in ScanStatus : [escan EXCEPT !.status = st] \in ScanRecord
  BY DEF Progressed, WithoutProgress, ScanRecord
<1>3. {"running", "completed", "failed", "cancelled"} \subseteq ScanStatus
  BY DEF ScanStatus
<1>4. \A sc \in ScanRecord : SaveScan(db, sc) \in Database
  BY StoreTypes
<1>5. /\ SaveInventory(db, snapshot) \in Database
      /\ DeleteResults(db) \in Database
  BY StoreTypes
<1>6. db.results \in SUBSET Jobs
  BY DEF Database
<1>7. CASE PrepareScan
  BY <1>7, <1>2, <1>3, <1>4, <1>5, <1>6 DEF PrepareScan
<1>8. CASE MarkRunning
  BY <1>8, <1>2, <1>3, <1>4, <1>5, <1>6 DEF MarkRunning, AcceptsScan
<1>9. CASE DomainGate
  BY <1>9, <1>2, <1>3, <1>4, <1>5, <1>6 DEF DomainGate
<1>10. CASE StartDomain
  BY <1>10, <1>2, <1>3, <1>4, <1>5, <1>6 DEF StartDomain, Emit
<1>11. CASE PhaseGate
  BY <1>11, <1>2, <1>3, <1>4, <1>5, <1>6 DEF PhaseGate
<1>12. CASE AnnounceCancelled
  BY <1>12, <1>2, <1>3, <1>4, <1>5, <1>6 DEF AnnounceCancelled, Emit
<1>13. CASE WriteHandoff
  BY <1>13, <1>2, <1>3, <1>4, <1>5, <1>6 DEF WriteHandoff, Emit
<1>14. CASE EnterPhase
  BY <1>14, <1>2, <1>3, <1>4, <1>5, <1>6 DEF EnterPhase, Emit, LeavePhase, NextPhase
<1>15. CASE \E j \in Jobs : StartAI(j)
  BY <1>15, <1>2, <1>3, <1>4, <1>5, <1>6 DEF StartAI
<1>16. CASE FinishPhase
  BY <1>16, <1>2, <1>3, <1>4, <1>5, <1>6 DEF FinishPhase, Emit, LeavePhase, NextPhase
<1>17. CASE PhaseRaises
  BY <1>17, <1>2, <1>3, <1>4, <1>5, <1>6 DEF PhaseRaises, Fail
<1>18. CASE WriteAliveUrls
  BY <1>18, <1>2, <1>3, <1>4, <1>5, <1>6 DEF WriteAliveUrls, Emit, NextPhase
<1>19. CASE FinishDomain
  BY <1>19, <1>2, <1>3, <1>4, <1>5, <1>6 DEF FinishDomain, Emit
<1>20. CASE CollectResults
  BY <1>20, <1>2, <1>3, <1>4, <1>5, <1>6 DEF CollectResults
<1>21. CASE WriteInventory
  BY <1>21, <1>2, <1>3, <1>4, <1>5, <1>6 DEF WriteInventory, Fail
<1>22. CASE WriteManifest
  BY <1>22, <1>2, <1>3, <1>4, <1>5, <1>6 DEF WriteManifest, Fail
<1>23. CASE SaveFinal
  BY <1>23, <1>2, <1>3, <1>4, <1>5, <1>6 DEF SaveFinal
<1>24. CASE NotifyCompleted
  BY <1>24, <1>2, <1>3, <1>4, <1>5, <1>6 DEF NotifyCompleted
<1>25. CASE EmitTerminal
  BY <1>25, <1>2, <1>3, <1>4, <1>5, <1>6 DEF EmitTerminal, Emit
<1>26. CASE PurgeResults
  BY <1>26, <1>2, <1>3, <1>4, <1>5, <1>6 DEF PurgeResults
<1>27. CASE PurgeArtifacts
  BY <1>27, <1>2, <1>3, <1>4, <1>5, <1>6 DEF PurgeArtifacts
<1>28. CASE PurgeProgress
  BY <1>28, <1>2, <1>3, <1>4, <1>5, <1>6 DEF PurgeProgress
<1>29. CASE Linger
  BY <1>29, <1>2, <1>3, <1>4, <1>5, <1>6 DEF Linger
<1> QED
  BY <1>7, <1>8, <1>9, <1>10, <1>11, <1>12, <1>13, <1>14, <1>15, <1>16,
     <1>17, <1>18, <1>19, <1>20, <1>21, <1>22, <1>23, <1>24, <1>25,
     <1>26, <1>27, <1>28, <1>29
     DEF RunScanStep

LEMMA RequestStepTypes ==
  ASSUME TypeOK, NEW r \in Requests, RequestStep(r)
  PROVE  EngineTypeOK' /\ RequestsTypeOK'
<1> USE DEF TypeOK, EngineTypeOK, RequestsTypeOK, RestPC, BusyPC, Goto, stage
<1>1. /\ hscan[r] \in ScanRecord \cup {NoScan}
      /\ db.scan \in ScanRecord \cup {NoScan}
      /\ hprocs[r] \in SUBSET Jobs
  BY DEF Database
<1>2. /\ WithoutProgress(hscan[r]) \in ScanRecord \cup {NoScan}
      /\ db.scan.status = "running" =>
           [db.scan EXCEPT !.status = "cancelled"] \in ScanRecord
  BY <1>1, ScanEdits DEF ScanStatus
<1>3. \A sc \in ScanRecord \cup {NoScan} : SaveScan(db, sc) \in Database
  BY StoreTypes
<1>4. /\ DeleteResults(db) \in Database
      /\ DeleteScan(db) \in Database
      /\ SaveProject(db) \in Database
      /\ DeleteProject(db) \in Database
  BY StoreTypes
<1>5. CASE TerminateScan(r)
  BY <1>5, <1>1, <1>2, <1>3, <1>4 DEF TerminateScan, AfterTerminate
<1>6. CASE KillScan(r)
  BY <1>6, <1>1, <1>2, <1>3, <1>4 DEF KillScan, AfterTerminate
<1>7. CASE ReadForCancel(r)
  BY <1>7, <1>1, <1>2, <1>3, <1>4 DEF ReadForCancel, engineVars
<1>8. CASE MarkCancelled(r)
  BY <1>8, <1>1, <1>2, <1>3, <1>4 DEF MarkCancelled
<1>9. CASE CancelDeletesResults(r)
  BY <1>9, <1>1, <1>2, <1>3, <1>4 DEF CancelDeletesResults
<1>10. CASE CancelDeletesArtifacts(r)
  BY <1>10, <1>1, <1>2, <1>3, <1>4 DEF CancelDeletesArtifacts
<1>11. CASE CancelDropsProgress(r)
  BY <1>11, <1>1, <1>2, <1>3, <1>4 DEF CancelDropsProgress
<1>12. CASE LoadProject(r)
  BY <1>12, <1>1, <1>2, <1>3, <1>4 DEF LoadProject, engineVars
<1>13. CASE ListScans(r)
  BY <1>13, <1>1, <1>2, <1>3, <1>4 DEF ListScans, AfterScans, engineVars
<1>14. CASE DropFiles(r)
  BY <1>14, <1>1, <1>2, <1>3, <1>4 DEF DropFiles
<1>15. CASE DropRow(r)
  BY <1>15, <1>1, <1>2, <1>3, <1>4 DEF DropRow, AfterScans
<1>16. CASE ResetProject(r)
  BY <1>16, <1>1, <1>2, <1>3, <1>4 DEF ResetProject
<1>17. CASE DropProject(r)
  BY <1>17, <1>1, <1>2, <1>3, <1>4 DEF DropProject
<1> QED
  BY <1>5, <1>6, <1>7, <1>8, <1>9, <1>10, <1>11, <1>12, <1>13, <1>14,
     <1>15, <1>16, <1>17
     DEF RequestStep, RequestContinues

LEMMA TypeInit == Init => TypeOK
<1> SUFFICES ASSUME Init PROVE TypeOK
  OBVIOUS
<1>1. EngineTypeOK
  <2> USE DEF Init, EngineInit
  <2>1. db \in Database
    BY DEF Database, ScanRecord, ScanStatus
  <2>2. domain \in 1 .. NDomains /\ phase \in 1 .. NPhases
    BY LoopsAssumption
  <2>3. escan \in ScanRecord
    BY DEF ScanRecord, ScanStatus
  <2> QED
    BY <2>1, <2>2, <2>3 DEF EngineTypeOK, JobState, EnginePC
<1>2. RequestsTypeOK
  BY DEF Init, RequestsInit, RequestsTypeOK, RestPC
<1> QED
  BY <1>1, <1>2 DEF Init, TypeOK

LEMMA TypeNext == TypeOK /\ [Next]_vars => TypeOK'
<1> SUFFICES ASSUME TypeOK, [Next]_vars PROVE TypeOK'
  OBVIOUS
<1>1. CASE Engine
  <2>1. EngineTypeOK'
    BY <1>1, ToolStepTypes, RunScanTypes DEF Engine, EngineStep
  <2> QED
    BY <1>1, <2>1 DEF Engine, TypeOK, RequestsTypeOK, requestVars
<1>2. ASSUME NEW r \in Requests, Request(r) PROVE TypeOK'
  BY <1>2, RequestStepTypes DEF Request, TypeOK
<1>3. CASE Crash
  BY <1>3 DEF Crash, TypeOK, EngineTypeOK, RequestsTypeOK, EnginePC, OverPC,
              JobState, RestPC, stage
<1>4. CASE Recover
  <2>1. db.scan.status = "running" =>
          SaveScan(db, [db.scan EXCEPT !.status = "failed"]) \in Database
    BY DEF TypeOK, EngineTypeOK, Database, SaveScan, ScanRecord, ScanStatus,
           NoScan
  <2> QED
    BY <1>4, <2>1 DEF Recover, TypeOK, EngineTypeOK, RequestsTypeOK,
                      requestVars, stage
<1>5. CASE UNCHANGED vars
  BY <1>5 DEF vars, engineVars, requestVars, TypeOK, EngineTypeOK,
              RequestsTypeOK, stage
<1> QED
  BY <1>1, <1>2, <1>3, <1>4, <1>5 DEF Next, Idle

\* Every variable keeps its type: the tables, the program counters of
\* run_scan, its tools and the requests, the process registry.
THEOREM TypeCorrect == Spec => []TypeOK
  BY TypeInit, TypeNext, PTL DEF Spec

-----------------------------------------------------------------------------
(* WritersOwnRunning is inductive.                                         *)

\* The row's parent exists after every storage call if it did before.
LEMMA StoreParents ==
  ASSUME NEW d \in Database, HasScan(d) => d.project
  PROVE  /\ \A s \in ScanRecord \cup {NoScan} :
              HasScan(SaveScan(d, s)) => SaveScan(d, s).project
         /\ \A j \in Jobs :
              HasScan(SaveResult(d, j)) => SaveResult(d, j).project
         /\ \A rs \in SUBSET Jobs :
              HasScan(SaveInventory(d, rs)) => SaveInventory(d, rs).project
         /\ HasScan(DeleteResults(d)) => DeleteResults(d).project
         /\ ~HasScan(DeleteScan(d))
         /\ HasScan(SaveProject(d)) => SaveProject(d).project
         /\ ~HasScan(DeleteProject(d))
BY DEF Database, SaveScan, SaveResult, SaveInventory, DeleteResults,
       DeleteScan, SaveProject, DeleteProject, AcceptsScan, HasScan

\* An append to the progress keeps the status in memory; the row then has
\* that status, or the one it had.
LEMMA EmitStatus ==
  ASSUME TypeOK, WritersOwnRunning, Emit
  PROVE  /\ escan'.status = escan.status
         /\ db'.scan.status \in {escan.status, db.scan.status}
         /\ HasScan(db') => db'.project
<1>1. Progressed \in ScanRecord /\ Progressed.status = escan.status
  BY DEF TypeOK, EngineTypeOK, Progressed, ScanRecord
<1> QED
  BY <1>1, StoreStatus, StoreParents
     DEF Emit, TypeOK, EngineTypeOK, WritersOwnRunning

LEMMA ToolStepOwns ==
  ASSUME TypeOK, WritersOwnRunning, server # "down",
         NEW j \in Jobs, ToolStep(j), UNCHANGED <<requestVars, server>>
  PROVE  WritersOwnRunning'
<1> USE DEF WritersOwnRunning, RunningIsAlive, TypeOK, EngineTypeOK,
            JobState, Drained, InFlight, requestVars, stage
<1>1. /\ SaveResult(db, j).scan = db.scan
      /\ HasScan(SaveResult(db, j)) => SaveResult(db, j).project
  BY StoreStatus, StoreParents
<1>2. CASE LaunchTool(j)
  BY <1>2, EmitStatus DEF LaunchTool, RunningPC, ClosingPC, EnginePC, OverPC
<1>3. CASE ReuseResult(j)
  BY <1>3, <1>1 DEF ReuseResult
<1>4. CASE SpawnProcess(j)
  BY <1>4 DEF SpawnProcess
<1>5. CASE ProcessExits(j)
  BY <1>5 DEF ProcessExits
<1>6. CASE PersistResult(j)
  BY <1>6, <1>1 DEF PersistResult
<1>7. CASE PersistError(j)
  BY <1>7, <1>1 DEF PersistError
<1>8. CASE ReportTool(j)
  BY <1>8, EmitStatus DEF ReportTool, RunningPC, ClosingPC, EnginePC, OverPC
<1> QED
  BY <1>2, <1>3, <1>4, <1>5, <1>6, <1>7, <1>8 DEF ToolStep

LEMMA RunScanOwns ==
  ASSUME TypeOK, WritersOwnRunning, server # "down",
         RunScanStep, UNCHANGED <<requestVars, server>>
  PROVE  WritersOwnRunning'
<1> USE DEF WritersOwnRunning, RunningIsAlive, TypeOK, EngineTypeOK,
            EnginePC, RunningPC, ClosingPC, OverPC, requestVars, stage
<1>1. \A sc \in ScanRecord :
        /\ SaveScan(db, sc).scan \in {sc, db.scan}
        /\ ~AcceptsScan(db) => SaveScan(db, sc).scan = db.scan
        /\ AcceptsScan(db) => SaveScan(db, sc).scan = sc
        /\ HasScan(SaveScan(db, sc)) => SaveScan(db, sc).project
  BY StoreStatus, StoreParents
<1>2. /\ DeleteResults(db).scan = db.scan
      /\ HasScan(DeleteResults(db)) => DeleteResults(db).project
      /\ SaveInventory(db, snapshot).scan = db.scan
      /\ HasScan(SaveInventory(db, snapshot)) =>
           SaveInventory(db, snapshot).project
  BY StoreStatus, StoreParents
<1>3. \A st \in {"running", "completed", "failed", "cancelled"} :
        /\ [escan EXCEPT !.status = st] \in ScanRecord
        /\ [escan EXCEPT !.status = st].status = st
  BY DEF ScanRecord, ScanStatus
<1>4. /\ WithoutProgress(escan) \in ScanRecord
      /\ WithoutProgress(escan).status = escan.status
  BY DEF WithoutProgress, ScanRecord
<1>5. CASE PrepareScan
  BY <1>5 DEF PrepareScan
<1>6. CASE MarkRunning
  BY <1>6, <1>1, <1>3 DEF MarkRunning, AcceptsScan
<1>7. CASE DomainGate
  BY <1>7, <1>3 DEF DomainGate
<1>8. CASE StartDomain
  BY <1>8, EmitStatus DEF StartDomain
<1>9. CASE PhaseGate
  BY <1>9, <1>3 DEF PhaseGate
<1>10. CASE AnnounceCancelled
  BY <1>10, EmitStatus DEF AnnounceCancelled
<1>11. CASE WriteHandoff
  BY <1>11, EmitStatus DEF WriteHandoff
<1>12. CASE EnterPhase
  BY <1>12, EmitStatus DEF EnterPhase, LeavePhase, NextPhase
<1>13. CASE \E j \in Jobs : StartAI(j)
  BY <1>13 DEF StartAI
<1>14. CASE FinishPhase
  BY <1>14, EmitStatus DEF FinishPhase, LeavePhase, NextPhase
<1>15. CASE PhaseRaises
  BY <1>15, <1>3 DEF PhaseRaises, Fail
<1>16. CASE WriteAliveUrls
  BY <1>16, EmitStatus DEF WriteAliveUrls, NextPhase
<1>17. CASE FinishDomain
  BY <1>17, EmitStatus DEF FinishDomain
<1>18. CASE CollectResults
  BY <1>18 DEF CollectResults
<1>19. CASE WriteInventory
  BY <1>19, <1>2, <1>3 DEF WriteInventory, Fail
<1>20. CASE WriteManifest
  BY <1>20, <1>3 DEF WriteManifest, Fail
<1>21. CASE SaveFinal
  <2>1. ~AcceptsScan(db) => db.scan.status # "running"
    BY DEF AcceptsScan, HasScan, NoScan
  <2> QED
    BY <1>21, <1>1, <2>1 DEF SaveFinal
<1>22. CASE NotifyCompleted
  BY <1>22 DEF NotifyCompleted
<1>23. CASE EmitTerminal
  BY <1>23, EmitStatus DEF EmitTerminal
<1>24. CASE PurgeResults
  BY <1>24, <1>2 DEF PurgeResults
<1>25. CASE PurgeArtifacts
  BY <1>25 DEF PurgeArtifacts
<1>26. CASE PurgeProgress
  BY <1>26, <1>1, <1>4 DEF PurgeProgress, AcceptsScan
<1>27. CASE Linger
  BY <1>27 DEF Linger
<1> QED
  BY <1>5, <1>6, <1>7, <1>8, <1>9, <1>10, <1>11, <1>12, <1>13, <1>14,
     <1>15, <1>16, <1>17, <1>18, <1>19, <1>20, <1>21, <1>22, <1>23,
     <1>24, <1>25, <1>26, <1>27
     DEF RunScanStep

LEMMA RequestOwns ==
  ASSUME TypeOK, WritersOwnRunning, server # "down",
         NEW r \in Requests, RequestStep(r), UNCHANGED server
  PROVE  WritersOwnRunning'
<1> USE DEF WritersOwnRunning, RunningIsAlive, TypeOK, EngineTypeOK,
            RequestsTypeOK, Goto, stage
<1>1. hscan[r] \in ScanRecord \cup {NoScan} /\ hscan[r].status # "running"
  OBVIOUS
<1>2. /\ WithoutProgress(hscan[r]) \in ScanRecord \cup {NoScan}
      /\ WithoutProgress(hscan[r]).status = hscan[r].status
  BY <1>1, ScanEdits DEF WithoutProgress
<1>3. \A sc \in ScanRecord \cup {NoScan} :
        /\ SaveScan(db, sc).scan \in {sc, db.scan}
        /\ HasScan(SaveScan(db, sc)) => SaveScan(db, sc).project
  BY StoreStatus, StoreParents
<1>4. /\ DeleteResults(db).scan = db.scan
      /\ HasScan(DeleteResults(db)) => DeleteResults(db).project
      /\ DeleteScan(db).scan = NoScan
      /\ SaveProject(db).scan = db.scan
      /\ HasScan(SaveProject(db)) => SaveProject(db).project
      /\ DeleteProject(db).scan = NoScan
  BY StoreStatus, StoreParents
<1>5. NoScan.status # "running" /\ ~HasScan([db EXCEPT !.scan = NoScan])
  BY DEF NoScan, HasScan, Database
<1>6. CASE TerminateScan(r)
  BY <1>6 DEF TerminateScan, AfterTerminate
<1>7. CASE KillScan(r)
  BY <1>7 DEF KillScan, AfterTerminate
<1>8. CASE ReadForCancel(r)
  <2>1. db.scan.status = "running" =>
          [db.scan EXCEPT !.status = "cancelled"].status = "cancelled"
    BY ScanEdits DEF Database, ScanRecord
  <2> QED
    BY <1>8, <2>1 DEF ReadForCancel, engineVars
<1>9. CASE MarkCancelled(r)
  BY <1>9, <1>1, <1>3 DEF MarkCancelled
<1>10. CASE CancelDeletesResults(r)
  BY <1>10, <1>4 DEF CancelDeletesResults
<1>11. CASE CancelDeletesArtifacts(r)
  BY <1>11 DEF CancelDeletesArtifacts
<1>12. CASE CancelDropsProgress(r)
  BY <1>12, <1>1, <1>2, <1>3 DEF CancelDropsProgress
<1>13. CASE LoadProject(r)
  BY <1>13 DEF LoadProject, engineVars
<1>14. CASE ListScans(r)
  BY <1>14 DEF ListScans, AfterScans, engineVars
<1>15. CASE DropFiles(r)
  BY <1>15 DEF DropFiles
<1>16. CASE DropRow(r)
  BY <1>16, <1>4, <1>5 DEF DropRow, AfterScans, HasScan
<1>17. CASE ResetProject(r)
  BY <1>17, <1>4 DEF ResetProject
<1>18. CASE DropProject(r)
  BY <1>18, <1>4, <1>5 DEF DropProject, HasScan
<1> QED
  BY <1>6, <1>7, <1>8, <1>9, <1>10, <1>11, <1>12, <1>13, <1>14, <1>15,
     <1>16, <1>17, <1>18
     DEF RequestStep, RequestContinues

LEMMA OwnsInit == Init => WritersOwnRunning
BY DEF Init, EngineInit, RequestsInit, WritersOwnRunning, RunningIsAlive,
       HasScan, NoScan, ClosingPC

LEMMA OwnsNext == TypeOK /\ WritersOwnRunning /\ [Next]_vars => WritersOwnRunning'
<1> SUFFICES ASSUME TypeOK, WritersOwnRunning, [Next]_vars
             PROVE  WritersOwnRunning'
  OBVIOUS
<1>1. CASE Engine
  BY <1>1, ToolStepOwns, RunScanOwns DEF Engine, EngineStep
<1>2. ASSUME NEW r \in Requests, Request(r) PROVE WritersOwnRunning'
  BY <1>2, RequestOwns DEF Request
<1>3. CASE Crash
  BY <1>3 DEF Crash, WritersOwnRunning, RunningIsAlive, ClosingPC, TypeOK,
              EngineTypeOK, InFlight, HasScan, RunningPC
<1>4. CASE Recover
  <2> USE DEF TypeOK, EngineTypeOK, WritersOwnRunning, RunningIsAlive,
              requestVars, stage
  <2>1. CASE db.scan.status = "running"
    <3>1. /\ [db.scan EXCEPT !.status = "failed"] \in ScanRecord
          /\ [db.scan EXCEPT !.status = "failed"].status = "failed"
      BY <2>1, ScanEdits DEF Database, ScanStatus, ScanRecord
    <3>2. HasScan(db) /\ AcceptsScan(db)
      BY <2>1 DEF HasScan, NoScan, AcceptsScan
    <3>3. /\ db'.scan = [db.scan EXCEPT !.status = "failed"]
          /\ HasScan(db') => db'.project
      BY <1>4, <2>1, <3>1, <3>2, StoreStatus, StoreParents DEF Recover
    <3> QED
      BY <1>4, <3>1, <3>3 DEF Recover
  <2>2. CASE db.scan.status # "running"
    BY <1>4, <2>2 DEF Recover
  <2> QED
    BY <2>1, <2>2
<1>5. CASE UNCHANGED vars
  BY <1>5 DEF vars, engineVars, requestVars, stage, WritersOwnRunning,
              RunningIsAlive
<1> QED
  BY <1>1, <1>2, <1>3, <1>4, <1>5 DEF Next, Idle

\* Only a run_scan inside its loop may still write "running" into the row, and
\* no request that is under way holds a record that says so.
THEOREM WritersAlwaysOwnRunning == Spec => []WritersOwnRunning
BY TypeInit, TypeNext, OwnsInit, OwnsNext, PTL DEF Spec

\* An assessment is recorded as running only while a run_scan that will
\* still save another status is alive, or the server is down: no request,
\* late tool coroutine or restart leaves a running record without an owner.
THEOREM RunningAlwaysAlive == Spec => []RunningIsAlive
<1>1. WritersOwnRunning => RunningIsAlive
  BY DEF WritersOwnRunning
<1> QED
  BY <1>1, TypeInit, TypeNext, OwnsInit, OwnsNext, PTL DEF Spec

-----------------------------------------------------------------------------
(* Deletion is final.                                                      *)

\* Only save_project brings a project row back, and save_scan needs one.
LEMMA StoreGone ==
  ASSUME NEW d \in Database, ~d.project, ~HasScan(d)
  PROVE  /\ \A s \in ScanRecord \cup {NoScan} : SaveScan(d, s) = d
         /\ \A j \in Jobs : SaveResult(d, j) = d
         /\ \A rs \in SUBSET Jobs : SaveInventory(d, rs) = d
         /\ ~DeleteResults(d).project /\ ~HasScan(DeleteResults(d))
         /\ ~DeleteScan(d).project /\ ~HasScan(DeleteScan(d))
         /\ ~DeleteProject(d).project /\ ~HasScan(DeleteProject(d))
BY DEF Database, SaveScan, SaveResult, SaveInventory, DeleteResults,
       DeleteScan, DeleteProject, AcceptsScan, HasScan

\* With the project gone nothing the engine does changes the database,
\* except to delete from it.
LEMMA EngineGone ==
  ASSUME TypeOK, ~db.project, ~HasScan(db), EngineStep
  PROVE  ~db'.project /\ ~HasScan(db')
<1> USE DEF TypeOK, EngineTypeOK
<1>1. /\ Progressed \in ScanRecord
      /\ WithoutProgress(escan) \in ScanRecord
      /\ [escan EXCEPT !.status = "running"] \in ScanRecord
  BY DEF Progressed, WithoutProgress, ScanRecord, ScanStatus
<1>2. \A sc \in ScanRecord : SaveScan(db, sc) = db
  BY StoreGone
<1>3. \A j \in Jobs : SaveResult(db, j) = db
  BY StoreGone
<1>4. SaveInventory(db, snapshot) = db
  BY StoreGone
<1>5. ~DeleteResults(db).project /\ ~HasScan(DeleteResults(db))
  BY StoreGone
<1>6. ASSUME NEW j \in Jobs, ToolStep(j) PROVE db' = db
  BY <1>6, <1>1, <1>2, <1>3
     DEF ToolStep, LaunchTool, ReuseResult, SpawnProcess, ProcessExits,
         PersistResult, PersistError, ReportTool, Emit
<1>7. ASSUME RunScanStep PROVE db' \in {db, DeleteResults(db)}
  <2>1. CASE Emit
    BY <2>1, <1>1, <1>2 DEF Emit
  <2>2. CASE MarkRunning \/ SaveFinal \/ PurgeProgress
    BY <2>2, <1>1, <1>2 DEF MarkRunning, SaveFinal, PurgeProgress
  <2>3. CASE WriteInventory
    BY <2>3, <1>4 DEF WriteInventory
  <2>4. CASE PurgeResults
    BY <2>4 DEF PurgeResults
  <2>5. CASE UNCHANGED db
    BY <2>5
  <2> QED
    BY <1>7, <2>1, <2>2, <2>3, <2>4, <2>5
       DEF RunScanStep, PrepareScan, DomainGate, StartDomain, PhaseGate,
           AnnounceCancelled, WriteHandoff, EnterPhase, StartAI, FinishPhase,
           PhaseRaises, WriteAliveUrls, FinishDomain, CollectResults,
           WriteManifest, NotifyCompleted, EmitTerminal, PurgeArtifacts, Linger
<1> QED
  BY <1>5, <1>6, <1>7 DEF EngineStep

LEMMA RequestGone ==
  ASSUME TypeOK, WritersOwnRunning, ~db.project, ~HasScan(db),
         \A q \in Clears : ~Busy(q), NEW r \in Requests, RequestStep(r)
  PROVE  ~db'.project /\ ~HasScan(db')
<1> USE DEF TypeOK, EngineTypeOK, RequestsTypeOK
<1>1. /\ hscan[r] \in ScanRecord \cup {NoScan}
      /\ WithoutProgress(hscan[r]) \in ScanRecord \cup {NoScan}
  BY ScanEdits
<1>2. \A sc \in ScanRecord \cup {NoScan} : SaveScan(db, sc) = db
  BY StoreGone
<1>3. /\ ~DeleteResults(db).project /\ ~HasScan(DeleteResults(db))
      /\ ~DeleteScan(db).project /\ ~HasScan(DeleteScan(db))
      /\ ~DeleteProject(db).project /\ ~HasScan(DeleteProject(db))
  BY StoreGone
<1>4. ~ResetProject(r)
  BY DEF ResetProject, WritersOwnRunning, Busy, BusyPC
<1> QED
  BY <1>1, <1>2, <1>3, <1>4
     DEF RequestStep, RequestContinues, TerminateScan, KillScan,
         ReadForCancel, MarkCancelled, CancelDeletesResults,
         CancelDeletesArtifacts, CancelDropsProgress, LoadProject, ListScans,
         DropFiles, DropRow, DropProject, engineVars

\* A deleted program and its assessment stay deleted while its run_scan,
\* which is never told, goes on saving events, results and statuses.
THEOREM DeletionIsFinal == Spec => DeletedStaysDeleted
<1>1. TypeOK /\ WritersOwnRunning /\ [Next]_vars =>
        [/\ ~db.project
         /\ \A r \in Clears : ~Busy(r)
         => ~db'.project /\ ~HasScan(db')]_vars
  <2> SUFFICES ASSUME TypeOK, WritersOwnRunning, Next,
                      ~db.project, \A r \in Clears : ~Busy(r)
               PROVE  ~db'.project /\ ~HasScan(db')
    BY DEF Next
  <2>1. ~HasScan(db)
    BY DEF WritersOwnRunning
  <2>2. CASE Engine
    BY <2>1, <2>2, EngineGone DEF Engine
  <2>3. ASSUME NEW r \in Requests, Request(r)
        PROVE  ~db'.project /\ ~HasScan(db')
    BY <2>1, <2>3, RequestGone DEF Request
  <2>4. CASE Crash
    BY <2>1, <2>4 DEF Crash
  <2>5. CASE Recover
    BY <2>1, <2>5 DEF Recover, HasScan, NoScan
  <2>6. CASE Idle
    BY <2>1, <2>6 DEF Idle, vars, engineVars
  <2> QED
    BY <2>2, <2>3, <2>4, <2>5, <2>6 DEF Next
<1> QED
  BY <1>1, TypeInit, TypeNext, OwnsInit, OwnsNext, PTL
     DEF Spec, DeletedStaysDeleted

-----------------------------------------------------------------------------
(* The barrier between phases, for every number of jobs, domains and       *)
(* phases: StagesInOrder is inductive, and PhasesDrained and AIRunsLast    *)
(* follow from it.                                                         *)

\* A tool coroutine that moves was in flight, stays started, and moves
\* nobody else.
LEMMA ToolStepMoves ==
  ASSUME TypeOK, NEW j \in Jobs, ToolStep(j)
  PROVE  /\ jobs[j] \in InFlight
         /\ jobs'[j] # "idle"
         /\ \A k \in Jobs : k # j => jobs'[k] = jobs[k]
         /\ UNCHANGED <<epc, domain, phase>>
<1> USE DEF TypeOK, EngineTypeOK, InFlight, stage
<1>1. CASE LaunchTool(j)
  BY <1>1 DEF LaunchTool
<1>2. CASE ReuseResult(j)
  BY <1>2 DEF ReuseResult
<1>3. CASE SpawnProcess(j)
  BY <1>3 DEF SpawnProcess
<1>4. CASE ProcessExits(j)
  BY <1>4 DEF ProcessExits
<1>5. CASE PersistResult(j)
  BY <1>5 DEF PersistResult
<1>6. CASE PersistError(j)
  BY <1>6 DEF PersistError
<1>7. CASE ReportTool(j)
  BY <1>7 DEF ReportTool
<1> QED
  BY <1>1, <1>2, <1>3, <1>4, <1>5, <1>6, <1>7 DEF ToolStep

\* Every job is behind run_scan, in its current stage or ahead of it.
LEMMA StageCases ==
  ASSUME TypeOK
  PROVE  \A j \in Jobs :
           /\ Passed(j) \/ Ahead(j) \/ j \in StageJobs
           /\ ~(Passed(j) /\ Ahead(j))
           /\ j \in StageJobs => ~Passed(j) /\ ~Ahead(j)
BY LoopsAssumption DEF TypeOK, EngineTypeOK, Passed, Ahead, StageJobs

LEMMA ToolStepStages ==
  ASSUME TypeOK, StagesInOrder, NEW j \in Jobs, ToolStep(j)
  PROVE  StagesInOrder'
<1>1. j \in StageJobs /\ epc \notin BeforePhasePC /\ epc \notin AfterPhasePC
  BY ToolStepMoves, StageCases DEF StagesInOrder, InFlight, Drained
<1>2. /\ StageJobs' = StageJobs
      /\ \A k \in Jobs : Passed(k)' = Passed(k) /\ Ahead(k)' = Ahead(k)
  BY ToolStepMoves DEF StageJobs, Passed, Ahead
<1>3. ~Passed(j) /\ ~Ahead(j)
  BY <1>1, StageCases
<1> QED
  BY <1>1, <1>2, <1>3, ToolStepMoves DEF StagesInOrder

\* Leaving a drained phase keeps the order, with or without the files that
\* are written after it.
LEMMA NextPhaseStages ==
  ASSUME TypeOK, StagesInOrder, NextPhase, UNCHANGED jobs,
         \A j \in StageJobs : jobs[j] \in Drained
  PROVE  StagesInOrder'
<1> USE DEF TypeOK, EngineTypeOK
<1>1. CASE phase = NPhases
  BY <1>1 DEF NextPhase, stage, StagesInOrder, Passed, Ahead, StageJobs,
              BeforePhasePC, AfterPhasePC
<1>2. CASE phase # NPhases
  <2>1. epc' = "gate" /\ phase' = phase + 1 /\ domain' = domain
    BY <1>2 DEF NextPhase
  <2>2. \A j \in Jobs : Passed(j)' => Passed(j) \/ j \in StageJobs
    BY <2>1, LoopsAssumption DEF Passed, StageJobs
  <2>3. \A j \in Jobs : Ahead(j)' => Ahead(j)
    BY <2>1, LoopsAssumption DEF Ahead
  <2>4. \A j \in Jobs : j \in StageJobs' => Ahead(j)
    BY <2>1, LoopsAssumption DEF Ahead, StageJobs
  <2> QED
    BY <2>1, <2>2, <2>3, <2>4 DEF StagesInOrder, AfterPhasePC, StageJobs
<1> QED
  BY <1>1, <1>2

LEMMA LeavePhaseStages ==
  ASSUME TypeOK, StagesInOrder, LeavePhase, UNCHANGED jobs,
         \A j \in StageJobs : jobs[j] \in Drained
  PROVE  StagesInOrder'
<1>1. CASE phase \in HandoffAfter
  BY <1>1 DEF LeavePhase, stage, StagesInOrder, Passed, Ahead, StageJobs,
              BeforePhasePC, AfterPhasePC
<1> QED
  BY <1>1, NextPhaseStages DEF LeavePhase

LEMMA EnterPhaseStages ==
  ASSUME TypeOK, StagesInOrder, EnterPhase
  PROVE  StagesInOrder'
<1> USE DEF TypeOK, EngineTypeOK
<1>1. CASE StageJobs = {}
  <2>1. jobs' = jobs
    BY <1>1 DEF EnterPhase
  <2> QED
    BY <1>1, <2>1, LeavePhaseStages DEF EnterPhase
<1>2. CASE StageJobs # {}
  <2>1. epc' = "tools" /\ UNCHANGED <<domain, phase>>
    BY <1>2 DEF EnterPhase, stage
  <2>2. \A j \in Jobs : j \notin StageJobs => jobs'[j] = jobs[j]
    BY DEF EnterPhase
  <2>3. \A j \in Jobs : Passed(j)' = Passed(j) /\ Ahead(j)' = Ahead(j)
    BY <2>1 DEF Passed, Ahead
  <2> QED
    BY <2>1, <2>2, <2>3, StageCases
       DEF StagesInOrder, BeforePhasePC, AfterPhasePC
<1> QED
  BY <1>1, <1>2

LEMMA StartAIStages ==
  ASSUME TypeOK, StagesInOrder, NEW j \in Jobs, StartAI(j)
  PROVE  StagesInOrder'
<1>1. /\ j \in StageJobs /\ epc = "tools" /\ epc' = "tools"
      /\ UNCHANGED <<domain, phase>>
      /\ \A k \in Jobs : k # j => jobs'[k] = jobs[k]
  BY DEF StartAI, stage, TypeOK, EngineTypeOK
<1>2. ~Passed(j) /\ ~Ahead(j)
  BY <1>1, StageCases
<1>3. \A k \in Jobs : Passed(k)' = Passed(k) /\ Ahead(k)' = Ahead(k)
  BY <1>1 DEF Passed, Ahead
<1> QED
  BY <1>1, <1>2, <1>3 DEF StagesInOrder, BeforePhasePC, AfterPhasePC

\* The next domain starts only from a domain whose last phase has drained.
LEMMA FinishDomainStages ==
  ASSUME TypeOK, StagesInOrder, FinishDomain
  PROVE  StagesInOrder'
<1> USE DEF TypeOK, EngineTypeOK
<1>1. CASE domain = NDomains
  BY <1>1 DEF FinishDomain, stage, StagesInOrder, Passed, Ahead, StageJobs,
              BeforePhasePC, AfterPhasePC
<1>2. CASE domain # NDomains
  <2>1. /\ epc = "domaindone" /\ epc' = "domain"
        /\ domain' = domain + 1 /\ phase' = 1 /\ jobs' = jobs
    BY <1>2 DEF FinishDomain
  <2>2. phase = NPhases
    BY <2>1 DEF StagesInOrder
  <2>3. \A j \in Jobs : Passed(j)' => Passed(j) \/ j \in StageJobs
    BY <2>1, <2>2, LoopsAssumption DEF Passed, StageJobs
  <2>4. \A j \in Jobs : Ahead(j)' => Ahead(j)
    BY <2>1, LoopsAssumption DEF Ahead
  <2>5. \A j \in Jobs : j \in StageJobs' => Ahead(j)
    BY <2>1, LoopsAssumption DEF Ahead, StageJobs
  <2> QED
    BY <2>1, <2>3, <2>4, <2>5 DEF StagesInOrder, AfterPhasePC, StageJobs
<1> QED
  BY <1>1, <1>2

LEMMA RunScanStages ==
  ASSUME TypeOK, StagesInOrder, RunScanStep
  PROVE  StagesInOrder'
<1> DEFINE Still == UNCHANGED <<domain, phase, jobs>>
<1>1. ASSUME Still,
             epc' \in BeforePhasePC => epc \in BeforePhasePC,
             epc' \notin AfterPhasePC
      PROVE  StagesInOrder'
  BY <1>1 DEF StagesInOrder, Passed, Ahead, StageJobs, AfterPhasePC
<1>2. CASE PrepareScan \/ MarkRunning \/ DomainGate \/ StartDomain
  BY <1>1, <1>2 DEF PrepareScan, MarkRunning, DomainGate, StartDomain, stage,
                    BeforePhasePC, AfterPhasePC
<1>3. CASE PhaseGate \/ AnnounceCancelled \/ WriteHandoff
  BY <1>1, <1>3 DEF PhaseGate, AnnounceCancelled, WriteHandoff, stage,
                    BeforePhasePC, AfterPhasePC
<1>4. CASE EnterPhase
  BY <1>4, EnterPhaseStages
<1>5. CASE \E j \in Jobs : StartAI(j)
  BY <1>5, StartAIStages
<1>6. CASE FinishPhase
  BY <1>6, LeavePhaseStages DEF FinishPhase, PhaseDrained
<1>7. CASE PhaseRaises
  BY <1>1, <1>7 DEF PhaseRaises, stage, BeforePhasePC, AfterPhasePC
<1>8. CASE WriteAliveUrls
  <2>1. \A j \in StageJobs : jobs[j] \in Drained
    BY <1>8 DEF WriteAliveUrls, StagesInOrder, AfterPhasePC
  <2> QED
    BY <1>8, <2>1, NextPhaseStages DEF WriteAliveUrls
<1>9. CASE FinishDomain
  BY <1>9, FinishDomainStages
<1>10. CASE CollectResults \/ WriteInventory \/ WriteManifest \/ SaveFinal
  BY <1>1, <1>10 DEF CollectResults, WriteInventory, WriteManifest,
                     SaveFinal, stage, BeforePhasePC, AfterPhasePC
<1>11. CASE NotifyCompleted \/ EmitTerminal \/ Linger
  BY <1>1, <1>11 DEF NotifyCompleted, EmitTerminal, Linger, stage,
                     BeforePhasePC, AfterPhasePC
<1>12. CASE PurgeResults \/ PurgeArtifacts \/ PurgeProgress
  BY <1>1, <1>12 DEF PurgeResults, PurgeArtifacts, PurgeProgress, stage,
                     BeforePhasePC, AfterPhasePC
<1> QED
  BY <1>2, <1>3, <1>4, <1>5, <1>6, <1>7, <1>8, <1>9, <1>10, <1>11, <1>12
     DEF RunScanStep

LEMMA RequestStages ==
  ASSUME StagesInOrder, NEW r \in Requests, RequestStep(r)
  PROVE  StagesInOrder' /\ UNCHANGED <<jobs, epc, domain, phase>>
<1>1. UNCHANGED <<jobs, epc, domain, phase>>
  BY DEF RequestStep, RequestContinues, TerminateScan, KillScan,
         ReadForCancel, MarkCancelled, CancelDeletesResults,
         CancelDeletesArtifacts, CancelDropsProgress, LoadProject, ListScans,
         DropFiles, DropRow, ResetProject, DropProject, engineVars, stage
<1> QED
  BY <1>1 DEF StagesInOrder, Passed, Ahead, StageJobs

LEMMA StagesInit == Init => StagesInOrder
<1> SUFFICES ASSUME Init PROVE StagesInOrder
  OBVIOUS
<1>1. \A j \in Jobs : ~Passed(j)
  BY LoopsAssumption DEF Init, EngineInit, Passed
<1> QED
  BY <1>1 DEF Init, EngineInit, StagesInOrder, StageJobs, AfterPhasePC

LEMMA CrashJobs ==
  ASSUME TypeOK, Crash
  PROVE  /\ UNCHANGED <<domain, phase>>
         /\ epc' \in {"ended", "dead"}
         /\ \A j \in Jobs : jobs[j] \in Drained \cup {"idle"} =>
              jobs'[j] = jobs[j]
         /\ \A j \in Jobs : jobs'[j] = "idle" => jobs[j] = "idle"
BY DEF Crash, stage, TypeOK, EngineTypeOK, Drained, InFlight

LEMMA StagesNext == TypeOK /\ StagesInOrder /\ [Next]_vars => StagesInOrder'
<1> SUFFICES ASSUME TypeOK, StagesInOrder, [Next]_vars
             PROVE  StagesInOrder'
  OBVIOUS
<1>1. CASE Engine
  BY <1>1, ToolStepStages, RunScanStages DEF Engine, EngineStep
<1>2. ASSUME NEW r \in Requests, Request(r) PROVE StagesInOrder'
  BY <1>2, RequestStages DEF Request
<1>3. CASE Crash
  <2>1. \A j \in Jobs : Passed(j)' = Passed(j) /\ Ahead(j)' = Ahead(j)
    BY <1>3, CrashJobs DEF Passed, Ahead
  <2> QED
    BY <1>3, <2>1, CrashJobs DEF StagesInOrder, BeforePhasePC, AfterPhasePC
<1>4. CASE Recover
  BY <1>4 DEF Recover, stage, StagesInOrder, Passed, Ahead, StageJobs
<1>5. CASE UNCHANGED vars
  BY <1>5 DEF vars, engineVars, stage, StagesInOrder, Passed, Ahead, StageJobs
<1> QED
  BY <1>1, <1>2, <1>3, <1>4, <1>5 DEF Next, Idle

\* The tools behind where run_scan is have drained, and those ahead of it have
\* not started.
THEOREM StagesAlwaysInOrder == Spec => []StagesInOrder
BY TypeInit, TypeNext, StagesInit, StagesNext, PTL DEF Spec

\* The phases of an assessment are a barrier: while a tool of some stage has
\* been started, no tool of an earlier phase or domain is unfinished, lost or
\* still to come, however requests and a crash interleave.
THEOREM PhaseBarrier == Spec => []PhasesDrained
<1>1. TypeOK /\ StagesInOrder => PhasesDrained
  <2> SUFFICES ASSUME TypeOK, StagesInOrder,
                      NEW j \in Jobs, NEW k \in Jobs,
                      jobs[j] # "idle", Precedes(k, j)
               PROVE  jobs[k] \in Drained
    BY DEF PhasesDrained
  <2>1. ~Ahead(j)
    BY DEF StagesInOrder
  <2>2. Passed(k)
    BY <2>1, LoopsAssumption
       DEF Passed, Ahead, Precedes, TypeOK, EngineTypeOK
  <2> QED
    BY <2>2 DEF StagesInOrder
<1> QED
  BY <1>1, TypeInit, TypeNext, StagesInit, StagesNext, PTL DEF Spec

-----------------------------------------------------------------------------
LEMMA AIInit == Init => AIRunsLast
BY JobsAssumption DEF Init, EngineInit, AIRunsLast

LEMMA AINext == TypeOK /\ StagesInOrder /\ AIRunsLast /\ [Next]_vars => AIRunsLast'
<1> SUFFICES ASSUME TypeOK, StagesInOrder, AIRunsLast, [Next]_vars
             PROVE  AIRunsLast'
  OBVIOUS
<1> USE JobsAssumption
<1>1. ASSUME NEW j \in Jobs, ToolStep(j) PROVE AIRunsLast'
  BY <1>1, ToolStepMoves DEF AIRunsLast, InFlight, Drained
<1>2. CASE RunScanStep
  <2>1. CASE UNCHANGED jobs
    BY <2>1 DEF AIRunsLast
  <2>2. CASE EnterPhase
    <3> SUFFICES ASSUME NEW j \in AIJobs, NEW k \in Jobs \ AIJobs,
                        jobs'[j] # "idle",
                        DomainOf[k] = DomainOf[j], PhaseOf[k] = PhaseOf[j]
                 PROVE  jobs'[k] \in Drained
      BY DEF AIRunsLast
    <3>1. jobs[j] # "idle" /\ jobs'[j] = jobs[j]
      BY <2>2 DEF EnterPhase
    <3>2. j \notin StageJobs
      BY <2>2, <3>1 DEF EnterPhase, StagesInOrder, BeforePhasePC
    <3>3. k \notin StageJobs
      BY <3>2 DEF StageJobs
    <3>4. jobs'[k] = jobs[k]
      BY <2>2, <3>3 DEF EnterPhase
    <3> QED
      BY <3>1, <3>4 DEF AIRunsLast
  <2>3. ASSUME NEW j \in Jobs, StartAI(j) PROVE AIRunsLast'
    <3>1. /\ j \in AIJobs /\ j \in StageJobs /\ jobs[j] = "idle"
          /\ \A k \in Jobs : k # j => jobs'[k] = jobs[k]
      BY <2>3 DEF StartAI, TypeOK, EngineTypeOK
    <3>2. \A k \in StageJobs \ AIJobs : jobs[k] \in Drained
      BY <2>3 DEF StartAI, AIMayStart
    <3>3. \A k \in Jobs \ AIJobs :
            DomainOf[k] = DomainOf[j] /\ PhaseOf[k] = PhaseOf[j] =>
              jobs'[k] \in Drained
      BY <3>1, <3>2 DEF StageJobs
    <3> QED
      BY <3>1, <3>3 DEF AIRunsLast
  <2> QED
    BY <1>2, <2>1, <2>2, <2>3
       DEF RunScanStep, PrepareScan, MarkRunning, DomainGate, StartDomain,
           PhaseGate, AnnounceCancelled, WriteHandoff, FinishPhase,
           PhaseRaises, WriteAliveUrls, FinishDomain, CollectResults,
           WriteInventory, WriteManifest, SaveFinal, NotifyCompleted,
           EmitTerminal, PurgeResults, PurgeArtifacts, PurgeProgress, Linger
<1>3. ASSUME NEW r \in Requests, Request(r) PROVE AIRunsLast'
  BY <1>3, RequestStages DEF Request, AIRunsLast
<1>4. CASE Crash
  BY <1>4, CrashJobs DEF AIRunsLast
<1>5. CASE Recover
  BY <1>5 DEF Recover, AIRunsLast
<1>6. CASE UNCHANGED vars
  BY <1>6 DEF vars, engineVars, AIRunsLast
<1> QED
  BY <1>1, <1>2, <1>3, <1>4, <1>5, <1>6
     DEF Next, Idle, Engine, EngineStep

\* ai_analysis starts only when every other tool of its phase has finished:
\* what it reads of that phase is complete.
THEOREM AIAfterItsPhase == Spec => []AIRunsLast
  BY TypeInit, TypeNext, StagesInit, StagesNext, AIInit, AINext, PTL DEF Spec

-----------------------------------------------------------------------------
(* The refinement of StagedRun.                                            *)

\* Everything that must precede a job of the current stage by phase or
\* domain has finished.
LEMMA EarlierFinished ==
  ASSUME TypeOK, StagesInOrder, NEW j \in StageJobs, NEW k \in Jobs,
         Precedes(k, j)
  PROVE  k \in Finished
<1>1. Passed(k)
  BY LoopsAssumption DEF Precedes, Passed, StageJobs, TypeOK, EngineTypeOK
<1> QED
  BY <1>1 DEF StagesInOrder, Finished

LEMMA StagedInit == Init => Staged!Init
BY DEF Init, EngineInit, Staged!Init, Started, Finished, Drained

LEMMA ToolStepStaged ==
  ASSUME TypeOK, NEW j \in Jobs, ToolStep(j)
  PROVE  [Staged!Next]_(Staged!vars)
<1>1. Started' = Started /\ j \in Started
  BY ToolStepMoves DEF Started, InFlight
<1>2. Finished' = Finished \/ Finished' = Finished \cup {j}
  BY ToolStepMoves DEF Finished, InFlight, Drained
<1> QED
  BY <1>1, <1>2 DEF Staged!Next, Staged!Finish, Staged!vars

LEMMA RunScanStaged ==
  ASSUME TypeOK, StagesInOrder, RunScanStep
  PROVE  [Staged!Next]_(Staged!vars)
<1> USE JobsAssumption
<1>1. CASE UNCHANGED jobs
  BY <1>1 DEF Started, Finished, Staged!vars
<1>2. CASE EnterPhase
  <2> DEFINE S == StageJobs \ AIJobs
  <2>1. S \in SUBSET Jobs /\ \A j \in S : jobs[j] = "idle"
    BY <1>2 DEF EnterPhase, StagesInOrder, BeforePhasePC, StageJobs
  <2>2. \A j \in Jobs : jobs'[j] = IF j \in S THEN "waiting" ELSE jobs[j]
    BY <1>2 DEF EnterPhase
  <2>3. Started' = Started \cup S
    BY <2>1, <2>2 DEF Started
  <2>4. Finished' = Finished
    BY <2>1, <2>2 DEF Finished, Drained
  <2>5. \A j \in S, k \in Jobs : <<k, j>> \in MustPrecede => k \in Finished
    BY EarlierFinished DEF MustPrecede, Consumes
  <2>6. Staged!Start(S)
    BY <2>3, <2>4, <2>5 DEF Staged!Start
  <2> QED
    BY <2>1, <2>6 DEF Staged!Next
<1>3. ASSUME NEW j \in Jobs, StartAI(j)
      PROVE  [Staged!Next]_(Staged!vars)
  <2>1. /\ j \in StageJobs /\ j \in AIJobs /\ jobs[j] = "idle"
        /\ \A k \in Jobs : jobs'[k] = IF k = j THEN "waiting" ELSE jobs[k]
    BY <1>3 DEF StartAI, TypeOK, EngineTypeOK
  <2>2. Started' = Started \cup {j} /\ Finished' = Finished
    BY <2>1 DEF Started, Finished, Drained
  <2>3. \A k \in StageJobs \ AIJobs : k \in Finished
    BY <1>3 DEF StartAI, AIMayStart, Finished, StageJobs
  <2>4. \A k \in Jobs : <<k, j>> \in MustPrecede => k \in Finished
    BY <2>1, <2>3, EarlierFinished DEF MustPrecede, Consumes, StageJobs
  <2>5. Staged!Start({j})
    BY <2>2, <2>4 DEF Staged!Start
  <2> QED
    BY <2>5 DEF Staged!Next
<1> QED
  BY <1>1, <1>2, <1>3
     DEF RunScanStep, PrepareScan, MarkRunning, DomainGate, StartDomain,
         PhaseGate, AnnounceCancelled, WriteHandoff, FinishPhase,
         PhaseRaises, WriteAliveUrls, FinishDomain, CollectResults,
         WriteInventory, WriteManifest, SaveFinal, NotifyCompleted,
         EmitTerminal, PurgeResults, PurgeArtifacts, PurgeProgress, Linger

LEMMA StagedNext ==
  TypeOK /\ StagesInOrder /\ [Next]_vars => [Staged!Next]_(Staged!vars)
<1> SUFFICES ASSUME TypeOK, StagesInOrder, [Next]_vars
             PROVE  [Staged!Next]_(Staged!vars)
  OBVIOUS
<1>1. CASE Engine
  BY <1>1, ToolStepStaged, RunScanStaged DEF Engine, EngineStep
<1>2. CASE UNCHANGED jobs
  BY <1>2 DEF Started, Finished, Staged!vars
<1>3. CASE Crash
  <2>1. Started' = Started /\ Finished' = Finished
    BY <1>3 DEF Crash, TypeOK, EngineTypeOK, Started, Finished, Drained, InFlight
  <2> QED
    BY <2>1 DEF Staged!vars
<1>4. ASSUME NEW r \in Requests, Request(r) PROVE UNCHANGED jobs
  BY <1>4, RequestStages DEF Request
<1> QED
  BY <1>1, <1>2, <1>3, <1>4 DEF Next, Recover, Idle, vars, engineVars

\* The engine, with its requests and its crash, implements the staged run:
\* every one of its behaviours starts a tool only when all the tools whose
\* output it consumes have finished.
THEOREM EngineRunsInStages == Spec => RunsInStages
  BY TypeInit, TypeNext, StagesInit, StagesNext, StagedInit, StagedNext, PTL
     DEF Spec, RunsInStages, Staged!Spec

-----------------------------------------------------------------------------
(* A cancellation that run_scan has noticed.                               *)

\* What the storage operators do to results and inventory.
LEMMA StoreContents ==
  ASSUME NEW d \in Database
  PROVE  /\ \A s \in ScanRecord \cup {NoScan} :
              /\ SaveScan(d, s).results = d.results
              /\ SaveScan(d, s).inventory = d.inventory
              /\ SaveScan(d, s).project = d.project
         /\ \A j \in Jobs :
              /\ SaveResult(d, j).results = IF HasScan(d) THEN d.results \cup {j} ELSE d.results
              /\ SaveResult(d, j).inventory = d.inventory
              /\ SaveResult(d, j).project = d.project
         /\ \A rs \in SUBSET Jobs :
              /\ SaveInventory(d, rs).results = d.results
              /\ SaveInventory(d, rs).inventory = IF HasScan(d) THEN {rs} ELSE d.inventory
              /\ SaveInventory(d, rs).project = d.project
         /\ DeleteResults(d).results = {}
         /\ DeleteResults(d).inventory = d.inventory
         /\ DeleteResults(d).project = d.project
         /\ DeleteScan(d).results = {} /\ DeleteScan(d).inventory = {}
         /\ DeleteScan(d).project = d.project
         /\ SaveProject(d).results = d.results
         /\ SaveProject(d).inventory = d.inventory
         /\ SaveProject(d).project
         /\ DeleteProject(d).results = {} /\ DeleteProject(d).inventory = {}
         /\ ~DeleteProject(d).project
BY DEF Database, SaveScan, SaveResult, SaveInventory, DeleteResults,
       DeleteScan, SaveProject, DeleteProject, AcceptsScan, HasScan

\* A request never adds anything to an assessment, and leaves the engine alone.
LEMMA RequestTakesAway ==
  ASSUME TypeOK, NEW r \in Requests, RequestStep(r)
  PROVE  /\ UNCHANGED <<jobs, epc, domain, phase, escan, snapshot>>
         /\ db'.results \in {db.results, {}}
         /\ db'.inventory \in {db.inventory, {}}
         /\ disk' => disk
<1> USE DEF TypeOK, EngineTypeOK, RequestsTypeOK, stage
<1>1. /\ hscan[r] \in ScanRecord \cup {NoScan}
      /\ WithoutProgress(hscan[r]) \in ScanRecord \cup {NoScan}
  BY ScanEdits
<1>2. CASE TerminateScan(r) \/ KillScan(r)
  BY <1>2 DEF TerminateScan, KillScan
<1>3. CASE ReadForCancel(r) \/ LoadProject(r) \/ ListScans(r)
  BY <1>3 DEF ReadForCancel, LoadProject, ListScans, engineVars
<1>4. CASE MarkCancelled(r) \/ CancelDropsProgress(r)
  BY <1>1, <1>4, StoreContents DEF MarkCancelled, CancelDropsProgress
<1>5. CASE CancelDeletesResults(r)
  BY <1>5, StoreContents DEF CancelDeletesResults
<1>6. CASE CancelDeletesArtifacts(r) \/ DropFiles(r)
  BY <1>6 DEF CancelDeletesArtifacts, DropFiles
<1>7. CASE DropRow(r)
  BY <1>7, StoreContents DEF DropRow
<1>8. CASE ResetProject(r)
  BY <1>8, StoreContents DEF ResetProject
<1>9. CASE DropProject(r)
  BY <1>9, StoreContents DEF DropProject
<1> QED
  BY <1>2, <1>3, <1>4, <1>5, <1>6, <1>7, <1>8, <1>9
     DEF RequestStep, RequestContinues

\* The places from the notice to the end of run_scan.
NoticedPC ==
  {"announce", "finish", "terminal", "purge", "purgefiles", "purgesave", "linger"} \cup OverPC

\* run_scan notices a cancellation only between two phases, when no tool
\* coroutine exists that could store something later.
Noticed ==
  escan.status = "cancelled" =>
    /\ epc \in NoticedPC
    /\ \A j \in Jobs : jobs[j] \in Drained \cup {"idle"}

LEMMA NoticedHasNoTools ==
  ASSUME TypeOK, Noticed, escan.status = "cancelled", NEW j \in Jobs
  PROVE  ~ToolStep(j)
BY ToolStepMoves DEF Noticed, Drained, InFlight

\* What run_scan still does after the notice: nothing that starts or stores.
LEMMA NoticedRunScan ==
  ASSUME TypeOK, Noticed, escan.status = "cancelled", RunScanStep
  PROVE  /\ epc' \in NoticedPC
         /\ escan'.status = "cancelled"
         /\ jobs' = jobs
         /\ db'.results \in {db.results, {}}
         /\ db'.inventory = db.inventory
<1> USE DEF TypeOK, EngineTypeOK, Noticed, NoticedPC, OverPC, stage
<1>1. /\ Progressed \in ScanRecord /\ Progressed.status = escan.status
      /\ WithoutProgress(escan) \in ScanRecord
      /\ WithoutProgress(escan).status = escan.status
  BY DEF Progressed, WithoutProgress, ScanRecord
<1>2. CASE AnnounceCancelled \/ EmitTerminal
  BY <1>1, <1>2, StoreContents DEF AnnounceCancelled, EmitTerminal, Emit
<1>3. CASE SaveFinal
  BY <1>3, StoreContents DEF SaveFinal
<1>4. CASE PurgeResults \/ PurgeArtifacts \/ Linger
  BY <1>4, StoreContents DEF PurgeResults, PurgeArtifacts, Linger
<1>5. CASE PurgeProgress
  BY <1>1, <1>5, StoreContents DEF PurgeProgress
<1> QED
  BY <1>2, <1>3, <1>4, <1>5
     DEF RunScanStep, PrepareScan, MarkRunning, DomainGate, StartDomain,
         PhaseGate, WriteHandoff, EnterPhase, StartAI, FinishPhase,
         PhaseRaises, WriteAliveUrls, FinishDomain, CollectResults,
         WriteInventory, WriteManifest, NotifyCompleted

\* The two gates are the only places where run_scan notices.
LEMMA OnlyGatesNotice ==
  ASSUME TypeOK, RunScanStep, escan.status # "cancelled", escan'.status = "cancelled"
  PROVE  /\ epc \in {"domain", "gate"} /\ epc' \in {"finish", "announce"}
         /\ UNCHANGED <<db, jobs, disk>>
<1> USE DEF TypeOK, EngineTypeOK, stage
<1>1. /\ Progressed.status = escan.status
      /\ WithoutProgress(escan).status = escan.status
      /\ \A st \in {"running", "completed", "failed"} :
           [escan EXCEPT !.status = st].status = st
  BY DEF Progressed, WithoutProgress, ScanRecord
<1>2. ~Emit
  BY <1>1 DEF Emit
<1>3. CASE DomainGate \/ PhaseGate
  BY <1>3 DEF DomainGate, PhaseGate
<1> QED
  BY <1>1, <1>2, <1>3
     DEF RunScanStep, PrepareScan, MarkRunning, StartDomain, AnnounceCancelled,
         WriteHandoff, EnterPhase, StartAI, FinishPhase, PhaseRaises, Fail,
         WriteAliveUrls, FinishDomain, CollectResults, WriteInventory,
         WriteManifest, SaveFinal, NotifyCompleted, EmitTerminal,
         PurgeResults, PurgeArtifacts, PurgeProgress, Linger

LEMMA ToolStatus ==
  ASSUME TypeOK, NEW j \in Jobs, ToolStep(j)
  PROVE  escan'.status = escan.status
<1>1. Progressed.status = escan.status
  BY DEF Progressed, TypeOK, EngineTypeOK, ScanRecord
<1> QED
  BY <1>1 DEF ToolStep, LaunchTool, ReuseResult, SpawnProcess, ProcessExits,
              PersistResult, PersistError, ReportTool, Emit

LEMMA NoticedInit == Init => Noticed
BY DEF Init, EngineInit, Noticed

LEMMA NoticedNext == TypeOK /\ StagesInOrder /\ Noticed /\ [Next]_vars => Noticed'
<1> SUFFICES ASSUME TypeOK, StagesInOrder, Noticed, [Next]_vars
             PROVE  Noticed'
  OBVIOUS
<1>1. CASE RunScanStep
  <2>1. CASE escan.status = "cancelled"
    BY <1>1, <2>1, NoticedRunScan DEF Noticed
  <2>2. CASE escan.status # "cancelled" /\ escan'.status = "cancelled"
    <3>1. \A j \in Jobs : jobs[j] \in Drained \cup {"idle"}
      BY <1>1, <2>2, OnlyGatesNotice, StageCases DEF StagesInOrder, BeforePhasePC
    <3> QED
      BY <1>1, <2>2, <3>1, OnlyGatesNotice DEF Noticed, NoticedPC
  <2> QED
    BY <2>1, <2>2 DEF Noticed
<1>2. ASSUME NEW j \in Jobs, ToolStep(j) PROVE Noticed'
  BY <1>2, NoticedHasNoTools, ToolStatus DEF Noticed
<1>3. ASSUME NEW r \in Requests, Request(r) PROVE Noticed'
  BY <1>3, RequestTakesAway DEF Request, Noticed
<1>4. CASE Crash
  BY <1>4, CrashJobs DEF Crash, Noticed, NoticedPC, OverPC
<1>5. CASE Recover
  BY <1>5 DEF Recover, Noticed
<1>6. CASE UNCHANGED vars
  BY <1>6 DEF vars, engineVars, Noticed
<1> QED
  BY <1>1, <1>2, <1>3, <1>4, <1>5, <1>6
     DEF Next, Idle, Engine, EngineStep

\* After run_scan has noticed a cancellation it starts no tool, stores no result
\* and no inventory, and ends as cancelled, whatever requests and a crash do.
THEOREM QuietOnceNoticed == Spec => QuietAfterNotice
<1>1. TypeOK /\ Noticed /\ [Next]_vars =>
        [escan.status = "cancelled" =>
           /\ db'.results \subseteq db.results
           /\ db'.inventory \subseteq db.inventory
           /\ \A j \in Jobs : jobs[j] = "idle" => jobs'[j] = "idle"
           /\ escan'.status = "cancelled"]_vars
  <2> SUFFICES ASSUME TypeOK, Noticed, Next, escan.status = "cancelled"
               PROVE  /\ db'.results \subseteq db.results
                      /\ db'.inventory \subseteq db.inventory
                      /\ \A j \in Jobs : jobs[j] = "idle" => jobs'[j] = "idle"
                      /\ escan'.status = "cancelled"
    BY DEF Next
  <2>1. CASE Engine
    BY <2>1, NoticedRunScan, NoticedHasNoTools DEF Engine, EngineStep
  <2>2. ASSUME NEW r \in Requests, Request(r)
        PROVE  /\ db'.results \subseteq db.results
               /\ db'.inventory \subseteq db.inventory
               /\ UNCHANGED <<jobs, escan>>
    BY <2>2, RequestTakesAway DEF Request
  <2>3. CASE Crash
    BY <2>3, CrashJobs DEF Crash
  <2>4. CASE Recover
    <3>1. db.scan.status = "running" =>
            [db.scan EXCEPT !.status = "failed"] \in ScanRecord
      BY ScanEdits DEF TypeOK, EngineTypeOK, Database, ScanStatus
    <3> QED
      BY <2>4, <3>1, StoreContents DEF Recover, TypeOK, EngineTypeOK
  <2>5. CASE Idle
    BY <2>5 DEF Idle, vars, engineVars
  <2> QED
    BY <2>1, <2>2, <2>3, <2>4, <2>5 DEF Next
<1> QED
  BY <1>1, TypeInit, TypeNext, StagesInit, StagesNext, NoticedInit, NoticedNext, PTL
     DEF Spec, QuietAfterNotice

-----------------------------------------------------------------------------
(* What a noticed cancellation leaves.                                     *)

\* run_scan has written no inventory of its results yet.
UnlistedPC == {"queued", "marking"} \cup (RunningPC \ {"manifest", "finish"})

\* A cancel request that saved its copy of the record and will save it again
\* without the progress.
WillDropProgress(r) ==
  r \in Cancels /\ hpc[r] \in {"terminate", "grace", "purge", "rmtree", "unmark"}

\* run_scan notices a cancellation before it writes an inventory; what its
\* purge has deleted is not written again, and a record with progress that
\* overtakes the purge belongs to a cancel request that is still under way.
Purging ==
  /\ epc \in UnlistedPC \/ escan.status = "cancelled" => db.inventory = {}
  /\ \A r \in Requests : hpc[r] = "mark" => r \in Cancels
  /\ escan.status = "cancelled" =>
       /\ epc \in {"purgefiles", "purgesave", "linger", "ended"} => db.results = {}
       /\ epc \in {"purgesave", "linger", "ended"} => ~disk
       /\ server = "up" /\ epc \in {"linger", "ended"} /\ db.scan.progress =>
            \E r \in Requests : WillDropProgress(r)

\* No coroutine of the engine but WriteInventory touches the inventory.
LEMMA EngineInventory ==
  ASSUME TypeOK, EngineStep, db'.inventory # db.inventory
  PROVE  epc = "inventory" /\ WriteInventory
<1> USE DEF TypeOK, EngineTypeOK, stage
<1>1. /\ Progressed \in ScanRecord
      /\ WithoutProgress(escan) \in ScanRecord
      /\ [escan EXCEPT !.status = "running"] \in ScanRecord
  BY DEF Progressed, WithoutProgress, ScanRecord, ScanStatus
<1>2. ~Emit /\ db' # db
  BY <1>1, StoreContents DEF Emit
<1>3. ASSUME NEW j \in Jobs, ToolStep(j) PROVE FALSE
  <2>1. SaveResult(db, j).inventory = db.inventory
    BY DEF SaveResult, Database
  <2>2. ~LaunchTool(j) /\ ~ReportTool(j)
    BY <1>2 DEF LaunchTool, ReportTool
  <2>3. ~ReuseResult(j) /\ ~PersistResult(j) /\ ~PersistError(j)
    BY <2>1 DEF ReuseResult, PersistResult, PersistError
  <2> QED
    BY <1>2, <1>3, <2>2, <2>3 DEF ToolStep, SpawnProcess, ProcessExits
<1>4. ~MarkRunning /\ ~SaveFinal /\ ~PurgeProgress /\ ~PurgeResults
  BY <1>1, StoreContents DEF MarkRunning, SaveFinal, PurgeProgress, PurgeResults
<1> QED
  BY <1>2, <1>3, <1>4
     DEF EngineStep, RunScanStep, PrepareScan, DomainGate, StartDomain, PhaseGate,
         AnnounceCancelled, WriteHandoff, EnterPhase, StartAI, FinishPhase,
         PhaseRaises, WriteAliveUrls, FinishDomain, CollectResults,
         WriteInventory, WriteManifest, NotifyCompleted, EmitTerminal,
         PurgeArtifacts, Linger

\* run_scan never goes back to where it has no inventory.
LEMMA StaysListed ==
  ASSUME TypeOK, RunScanStep, epc' \in UnlistedPC
  PROVE  epc \in UnlistedPC
BY DEF UnlistedPC, RunningPC, RunScanStep, PrepareScan, MarkRunning, DomainGate,
       StartDomain, PhaseGate, AnnounceCancelled, WriteHandoff, EnterPhase,
       LeavePhase, NextPhase, StartAI, FinishPhase, PhaseRaises, WriteAliveUrls,
       FinishDomain, CollectResults, WriteInventory, WriteManifest, SaveFinal,
       NotifyCompleted, EmitTerminal, PurgeResults, PurgeArtifacts,
       PurgeProgress, Linger, stage

\* The purge, step by step.
LEMMA RunScanPurges ==
  ASSUME TypeOK, WritersOwnRunning, Noticed, Purging, RunScanStep,
         escan.status = "cancelled", UNCHANGED <<requestVars, server>>
  PROVE  Purging'
<1> USE DEF TypeOK, EngineTypeOK, Noticed, NoticedPC, OverPC, Purging,
            requestVars, stage
<1>1. escan'.status = "cancelled" /\ db'.inventory = {}
  BY NoticedRunScan
<1>2. /\ Progressed \in ScanRecord /\ Progressed.status = escan.status
      /\ WithoutProgress(escan) \in ScanRecord
      /\ ~WithoutProgress(escan).progress
  BY DEF Progressed, WithoutProgress, ScanRecord
<1>3. CASE AnnounceCancelled \/ EmitTerminal
  BY <1>1, <1>3 DEF AnnounceCancelled, EmitTerminal
<1>4. CASE SaveFinal
  BY <1>1, <1>4 DEF SaveFinal
<1>5. CASE PurgeResults
  BY <1>1, <1>5, StoreContents DEF PurgeResults
<1>6. CASE PurgeArtifacts
  BY <1>1, <1>6 DEF PurgeArtifacts
<1>7. CASE PurgeProgress
  <2>1. db'.results = db.results /\ disk' = disk /\ epc = "purgesave"
    BY <1>2, <1>7, StoreContents DEF PurgeProgress
  <2>2. ~db'.scan.progress
    <3>1. CASE AcceptsScan(db)
      BY <1>2, <1>7, <3>1, StoreStatus DEF PurgeProgress
    <3>2. CASE ~AcceptsScan(db)
      BY <1>2, <1>7, <3>2, StoreStatus
         DEF PurgeProgress, AcceptsScan, WritersOwnRunning, HasScan, NoScan
    <3> QED
      BY <3>1, <3>2
  <2> QED
    BY <1>1, <2>1, <2>2
<1>8. CASE Linger
  BY <1>1, <1>8 DEF Linger, WillDropProgress
<1> QED
  BY <1>3, <1>4, <1>5, <1>6, <1>7, <1>8
     DEF RunScanStep, PrepareScan, MarkRunning, DomainGate, StartDomain,
         PhaseGate, WriteHandoff, EnterPhase, StartAI, FinishPhase,
         PhaseRaises, WriteAliveUrls, FinishDomain, CollectResults,
         WriteInventory, WriteManifest, NotifyCompleted

\* A request that will drop the progress goes on until it does.
LEMMA DropperStays ==
  ASSUME TypeOK, NEW r \in Requests, RequestStep(r)
  PROVE  /\ \A q \in Requests : q # r => hpc'[q] = hpc[q]
         /\ WillDropProgress(r) => CancelDropsProgress(r) \/ WillDropProgress(r)'
<1> USE DEF TypeOK, RequestsTypeOK, Goto
<1>1. \A q \in Requests : q # r => hpc'[q] = hpc[q]
  BY DEF RequestStep, RequestContinues, TerminateScan, KillScan,
         ReadForCancel, MarkCancelled, CancelDeletesResults,
         CancelDeletesArtifacts, CancelDropsProgress, LoadProject, ListScans,
         DropFiles, DropRow, ResetProject, DropProject
<1>2. ASSUME WillDropProgress(r), ~CancelDropsProgress(r) PROVE WillDropProgress(r)'
  <2>1. CASE TerminateScan(r) \/ KillScan(r)
    BY <1>2, <2>1 DEF TerminateScan, KillScan, AfterTerminate, WillDropProgress
  <2>2. CASE CancelDeletesResults(r) \/ CancelDeletesArtifacts(r)
    BY <1>2, <2>2 DEF CancelDeletesResults, CancelDeletesArtifacts, WillDropProgress
  <2> QED
    BY <1>2, <2>1, <2>2
       DEF WillDropProgress, RequestStep, RequestContinues, ReadForCancel,
           MarkCancelled, LoadProject, ListScans, DropFiles, DropRow,
           ResetProject, DropProject
<1> QED
  BY <1>1, <1>2

\* Progress appears in the row only with the copy of a cancel request.
LEMMA RequestProgress ==
  ASSUME TypeOK, WritersOwnRunning, Purging, NEW r \in Requests, RequestStep(r),
         db'.scan.progress
  PROVE  /\ ~CancelDropsProgress(r)
         /\ db.scan.progress \/ WillDropProgress(r)'
<1> USE DEF TypeOK, EngineTypeOK, RequestsTypeOK, Goto
<1>1. /\ hscan[r] \in ScanRecord \cup {NoScan}
      /\ WithoutProgress(hscan[r]) \in ScanRecord \cup {NoScan}
      /\ ~WithoutProgress(hscan[r]).progress
      /\ ~NoScan.progress
  BY ScanEdits DEF WithoutProgress, NoScan
<1>2. ~CancelDropsProgress(r)
  <2>1. CASE AcceptsScan(db)
    BY <1>1, <2>1, StoreStatus DEF CancelDropsProgress
  <2>2. CASE ~AcceptsScan(db)
    BY <1>1, <2>2, StoreStatus
       DEF CancelDropsProgress, AcceptsScan, WritersOwnRunning, HasScan
  <2> QED
    BY <2>1, <2>2
<1>3. CASE MarkCancelled(r)
  <2>1. CASE AcceptsScan(db)
    BY <1>2, <1>3, <2>1 DEF MarkCancelled, Purging, WillDropProgress
  <2>2. CASE ~AcceptsScan(db)
    BY <1>1, <1>2, <1>3, <2>2, StoreStatus DEF MarkCancelled
  <2> QED
    BY <2>1, <2>2
<1>4. CASE CancelDeletesResults(r) \/ ResetProject(r)
  BY <1>2, <1>4, StoreStatus DEF CancelDeletesResults, ResetProject
<1>5. ~DropRow(r) /\ ~DropProject(r)
  BY <1>1, StoreStatus DEF DropRow, DropProject
<1> QED
  BY <1>2, <1>3, <1>4, <1>5
     DEF RequestStep, RequestContinues, TerminateScan, KillScan, ReadForCancel,
         CancelDeletesArtifacts, LoadProject, ListScans, DropFiles, engineVars

LEMMA RequestPurges ==
  ASSUME TypeOK, WritersOwnRunning, Purging, NEW r \in Requests, RequestStep(r),
         UNCHANGED server
  PROVE  Purging'
<1>1. \A q \in Requests : hpc'[q] = "mark" => q \in Cancels
  <2>1. hpc'[r] = "mark" => r \in Cancels
    BY DEF Purging, TypeOK, RequestsTypeOK, Goto, RequestStep, RequestContinues,
           TerminateScan, KillScan, AfterTerminate, ReadForCancel, MarkCancelled,
           CancelDeletesResults, CancelDeletesArtifacts, CancelDropsProgress,
           LoadProject, ListScans, AfterScans, DropFiles, DropRow, ResetProject,
           DropProject
  <2> QED
    BY <2>1, DropperStays DEF Purging
<1>2. ASSUME escan.status = "cancelled", server = "up", epc \in {"linger", "ended"},
             db'.scan.progress
      PROVE  \E q \in Requests : WillDropProgress(q)'
  <2>1. CASE db.scan.progress
    <3>1. PICK q \in Requests : WillDropProgress(q)
      BY <1>2, <2>1 DEF Purging
    <3>2. WillDropProgress(q)'
      BY <1>2, <3>1, DropperStays, RequestProgress DEF WillDropProgress
    <3> QED
      BY <3>2
  <2> QED
    BY <1>2, <2>1, RequestProgress
<1> QED
  BY <1>1, <1>2, RequestTakesAway DEF Purging

LEMMA PurgingInit == Init => Purging
BY DEF Init, EngineInit, RequestsInit, Purging

LEMMA PurgingNext ==
  TypeOK /\ WritersOwnRunning /\ Noticed /\ Purging /\ [Next]_vars => Purging'
<1> SUFFICES ASSUME TypeOK, WritersOwnRunning, Noticed, Purging, [Next]_vars
             PROVE  Purging'
  OBVIOUS
<1>1. ASSUME RunScanStep, UNCHANGED <<requestVars, server>> PROVE Purging'
  <2>1. CASE escan.status = "cancelled"
    BY <1>1, <2>1, RunScanPurges
  <2>2. CASE escan.status # "cancelled" /\ escan'.status = "cancelled"
    BY <1>1, <2>2, OnlyGatesNotice DEF Purging, UnlistedPC, RunningPC, requestVars
  <2>3. CASE escan.status # "cancelled" /\ escan'.status # "cancelled"
    <3>1. epc' \in UnlistedPC => db'.inventory = db.inventory
      BY <1>1, EngineInventory DEF EngineStep, WriteInventory, UnlistedPC, RunningPC
    <3> QED
      BY <1>1, <2>3, <3>1, StaysListed DEF Purging, requestVars
  <2> QED
    BY <2>1, <2>2, <2>3
<1>2. ASSUME NEW j \in Jobs, ToolStep(j), UNCHANGED <<requestVars, server>>
      PROVE  Purging'
  <2>1. escan.status # "cancelled" /\ escan'.status # "cancelled"
    BY <1>2, NoticedHasNoTools, ToolStatus
  <2>2. epc' = epc
    BY <1>2, ToolStepMoves
  <2>3. epc \in UnlistedPC => db'.inventory = db.inventory
    BY <1>2, <2>2, EngineInventory DEF EngineStep, WriteInventory
  <2> QED
    BY <1>2, <2>1, <2>2, <2>3 DEF Purging, requestVars
<1>3. ASSUME NEW r \in Requests, Request(r) PROVE Purging'
  BY <1>3, RequestPurges DEF Request
<1>4. CASE Crash
  BY <1>4 DEF Crash, Purging, UnlistedPC, RunningPC, TypeOK, RequestsTypeOK, Busy
<1>5. CASE Recover
  <2>1. db'.inventory = db.inventory /\ db'.results = db.results
    <3>1. db.scan.status = "running" =>
            [db.scan EXCEPT !.status = "failed"] \in ScanRecord
      BY ScanEdits DEF TypeOK, EngineTypeOK, Database, ScanStatus
    <3> QED
      BY <1>5, <3>1, StoreContents DEF Recover, TypeOK, EngineTypeOK
  <2> QED
    BY <1>5, <2>1 DEF Recover, Purging, requestVars
<1>6. CASE UNCHANGED vars
  BY <1>6 DEF vars, engineVars, requestVars, Purging, WillDropProgress
<1> QED
  BY <1>1, <1>2, <1>3, <1>4, <1>5, <1>6
     DEF Next, Idle, Engine, EngineStep

\* Once run_scan has returned from a cancellation that it noticed and no request
\* is under way, the assessment has no results, no inventory, no workspace and
\* no progress, whatever requests overlapped the purge.
THEOREM NoticedCancelAlwaysLeavesNothing == Spec => []NoticedCancelLeavesNothing
<1>1. Purging => NoticedCancelLeavesNothing
  BY DEF Purging, NoticedCancelLeavesNothing, WillDropProgress, Busy, BusyPC
<1> QED
  BY <1>1, TypeInit, TypeNext, OwnsInit, OwnsNext, StagesInit, StagesNext,
     NoticedInit, NoticedNext, PurgingInit, PurgingNext, PTL
     DEF Spec

-----------------------------------------------------------------------------
(* What "completed" means.                                                 *)

\* The places from the manifest to the end of run_scan.
CompletedPC == {"finish", "notify", "terminal", "linger"} \cup OverPC

\* The record in memory says "completed" only after every tool has drained, and
\* the row says so only after the record; a project row goes away only with the
\* end of the request that deletes it.
StatusFits ==
  /\ ~db.project => \E r \in Requests : hpc[r] = "done"
  /\ db.scan.status = "completed" => escan.status = "completed"
  /\ \A r \in Requests : hscan[r].status # "completed"
  /\ escan.status = "completed" => epc \in CompletedPC
  /\ epc \in {"announce", "purge", "purgefiles", "purgesave"} => escan.status = "cancelled"
  /\ epc \in {"collect", "inventory", "manifest"} \/ escan.status = "completed" =>
       \A j \in Jobs : jobs[j] \in Drained

\* No request has written yet.
ReadersOnly == \A r \in Requests : hpc[r] \in {"idle", "refused", "mark", "list"}

StoredJobs == {j \in Jobs : jobs[j] \in {"stored", "done"}}

\* Until a request writes, the tables are what the engine made of them.
Undisturbed ==
  ReadersOnly =>
    /\ db.project /\ HasScan(db)
    /\ "cancelled" \notin {db.scan.status, escan.status}
    /\ server = "up" => db.results = StoredJobs
    /\ epc = "inventory" => snapshot = db.results
    /\ epc = "manifest" \/ escan.status = "completed" =>
         /\ db.results = {j \in Jobs : jobs[j] = "done"}
         /\ db.inventory = {db.results}

\* Once every tool has drained, those that are stored are those that are done.
LEMMA DrainedStored ==
  ASSUME \A j \in Jobs : jobs[j] \in Drained
  PROVE  /\ StoredJobs = {j \in Jobs : jobs[j] = "done"}
         /\ \A j \in Jobs : jobs[j] \notin InFlight
BY DEF StoredJobs, Drained, InFlight

\* The engine saves the record it holds, and leaves the project row alone.
LEMMA EngineSaves ==
  ASSUME TypeOK, EngineStep
  PROVE  /\ db'.project = db.project
         /\ db'.scan \in {db.scan, escan'}
         /\ HasScan(db) => HasScan(db')
         /\ escan' \in ScanRecord
<1> USE DEF TypeOK, EngineTypeOK, stage
<1>1. /\ Progressed \in ScanRecord
      /\ WithoutProgress(escan) \in ScanRecord
      /\ \A st \in {"running", "completed", "failed", "cancelled"} :
           [escan EXCEPT !.status = st] \in ScanRecord
  BY DEF Progressed, WithoutProgress, ScanRecord, ScanStatus
<1>2. \A sc \in ScanRecord :
        /\ SaveScan(db, sc).project = db.project
        /\ SaveScan(db, sc).scan \in {db.scan, sc}
        /\ HasScan(db) => HasScan(SaveScan(db, sc))
  <2>1. \A sc \in ScanRecord : sc # NoScan
    BY DEF ScanRecord, NoScan, ScanStatus
  <2> QED
    BY <2>1, StoreContents, StoreStatus DEF HasScan
<1>3. CASE Emit
  BY <1>1, <1>2, <1>3 DEF Emit
<1>4. ASSUME NEW j \in Jobs, ToolStep(j), ~Emit
      PROVE  escan' = escan /\ db' \in {db, SaveResult(db, j)}
  BY <1>4 DEF ToolStep, LaunchTool, ReuseResult, SpawnProcess, ProcessExits,
              PersistResult, PersistError, ReportTool
<1>5. \A j \in Jobs : /\ SaveResult(db, j).project = db.project
                      /\ SaveResult(db, j).scan = db.scan
  BY DEF SaveResult, Database
<1>6. CASE RunScanStep /\ ~Emit
  <2>1. CASE MarkRunning \/ SaveFinal \/ PurgeProgress
    BY <1>1, <1>2, <2>1 DEF MarkRunning, SaveFinal, PurgeProgress
  <2>2. CASE PurgeResults
    BY <2>2, StoreContents, StoreStatus DEF PurgeResults, HasScan
  <2>3. CASE WriteInventory
    <3>1. /\ SaveInventory(db, snapshot).project = db.project
          /\ SaveInventory(db, snapshot).scan = db.scan
      BY DEF SaveInventory, Database
    <3> QED
      BY <1>1, <2>3, <3>1 DEF WriteInventory, Fail, HasScan
  <2>4. CASE DomainGate \/ PhaseGate \/ PhaseRaises \/ WriteManifest
    BY <1>1, <2>4 DEF DomainGate, PhaseGate, PhaseRaises, WriteManifest, Fail
  <2>5. CASE UNCHANGED <<db, escan>>
    BY <2>5
  <2> QED
    BY <1>6, <2>1, <2>2, <2>3, <2>4, <2>5
       DEF RunScanStep, PrepareScan, StartDomain, AnnounceCancelled, WriteHandoff,
           EnterPhase, StartAI, FinishPhase, WriteAliveUrls, FinishDomain,
           CollectResults, NotifyCompleted, EmitTerminal, PurgeArtifacts, Linger
<1> QED
  BY <1>3, <1>4, <1>5, <1>6 DEF EngineStep, HasScan

\* run_scan after "completed": nothing but saves of the record.
LEMMA CompletedRunScan ==
  ASSUME TypeOK, StatusFits, escan.status = "completed", RunScanStep
  PROVE  /\ escan'.status = "completed" /\ epc' \in CompletedPC
         /\ jobs' = jobs
         /\ db'.results = db.results /\ db'.inventory = db.inventory
<1> USE DEF TypeOK, EngineTypeOK, StatusFits, CompletedPC, OverPC, stage
<1>1. Progressed \in ScanRecord /\ Progressed.status = escan.status
  BY DEF Progressed, ScanRecord
<1>2. CASE SaveFinal
  BY <1>2, StoreContents DEF SaveFinal
<1>3. CASE NotifyCompleted \/ Linger
  BY <1>3 DEF NotifyCompleted, Linger
<1>4. CASE EmitTerminal
  BY <1>1, <1>4, StoreContents DEF EmitTerminal, Emit
<1> QED
  BY <1>2, <1>3, <1>4
     DEF RunScanStep, PrepareScan, MarkRunning, DomainGate, StartDomain,
         PhaseGate, AnnounceCancelled, WriteHandoff, EnterPhase, StartAI,
         FinishPhase, PhaseRaises, WriteAliveUrls, FinishDomain, CollectResults,
         WriteInventory, WriteManifest, PurgeResults, PurgeArtifacts, PurgeProgress

\* The only way to "completed" is the manifest.
LEMMA OnlyManifestCompletes ==
  ASSUME TypeOK, RunScanStep, escan.status # "completed", escan'.status = "completed"
  PROVE  epc = "manifest" /\ epc' = "finish" /\ UNCHANGED <<db, jobs>>
<1> USE DEF TypeOK, EngineTypeOK, stage
<1>1. /\ Progressed.status = escan.status
      /\ WithoutProgress(escan).status = escan.status
      /\ \A st \in {"running", "cancelled", "failed"} :
           [escan EXCEPT !.status = st].status = st
  BY DEF Progressed, WithoutProgress, ScanRecord
<1>2. ~Emit
  BY <1>1 DEF Emit
<1>3. CASE WriteManifest
  BY <1>3 DEF WriteManifest
<1> QED
  BY <1>1, <1>2, <1>3
     DEF RunScanStep, PrepareScan, MarkRunning, DomainGate, PhaseGate, StartDomain,
         AnnounceCancelled, WriteHandoff, EnterPhase, StartAI, FinishPhase,
         PhaseRaises, Fail, WriteAliveUrls, FinishDomain, CollectResults,
         WriteInventory, SaveFinal, NotifyCompleted, EmitTerminal,
         PurgeResults, PurgeArtifacts, PurgeProgress, Linger

\* The results are collected when every tool of every stage has drained.
LEMMA CollectDrained ==
  ASSUME TypeOK, StagesInOrder, StatusFits, RunScanStep,
         epc' \in {"collect", "inventory", "manifest"}
  PROVE  /\ \A j \in Jobs : jobs[j] \in Drained
         /\ jobs' = jobs
<1> USE DEF TypeOK, EngineTypeOK, StatusFits, stage
<1>1. CASE FinishDomain
  <2>1. epc = "domaindone" /\ domain = NDomains /\ phase = NPhases /\ jobs' = jobs
    BY <1>1 DEF FinishDomain, StagesInOrder
  <2>2. \A j \in Jobs : ~Ahead(j)
    BY <2>1, LoopsAssumption DEF Ahead
  <2> QED
    BY <2>1, <2>2, StageCases DEF StagesInOrder, AfterPhasePC
<1>2. CASE CollectResults \/ WriteInventory
  BY <1>2 DEF CollectResults, WriteInventory
<1> QED
  BY <1>1, <1>2
     DEF RunScanStep, PrepareScan, MarkRunning, DomainGate, StartDomain,
         PhaseGate, AnnounceCancelled, WriteHandoff, EnterPhase, LeavePhase,
         NextPhase, StartAI, FinishPhase, PhaseRaises, WriteAliveUrls,
         WriteManifest, SaveFinal, NotifyCompleted, EmitTerminal, PurgeResults,
         PurgeArtifacts, PurgeProgress, Linger

\* The announcement and the purge belong to a noticed cancellation.
LEMMA PurgeIsCancelled ==
  ASSUME TypeOK, StatusFits, RunScanStep,
         epc' \in {"announce", "purge", "purgefiles", "purgesave"}
  PROVE  escan'.status = "cancelled"
<1> USE DEF TypeOK, EngineTypeOK, StatusFits, stage
<1>1. /\ Progressed.status = escan.status
      /\ [escan EXCEPT !.status = "cancelled"].status = "cancelled"
  BY DEF Progressed, ScanRecord
<1> QED
  BY <1>1
     DEF RunScanStep, PrepareScan, MarkRunning, DomainGate, StartDomain, Emit,
         PhaseGate, AnnounceCancelled, WriteHandoff, EnterPhase, LeavePhase,
         NextPhase, StartAI, FinishPhase, PhaseRaises, WriteAliveUrls,
         FinishDomain, CollectResults, WriteInventory, WriteManifest, SaveFinal,
         NotifyCompleted, EmitTerminal, PurgeResults, PurgeArtifacts,
         PurgeProgress, Linger

\* A tool coroutine stores its own result, when the row exists, and nothing
\* else moves it into or out of the stored jobs.
LEMMA ToolStores ==
  ASSUME TypeOK, NEW j \in Jobs, ToolStep(j), HasScan(db), db.results = StoredJobs
  PROVE  db'.results = StoredJobs'
<1> USE DEF TypeOK, EngineTypeOK
<1>1. \A k \in Jobs : k # j => jobs'[k] = jobs[k]
  BY ToolStepMoves
<1>2. Progressed \in ScanRecord
  BY DEF Progressed, ScanRecord
<1>3. SaveScan(db, Progressed).results = db.results
  BY <1>2, StoreContents
<1>4. SaveResult(db, j).results = db.results \cup {j}
  BY DEF SaveResult, Database
<1>5. CASE LaunchTool(j)
  BY <1>1, <1>3, <1>5 DEF LaunchTool, Emit, StoredJobs
<1>6. CASE ReuseResult(j)
  BY <1>1, <1>4, <1>6 DEF ReuseResult, StoredJobs
<1>7. CASE SpawnProcess(j) \/ ProcessExits(j)
  BY <1>1, <1>7 DEF SpawnProcess, ProcessExits, StoredJobs
<1>8. CASE PersistResult(j)
  BY <1>1, <1>4, <1>8 DEF PersistResult, StoredJobs
<1>9. CASE PersistError(j)
  BY <1>1, <1>4, <1>9 DEF PersistError, StoredJobs
<1>10. CASE ReportTool(j)
  BY <1>1, <1>3, <1>10 DEF ReportTool, Emit, StoredJobs
<1> QED
  BY <1>5, <1>6, <1>7, <1>8, <1>9, <1>10 DEF ToolStep

\* run_scan itself stores no result and moves no job that has one.
LEMMA RunScanStores ==
  ASSUME TypeOK, StagesInOrder, RunScanStep, ~PurgeResults
  PROVE  db'.results = db.results /\ StoredJobs' = StoredJobs
<1> USE DEF TypeOK, EngineTypeOK, stage
<1>1. /\ Progressed \in ScanRecord
      /\ WithoutProgress(escan) \in ScanRecord
      /\ [escan EXCEPT !.status = "running"] \in ScanRecord
  BY DEF Progressed, WithoutProgress, ScanRecord, ScanStatus
<1>2. db'.results = db.results
  <2>1. CASE Emit
    BY <1>1, <2>1, StoreContents DEF Emit
  <2>2. CASE MarkRunning \/ SaveFinal \/ PurgeProgress
    BY <1>1, <2>2, StoreContents DEF MarkRunning, SaveFinal, PurgeProgress
  <2>3. CASE WriteInventory
    BY <2>3 DEF WriteInventory, SaveInventory, Database
  <2>4. CASE UNCHANGED db
    BY <2>4
  <2> QED
    BY <2>1, <2>2, <2>3, <2>4
       DEF RunScanStep, PrepareScan, DomainGate, StartDomain, PhaseGate,
           AnnounceCancelled, WriteHandoff, EnterPhase, StartAI, FinishPhase,
           PhaseRaises, WriteAliveUrls, FinishDomain, CollectResults,
           WriteManifest, NotifyCompleted, EmitTerminal, PurgeArtifacts, Linger
<1>3. StoredJobs' = StoredJobs
  <2>1. CASE UNCHANGED jobs
    BY <2>1 DEF StoredJobs
  <2>2. CASE EnterPhase
    <3>1. \A j \in StageJobs : jobs[j] = "idle"
      BY <2>2 DEF EnterPhase, StagesInOrder, BeforePhasePC
    <3>2. \A j \in Jobs : jobs'[j] = jobs[j] \/ (jobs[j] = "idle" /\ jobs'[j] = "waiting")
      BY <2>2, <3>1 DEF EnterPhase
    <3> QED
      BY <3>2 DEF StoredJobs
  <2>3. ASSUME NEW j \in Jobs, StartAI(j) PROVE StoredJobs' = StoredJobs
    <3>1. \A k \in Jobs : jobs'[k] = jobs[k] \/ (jobs[k] = "idle" /\ jobs'[k] = "waiting")
      BY <2>3 DEF StartAI
    <3> QED
      BY <3>1 DEF StoredJobs
  <2> QED
    BY <2>1, <2>2, <2>3
       DEF RunScanStep, PrepareScan, MarkRunning, DomainGate, StartDomain,
           PhaseGate, AnnounceCancelled, WriteHandoff, FinishPhase,
           PhaseRaises, WriteAliveUrls, FinishDomain, CollectResults,
           WriteInventory, WriteManifest, SaveFinal, NotifyCompleted,
           EmitTerminal, PurgeResults, PurgeArtifacts, PurgeProgress, Linger
<1> QED
  BY <1>2, <1>3

LEMMA EngineFits ==
  ASSUME TypeOK, StagesInOrder, StatusFits, EngineStep, UNCHANGED <<requestVars, server>>
  PROVE  StatusFits'
<1> USE DEF TypeOK, EngineTypeOK, requestVars
<1>1. /\ ~db'.project => \E r \in Requests : hpc'[r] = "done"
      /\ \A r \in Requests : hscan'[r].status # "completed"
  BY EngineSaves DEF StatusFits
<1>2. escan.status = "completed" =>
        escan'.status = "completed" /\ epc' \in CompletedPC /\ jobs' = jobs
  <2>1. ASSUME escan.status = "completed", NEW j \in Jobs PROVE ~ToolStep(j)
    BY <2>1, ToolStepMoves DEF StatusFits, Drained, InFlight
  <2> QED
    BY <2>1, CompletedRunScan DEF EngineStep
<1>3. db'.scan.status = "completed" => escan'.status = "completed"
  BY <1>2, EngineSaves DEF StatusFits
<1>4. ASSUME NEW j \in Jobs, ToolStep(j) PROVE StatusFits'
  <2>1. epc' = epc /\ escan'.status = escan.status /\ jobs[j] \in InFlight
    BY <1>4, ToolStepMoves, ToolStatus
  <2>2. ~(epc \in {"collect", "inventory", "manifest"} \/ escan.status = "completed")
    BY <2>1 DEF StatusFits, Drained, InFlight
  <2> QED
    BY <1>1, <1>3, <2>1, <2>2 DEF StatusFits
<1>5. CASE RunScanStep
  <2>1. escan'.status = "completed" =>
          epc' \in CompletedPC /\ \A j \in Jobs : jobs'[j] \in Drained
    BY <1>2, <1>5, OnlyManifestCompletes DEF StatusFits, CompletedPC
  <2>2. epc' \in {"announce", "purge", "purgefiles", "purgesave"} => escan'.status = "cancelled"
    BY <1>5, PurgeIsCancelled
  <2>3. epc' \in {"collect", "inventory", "manifest"} => \A j \in Jobs : jobs'[j] \in Drained
    BY <1>5, CollectDrained
  <2> QED
    BY <1>1, <1>3, <2>1, <2>2, <2>3 DEF StatusFits
<1> QED
  BY <1>4, <1>5 DEF EngineStep

LEMMA RequestFits ==
  ASSUME TypeOK, StatusFits, NEW r \in Requests, RequestStep(r)
  PROVE  StatusFits'
<1> USE DEF TypeOK, EngineTypeOK, RequestsTypeOK, Goto
<1>1. UNCHANGED <<jobs, epc, escan>>
  BY RequestTakesAway
<1>2. /\ hscan[r] \in ScanRecord \cup {NoScan} /\ hscan[r].status # "completed"
      /\ WithoutProgress(hscan[r]) \in ScanRecord \cup {NoScan}
      /\ WithoutProgress(hscan[r]).status = hscan[r].status
      /\ NoScan.status # "completed"
  BY ScanEdits DEF WithoutProgress, NoScan, StatusFits
<1>3. db.scan.status = "running" => [db.scan EXCEPT !.status = "cancelled"].status = "cancelled"
  BY ScanEdits DEF Database, ScanRecord
<1>4. hpc[r] # "done" /\ \A q \in Requests : hpc[q] = "done" => hpc'[q] = "done"
  <2>1. hpc[r] # "done"
    BY DEF RequestStep, RequestContinues, TerminateScan, KillScan,
           ReadForCancel, MarkCancelled, CancelDeletesResults,
           CancelDeletesArtifacts, CancelDropsProgress, LoadProject, ListScans,
           DropFiles, DropRow, ResetProject, DropProject
  <2> QED
    BY <2>1, DropperStays
<1>5. ASSUME ~db'.project PROVE \E q \in Requests : hpc'[q] = "done"
  <2>1. CASE DropProject(r)
    BY <2>1 DEF DropProject
  <2>2. CASE db'.project = db.project
    BY <1>4, <1>5, <2>2 DEF StatusFits
  <2>3. CASE MarkCancelled(r) \/ CancelDropsProgress(r)
    BY <1>2, <2>2, <2>3, StoreContents DEF MarkCancelled, CancelDropsProgress
  <2>4. CASE CancelDeletesResults(r) \/ DropRow(r) \/ ResetProject(r)
    BY <1>5, <2>2, <2>4, StoreContents DEF CancelDeletesResults, DropRow, ResetProject
  <2> QED
    BY <2>1, <2>2, <2>3, <2>4
       DEF RequestStep, RequestContinues, TerminateScan, KillScan, ReadForCancel,
           CancelDeletesArtifacts, LoadProject, ListScans, DropFiles, engineVars
<1>6. /\ db'.scan.status = "completed" => db.scan.status = "completed"
      /\ \A q \in Requests : hscan'[q].status # "completed"
  <2>1. CASE ReadForCancel(r)
    BY <1>3, <2>1 DEF ReadForCancel, engineVars, StatusFits
  <2>2. CASE MarkCancelled(r)
    BY <1>2, <2>2, StoreStatus DEF MarkCancelled, StatusFits
  <2>3. CASE CancelDropsProgress(r)
    BY <1>2, <2>3, StoreStatus DEF CancelDropsProgress, StatusFits
  <2>4. CASE CancelDeletesResults(r) \/ ResetProject(r)
    BY <2>4, StoreStatus DEF CancelDeletesResults, ResetProject, StatusFits
  <2>5. CASE DropRow(r) \/ DropProject(r)
    BY <1>2, <2>5, StoreStatus DEF DropRow, DropProject, StatusFits
  <2> QED
    BY <2>1, <2>2, <2>3, <2>4, <2>5
       DEF RequestStep, RequestContinues, TerminateScan, KillScan,
           CancelDeletesArtifacts, LoadProject, ListScans, DropFiles, engineVars, StatusFits
<1> QED
  BY <1>1, <1>5, <1>6 DEF StatusFits

LEMMA FitsInit == Init => StatusFits
BY DEF Init, EngineInit, RequestsInit, StatusFits, NoScan

LEMMA FitsNext == TypeOK /\ StagesInOrder /\ StatusFits /\ [Next]_vars => StatusFits'
<1> SUFFICES ASSUME TypeOK, StagesInOrder, StatusFits, [Next]_vars
             PROVE  StatusFits'
  OBVIOUS
<1>1. CASE Engine
  BY <1>1, EngineFits DEF Engine
<1>2. ASSUME NEW r \in Requests, Request(r) PROVE StatusFits'
  BY <1>2, RequestFits DEF Request
<1>3. CASE Crash
  <2>1. \A r \in Requests : hpc[r] = "done" => hpc'[r] = "done"
    BY <1>3 DEF Crash, Busy, BusyPC
  <2> QED
    BY <1>3, <2>1, CrashJobs DEF Crash, StatusFits, CompletedPC, OverPC, Drained
<1>4. CASE Recover
  <2>1. db.scan.status = "running" =>
          /\ [db.scan EXCEPT !.status = "failed"] \in ScanRecord
          /\ [db.scan EXCEPT !.status = "failed"].status = "failed"
    BY ScanEdits DEF TypeOK, EngineTypeOK, Database, ScanStatus, ScanRecord
  <2>2. db'.project = db.project /\ (db'.scan.status = "completed" => db.scan.status = "completed")
    <3>1. CASE db.scan.status = "running"
      <4>1. db' = SaveScan(db, [db.scan EXCEPT !.status = "failed"])
        BY <1>4, <3>1 DEF Recover
      <4>2. db \in Database
        BY DEF TypeOK, EngineTypeOK
      <4>3. db'.project = db.project
        BY <2>1, <3>1, <4>1, <4>2, StoreContents
      <4>4. db'.scan \in {[db.scan EXCEPT !.status = "failed"], db.scan}
        BY <2>1, <3>1, <4>1, <4>2, StoreStatus
      <4> QED
        BY <2>1, <3>1, <4>3, <4>4
    <3>2. CASE db.scan.status # "running"
      BY <1>4, <3>2 DEF Recover
    <3> QED
      BY <3>1, <3>2
  <2> QED
    BY <1>4, <2>2 DEF Recover, StatusFits, requestVars
<1>5. CASE UNCHANGED vars
  BY <1>5 DEF vars, engineVars, requestVars, StatusFits
<1> QED
  BY <1>1, <1>2, <1>3, <1>4, <1>5 DEF Next, Idle

\* A request that is still only a reader has changed nothing; one that gave up
\* because a save was rejected found the program deleted.
LEMMA ReadersStay ==
  ASSUME TypeOK, StatusFits, NEW r \in Requests, RequestStep(r), ReadersOnly'
  PROVE  ReadersOnly /\ db' = db
<1> USE DEF TypeOK, EngineTypeOK, RequestsTypeOK, Goto
<1>1. \A q \in Requests : q # r => hpc'[q] = hpc[q]
  BY DropperStays
<1>2. hpc'[r] \in {"idle", "refused", "mark", "list"}
  BY DEF ReadersOnly
<1>3. db'.project
  BY RequestFits DEF StatusFits, ReadersOnly
<1>4. /\ hscan[r] \in ScanRecord \cup {NoScan}
      /\ WithoutProgress(hscan[r]) \in ScanRecord \cup {NoScan}
  BY ScanEdits
<1>5. CASE ReadForCancel(r) \/ LoadProject(r)
  BY <1>1, <1>5 DEF ReadForCancel, LoadProject, ReadersOnly, engineVars
<1>6. ~MarkCancelled(r)
  BY <1>2, <1>3, <1>4, StoreContents DEF MarkCancelled, AcceptsScan
<1>7. ~CancelDropsProgress(r)
  BY <1>2, <1>3, <1>4, StoreContents DEF CancelDropsProgress, AcceptsScan
<1>8. ~TerminateScan(r) /\ ~KillScan(r) /\ ~ListScans(r) /\ ~DropFiles(r) /\ ~DropRow(r)
  BY <1>2 DEF TerminateScan, KillScan, ListScans, DropFiles, DropRow,
              AfterTerminate, AfterScans
<1>9. ~CancelDeletesResults(r) /\ ~CancelDeletesArtifacts(r) /\ ~ResetProject(r) /\ ~DropProject(r)
  BY <1>2 DEF CancelDeletesResults, CancelDeletesArtifacts, ResetProject, DropProject
<1> QED
  BY <1>5, <1>6, <1>7, <1>8, <1>9 DEF RequestStep, RequestContinues

\* With only readers about, the engine neither finds nor becomes "cancelled".
LEMMA EngineNotCancelled ==
  ASSUME TypeOK, StatusFits, Undisturbed, ReadersOnly, EngineStep
  PROVE  "cancelled" \notin {db'.scan.status, escan'.status}
<1>1. escan'.status # "cancelled"
  <2>1. "cancelled" \notin {db.scan.status, escan.status}
    BY DEF Undisturbed
  <2>2. ~DomainGate \/ escan' = escan
    BY <2>1 DEF DomainGate, ScanCancelled
  <2>3. ~PhaseGate \/ escan' = escan
    BY <2>1 DEF PhaseGate, ScanCancelled
  <2>4. /\ Progressed.status = escan.status
        /\ WithoutProgress(escan).status = escan.status
        /\ \A st \in {"running", "completed", "failed"} :
             [escan EXCEPT !.status = st].status = st
    BY DEF Progressed, WithoutProgress, ScanRecord, TypeOK, EngineTypeOK
  <2>5. CASE Emit
    BY <2>1, <2>4, <2>5 DEF Emit
  <2>6. ASSUME NEW j \in Jobs, ToolStep(j) PROVE escan'.status # "cancelled"
    BY <2>1, <2>6, ToolStatus
  <2>7. CASE UNCHANGED escan
    BY <2>1, <2>7
  <2> QED
    BY <2>1, <2>2, <2>3, <2>4, <2>5, <2>6, <2>7
       DEF EngineStep, RunScanStep, PrepareScan, MarkRunning, StartDomain,
           DomainGate, PhaseGate,
           AnnounceCancelled, WriteHandoff, EnterPhase, StartAI, FinishPhase,
           PhaseRaises, Fail, WriteAliveUrls, FinishDomain, CollectResults,
           WriteInventory, WriteManifest, SaveFinal, NotifyCompleted, EmitTerminal,
           PurgeResults, PurgeArtifacts, PurgeProgress, Linger
<1> QED
  BY <1>1, EngineSaves DEF Undisturbed

LEMMA RunScanUndisturbed ==
  ASSUME TypeOK, StagesInOrder, StatusFits, Undisturbed, ReadersOnly, RunScanStep,
         server = "up", UNCHANGED <<requestVars, server>>
  PROVE  Undisturbed'
<1> USE DEF TypeOK, EngineTypeOK, requestVars, stage
<1>1. /\ db'.project /\ HasScan(db')
      /\ "cancelled" \notin {db'.scan.status, escan'.status}
  BY EngineSaves, EngineNotCancelled DEF EngineStep, Undisturbed
<1>2. ~PurgeResults
  BY DEF PurgeResults, StatusFits, Undisturbed
<1>3. db'.results = db.results /\ StoredJobs' = StoredJobs /\ db.results = StoredJobs
  BY <1>2, RunScanStores DEF Undisturbed
<1>4. epc' = "inventory" => snapshot' = db'.results
  <2>1. CASE CollectResults
    BY <2>1 DEF CollectResults
  <2> QED
    BY <2>1
     DEF RunScanStep, PrepareScan, MarkRunning, DomainGate, StartDomain,
         PhaseGate, AnnounceCancelled, WriteHandoff, EnterPhase, LeavePhase,
         NextPhase, StartAI, FinishPhase, PhaseRaises, WriteAliveUrls,
         FinishDomain, WriteInventory, WriteManifest, SaveFinal, NotifyCompleted,
         EmitTerminal, PurgeResults, PurgeArtifacts, PurgeProgress, Linger
<1>5. ASSUME epc' = "manifest"
      PROVE  /\ db'.results = {j \in Jobs : jobs'[j] = "done"}
             /\ db'.inventory = {db'.results}
  <2>1. WriteInventory
    BY <1>5
     DEF RunScanStep, PrepareScan, MarkRunning, DomainGate, StartDomain,
         PhaseGate, AnnounceCancelled, WriteHandoff, EnterPhase, LeavePhase,
         NextPhase, StartAI, FinishPhase, PhaseRaises, WriteAliveUrls,
         FinishDomain, CollectResults, WriteManifest, SaveFinal, NotifyCompleted,
         EmitTerminal, PurgeResults, PurgeArtifacts, PurgeProgress, Linger
  <2>2. db'.inventory = {snapshot}
    BY <2>1 DEF WriteInventory, SaveInventory, Undisturbed, Database
  <2>3. snapshot = db.results /\ jobs' = jobs
    BY <2>1 DEF WriteInventory, Undisturbed
  <2>4. \A j \in Jobs : jobs[j] \in Drained
    BY <2>1 DEF WriteInventory, StatusFits
  <2> QED
    BY <1>3, <2>2, <2>3, <2>4, DrainedStored
<1>6. ASSUME escan'.status = "completed"
      PROVE  /\ db'.results = {j \in Jobs : jobs'[j] = "done"}
             /\ db'.inventory = {db'.results}
  <2>1. CASE escan.status = "completed"
    BY <2>1, CompletedRunScan DEF Undisturbed
  <2>2. CASE escan.status # "completed"
    BY <1>6, <2>2, OnlyManifestCompletes DEF Undisturbed
  <2> QED
    BY <2>1, <2>2
<1> QED
  BY <1>1, <1>3, <1>4, <1>5, <1>6 DEF Undisturbed

LEMMA UndisturbedInit == Init => Undisturbed
BY DEF Init, EngineInit, Undisturbed, HasScan, NoScan, StoredJobs

LEMMA UndisturbedNext ==
  TypeOK /\ WritersOwnRunning /\ StagesInOrder /\ StatusFits /\ Undisturbed /\ [Next]_vars
    => Undisturbed'
<1> SUFFICES ASSUME TypeOK, WritersOwnRunning, StagesInOrder, StatusFits, Undisturbed,
                    [Next]_vars, ReadersOnly'
             PROVE  Undisturbed'
  BY DEF Undisturbed
<1>1. ASSUME RunScanStep, server # "down", UNCHANGED <<requestVars, server>>
      PROVE  Undisturbed'
  <2>1. server = "up"
    <3>1. epc \notin {"ended", "dead"}
      BY <1>1 DEF RunScanStep, PrepareScan, MarkRunning, DomainGate, StartDomain,
         PhaseGate, AnnounceCancelled, WriteHandoff, EnterPhase, StartAI, FinishPhase,
         PhaseRaises, WriteAliveUrls, FinishDomain, CollectResults, WriteInventory,
         WriteManifest, SaveFinal, NotifyCompleted, EmitTerminal, PurgeResults,
         PurgeArtifacts, PurgeProgress, Linger
    <3> QED
      BY <3>1 DEF WritersOwnRunning
  <2>2. ReadersOnly
    BY <1>1 DEF ReadersOnly, requestVars
  <2> QED
    BY <1>1, <2>1, <2>2, RunScanUndisturbed
<1>2. ASSUME NEW j \in Jobs, ToolStep(j), UNCHANGED <<requestVars, server>>
      PROVE  Undisturbed'
  <2>1. ReadersOnly
    BY <1>2 DEF ReadersOnly, requestVars
  <2>2. /\ db'.project /\ HasScan(db')
        /\ "cancelled" \notin {db'.scan.status, escan'.status}
    BY <1>2, <2>1, EngineSaves, EngineNotCancelled DEF EngineStep, Undisturbed
  <2>3. server' = "up" => db'.results = StoredJobs'
    BY <1>2, <2>1, ToolStores DEF Undisturbed
  <2>4. epc' = epc /\ escan'.status = escan.status /\ jobs[j] \in InFlight
    BY <1>2, ToolStepMoves, ToolStatus
  <2>5. ~(epc \in {"inventory", "manifest"} \/ escan.status = "completed")
    BY <2>4 DEF StatusFits, Drained, InFlight
  <2> QED
    BY <2>2, <2>3, <2>4, <2>5 DEF Undisturbed
<1>3. ASSUME NEW r \in Requests, Request(r) PROVE Undisturbed'
  <2>1. /\ ReadersOnly /\ db' = db /\ server' = server
        /\ UNCHANGED <<jobs, epc, escan, snapshot>>
    BY <1>3, ReadersStay, RequestTakesAway DEF Request
  <2> QED
    BY <2>1 DEF Undisturbed, StoredJobs
<1>4. CASE Crash
  <2>1. ReadersOnly
    BY <1>4 DEF Crash, ReadersOnly, Busy, BusyPC
  <2>2. escan.status = "completed" => \A j \in Jobs : jobs'[j] = jobs[j]
    BY <1>4, CrashJobs DEF StatusFits
  <2> QED
    BY <1>4, <2>1, <2>2 DEF Crash, Undisturbed
<1>5. CASE Recover
  <2>1. ReadersOnly
    BY <1>5 DEF Recover, ReadersOnly, requestVars
  <2>2. db.scan.status = "running" =>
          /\ [db.scan EXCEPT !.status = "failed"] \in ScanRecord
          /\ [db.scan EXCEPT !.status = "failed"].status = "failed"
    BY ScanEdits DEF TypeOK, EngineTypeOK, Database, ScanStatus, ScanRecord
  <2>3. db'.results = db.results /\ db'.inventory = db.inventory /\ db'.project = db.project
    BY <1>5, <2>2, StoreContents DEF Recover, TypeOK, EngineTypeOK
  <2>4. db'.scan = db.scan \/ db'.scan = [db.scan EXCEPT !.status = "failed"]
    BY <1>5, <2>2, StoreStatus DEF Recover, TypeOK, EngineTypeOK
  <2>5. HasScan(db') /\ db'.scan.status # "cancelled"
    <3>1. CASE db.scan.status = "running"
      <4>1. /\ db'.scan.status \in {"running", "failed"}
            /\ NoScan.status = "absent"
        BY <2>2, <2>4, <3>1 DEF NoScan
      <4> QED
        BY <4>1 DEF HasScan
    <3>2. CASE db.scan.status # "running"
      BY <1>5, <2>1, <3>2 DEF Recover, Undisturbed
    <3> QED
      BY <3>1, <3>2
  <2> QED
    BY <1>5, <2>1, <2>3, <2>5 DEF Recover, Undisturbed, StoredJobs
<1>6. CASE UNCHANGED vars
  BY <1>6 DEF vars, engineVars, requestVars, Undisturbed, ReadersOnly, StoredJobs
<1> QED
  BY <1>1, <1>2, <1>3, <1>4, <1>5, <1>6 DEF Next, Idle, Engine, EngineStep

\* Without interference a completed assessment is whole: every selected tool has
\* a stored result or was skipped, and the inventory was built from exactly the
\* stored results, also after a crash and a restart.
THEOREM CompletedAlwaysWhole == Spec => []CompletedIsWhole
<1>1. StatusFits /\ Undisturbed => CompletedIsWhole
  BY DEF StatusFits, Undisturbed, ReadersOnly, CompletedIsWhole
<1> QED
  BY <1>1, TypeInit, TypeNext, OwnsInit, OwnsNext, StagesInit, StagesNext,
     FitsInit, FitsNext, UndisturbedInit, UndisturbedNext, PTL
     DEF Spec

\* Whatever requests do to its rows, an assessment that is shown as completed
\* has had every selected tool end: no interleaving of a cancel, a clear or a
\* restart makes a run look complete that was cut short.
THEOREM CompletedMeansDrained ==
  Spec => [](db.scan.status = "completed" => \A j \in Jobs : jobs[j] \in Drained)
<1>1. StatusFits => (db.scan.status = "completed" => \A j \in Jobs : jobs[j] \in Drained)
  BY DEF StatusFits
<1> QED
  BY <1>1, TypeInit, TypeNext, StagesInit, StagesNext, FitsInit, FitsNext, PTL
     DEF Spec

-----------------------------------------------------------------------------
(* The outcome of a run.                                                   *)

\* A row says "failed" only after run_scan's record, or after the restart that
\* leaves no coroutine behind; what a request saves is a cancelled record.
FailureKept ==
  /\ escan.status = "failed" => epc \in CompletedPC
  /\ server # "recovered" /\ db.scan.status = "failed" => escan.status = "failed"
  /\ server # "up" => epc \in {"ended", "dead"} /\ \A j \in Jobs : jobs[j] \notin InFlight
  /\ \A r \in Requests : hscan[r].status \in {"cancelled", "absent"}

\* run_scan after a failure: nothing but saves of the record.
LEMMA FailedRunScan ==
  ASSUME TypeOK, StatusFits, FailureKept, escan.status = "failed", RunScanStep
  PROVE  escan'.status = "failed" /\ epc' \in CompletedPC
<1> USE DEF TypeOK, EngineTypeOK, StatusFits, FailureKept, CompletedPC, OverPC, stage
<1>1. Progressed.status = escan.status
  BY DEF Progressed, ScanRecord
<1>2. CASE SaveFinal \/ NotifyCompleted \/ Linger
  BY <1>2 DEF SaveFinal, NotifyCompleted, Linger
<1>3. CASE EmitTerminal
  BY <1>1, <1>3 DEF EmitTerminal, Emit
<1> QED
  BY <1>2, <1>3
     DEF RunScanStep, PrepareScan, MarkRunning, DomainGate, StartDomain,
         PhaseGate, AnnounceCancelled, WriteHandoff, EnterPhase, StartAI,
         FinishPhase, PhaseRaises, WriteAliveUrls, FinishDomain, CollectResults,
         WriteInventory, WriteManifest, PurgeResults, PurgeArtifacts, PurgeProgress

\* A failure takes run_scan to its last save.
LEMMA FailureFinishes ==
  ASSUME TypeOK, RunScanStep, escan.status # "failed", escan'.status = "failed"
  PROVE  epc' = "finish"
<1> USE DEF TypeOK, EngineTypeOK, stage
<1>1. /\ Progressed.status = escan.status
      /\ WithoutProgress(escan).status = escan.status
      /\ \A st \in {"running", "cancelled", "completed"} :
           [escan EXCEPT !.status = st].status = st
  BY DEF Progressed, WithoutProgress, ScanRecord
<1>2. ~Emit
  BY <1>1 DEF Emit
<1>3. CASE PhaseRaises \/ WriteInventory \/ WriteManifest
  BY <1>1, <1>3 DEF PhaseRaises, WriteInventory, WriteManifest
<1> QED
  BY <1>1, <1>2, <1>3
     DEF RunScanStep, PrepareScan, MarkRunning, DomainGate, PhaseGate, StartDomain,
         AnnounceCancelled, WriteHandoff, EnterPhase, StartAI, FinishPhase,
         WriteAliveUrls, FinishDomain, CollectResults, SaveFinal, NotifyCompleted,
         EmitTerminal, PurgeResults, PurgeArtifacts, PurgeProgress, Linger

\* After the crash there is nothing left of the engine that could take a step.
LEMMA EngineNeedsProcess ==
  ASSUME TypeOK, FailureKept, EngineStep
  PROVE  server = "up"
<1>1. ASSUME NEW j \in Jobs, ToolStep(j) PROVE server = "up"
  BY <1>1, ToolStepMoves DEF FailureKept
<1>2. CASE RunScanStep
  <2>1. epc \notin {"ended", "dead"}
    BY <1>2
       DEF RunScanStep, PrepareScan, MarkRunning, DomainGate, StartDomain,
           PhaseGate, AnnounceCancelled, WriteHandoff, EnterPhase, StartAI,
           FinishPhase, PhaseRaises, WriteAliveUrls, FinishDomain, CollectResults,
           WriteInventory, WriteManifest, SaveFinal, NotifyCompleted, EmitTerminal,
           PurgeResults, PurgeArtifacts, PurgeProgress, Linger
  <2> QED
    BY <2>1 DEF FailureKept
<1> QED
  BY <1>1, <1>2 DEF EngineStep

\* The engine keeps a final status in memory, and saves no other.
LEMMA EngineKeepsOutcome ==
  ASSUME TypeOK, StatusFits, FailureKept, EngineStep
  PROVE  /\ escan.status \in {"completed", "failed"} => escan'.status = escan.status
         /\ escan'.status = "failed" => epc' \in CompletedPC
         /\ server = "up"
<1>1. server = "up"
  BY EngineNeedsProcess
<1>2. ASSUME NEW j \in Jobs, ToolStep(j)
      PROVE  escan'.status = escan.status /\ epc' = epc
  BY <1>2, ToolStepMoves, ToolStatus
<1>3. CASE RunScanStep
  BY <1>1, <1>3, CompletedRunScan, FailedRunScan, FailureFinishes DEF CompletedPC
<1> QED
  BY <1>1, <1>2, <1>3 DEF EngineStep, FailureKept

\* A request saves a record that it loaded as running and cancelled, or removes
\* the row.
LEMMA RequestOutcome ==
  ASSUME TypeOK, FailureKept, NEW r \in Requests, RequestStep(r)
  PROVE  /\ db'.scan.status \in {db.scan.status, "cancelled", "absent"}
         /\ \A q \in Requests : hscan'[q].status \in {"cancelled", "absent"}
<1> USE DEF TypeOK, EngineTypeOK, RequestsTypeOK, FailureKept
<1>1. /\ hscan[r] \in ScanRecord \cup {NoScan}
      /\ WithoutProgress(hscan[r]) \in ScanRecord \cup {NoScan}
      /\ WithoutProgress(hscan[r]).status = hscan[r].status
      /\ NoScan.status = "absent"
  BY ScanEdits DEF WithoutProgress, NoScan
<1>2. db.scan.status = "running" => [db.scan EXCEPT !.status = "cancelled"].status = "cancelled"
  BY ScanEdits DEF Database, ScanRecord
<1>3. CASE ReadForCancel(r)
  BY <1>2, <1>3 DEF ReadForCancel, engineVars
<1>4. CASE MarkCancelled(r)
  BY <1>1, <1>4, StoreStatus DEF MarkCancelled
<1>5. CASE CancelDropsProgress(r)
  BY <1>1, <1>5, StoreStatus DEF CancelDropsProgress
<1>6. CASE CancelDeletesResults(r) \/ ResetProject(r)
  BY <1>6, StoreStatus DEF CancelDeletesResults, ResetProject
<1>7. CASE DropRow(r) \/ DropProject(r)
  BY <1>1, <1>7, StoreStatus DEF DropRow, DropProject
<1> QED
  BY <1>3, <1>4, <1>5, <1>6, <1>7
     DEF RequestStep, RequestContinues, TerminateScan, KillScan,
         CancelDeletesArtifacts, LoadProject, ListScans, DropFiles, engineVars

\* Startup overwrites "running" only.
LEMMA RecoverStatus ==
  ASSUME TypeOK, Recover
  PROVE  db.scan.status # "running" => db' = db
BY DEF Recover

LEMMA FailureInit == Init => FailureKept
BY DEF Init, EngineInit, RequestsInit, FailureKept, NoScan

LEMMA FailureNext ==
  TypeOK /\ StatusFits /\ FailureKept /\ [Next]_vars => FailureKept'
<1> SUFFICES ASSUME TypeOK, StatusFits, FailureKept, [Next]_vars
             PROVE  FailureKept'
  OBVIOUS
<1>1. CASE Engine
  <2>1. EngineStep /\ UNCHANGED <<hscan, server>>
    BY <1>1 DEF Engine, requestVars
  <2>2. db'.scan.status = "failed" => escan'.status = "failed"
    BY <2>1, EngineKeepsOutcome, EngineSaves DEF FailureKept
  <2> QED
    BY <2>1, <2>2, EngineKeepsOutcome DEF FailureKept
<1>2. ASSUME NEW r \in Requests, Request(r) PROVE FailureKept'
  <2>1. RequestStep(r) /\ UNCHANGED <<jobs, epc, escan, server>>
    BY <1>2, RequestTakesAway DEF Request
  <2> QED
    BY <2>1, RequestOutcome DEF FailureKept
<1>3. CASE Crash
  <2>1. /\ UNCHANGED <<db, escan, hscan>>
        /\ epc' \in {"ended", "dead"} /\ server' = "down" /\ server = "up"
    BY <1>3 DEF Crash
  <2>2. \A j \in Jobs : jobs'[j] \notin InFlight
    BY <1>3 DEF Crash, InFlight, Drained
  <2> QED
    BY <2>1, <2>2 DEF FailureKept, CompletedPC, OverPC
<1>4. CASE Recover
  BY <1>4 DEF Recover, requestVars, FailureKept
<1>5. CASE UNCHANGED vars
  BY <1>5 DEF vars, engineVars, requestVars, FailureKept
<1> QED
  BY <1>1, <1>2, <1>3, <1>4, <1>5 DEF Next, Idle

\* The row of an assessment that completed or failed never goes back to
\* running, nor from one outcome to the other, whoever saves it later.
THEOREM OutcomeAlwaysStands == Spec => OutcomeStands
<1>1. TypeOK /\ StatusFits /\ FailureKept /\ [Next]_vars =>
        [db.scan.status \in {"completed", "failed"} =>
           db'.scan.status \in {db.scan.status, "cancelled", "absent"}]_vars
  <2> SUFFICES ASSUME TypeOK, StatusFits, FailureKept, Next,
                      db.scan.status \in {"completed", "failed"}
               PROVE  db'.scan.status \in {db.scan.status, "cancelled", "absent"}
    OBVIOUS
  <2>1. CASE Engine
    <3>1. escan.status = db.scan.status /\ escan'.status = escan.status
      BY <2>1, EngineKeepsOutcome DEF Engine, StatusFits, FailureKept
    <3> QED
      BY <2>1, <3>1, EngineSaves DEF Engine
  <2>2. ASSUME NEW r \in Requests, Request(r)
        PROVE  db'.scan.status \in {db.scan.status, "cancelled", "absent"}
    BY <2>2, RequestOutcome DEF Request
  <2>3. CASE Crash
    BY <2>3 DEF Crash
  <2>4. CASE Recover
    BY <2>4, RecoverStatus
  <2>5. CASE Idle
    BY <2>5 DEF Idle, vars, engineVars
  <2> QED
    BY <2>1, <2>2, <2>3, <2>4, <2>5 DEF Next
<1> QED
  BY <1>1, TypeInit, TypeNext, StagesInit, StagesNext, FitsInit, FitsNext,
     FailureInit, FailureNext, PTL
     DEF Spec, OutcomeStands
=============================================================================
