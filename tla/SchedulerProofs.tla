-------------------------- MODULE SchedulerProofs --------------------------
(***************************************************************************)
(* Proofs about Scheduler, for every set of schedules, assessments and     *)
(* requests, every interval and every horizon.                             *)
(***************************************************************************)
EXTENDS Scheduler, TLAPS

\* One step, action by action: the case split of both invariants.
LEMMA StepCases ==
  ASSUME [Next]_vars
  PROVE  \/ Poll \/ NextSchedule \/ LoadProject \/ DisableSchedule
         \/ CheckRunning \/ PostponeSchedule \/ LoadTargets
         \/ SaveScheduledScan \/ SaveRejected \/ CountScan
         \/ AdvanceSchedule \/ StartScheduledScan
         \/ \E x \in Scans : MarkRunning(x) \/ SaveProgress(x) \/ EndScan(x)
         \/ \E s \in Schedules :
              CheckNewSchedule(s) \/ SaveNewSchedule(s) \/ DeleteSchedule(s)
         \/ \E c \in Creators :
              \/ CheckNewScan(c) \/ SaveNewScan(c)
              \/ CountNewScan(c) \/ StartNewScan(c)
         \/ \E r \in Removals :
              \/ AcceptRemoval(r) \/ ListRows(r) \/ DropRow(r)
              \/ RowsDropped(r) \/ ResetProject(r) \/ DropTargets(r)
              \/ DropProject(r)
         \/ \E k \in Cancels : ReadForCancel(k) \/ CancelContinues(k)
         \/ EditTargets \/ Tick \/ Crash \/ Recover
         \/ UNCHANGED vars
BY DEF Next, Serving, LoopContinues, CreationContinues, RemovalContinues

-----------------------------------------------------------------------------
(* Type correctness.                                                       *)

\* A saved schedule is a schedule.
LEMMA ScheduleTypes ==
  ASSUME NEW table \in [Schedules -> Schedule], NEW s, NEW e \in BOOLEAN,
         NEW n \in Nat
  PROVE  /\ [table EXCEPT ![s] = [is |-> "stored", enabled |-> e, next |-> n]]
              \in [Schedules -> Schedule]
         /\ \A state \in {"unborn", "checked", "deleted"} :
              [table EXCEPT ![s] = Absent(state)] \in [Schedules -> Schedule]
<1>1. [is |-> "stored", enabled |-> e, next |-> n] \in Schedule
  BY DEF Schedule
<1>2. \A state \in {"unborn", "checked", "deleted"} : Absent(state) \in Schedule
  BY DEF Schedule, Absent
<1> QED
  BY <1>1, <1>2

\* The loop's own steps.
LEMMA LoopTypes ==
  ASSUME TypeOK,
         \/ Poll \/ NextSchedule \/ LoadProject \/ DisableSchedule
         \/ CheckRunning \/ PostponeSchedule \/ LoadTargets
         \/ SaveScheduledScan \/ SaveRejected \/ CountScan
         \/ AdvanceSchedule \/ StartScheduledScan
  PROVE  TypeOK'
<1> USE ScheduleAssumption
    DEF TypeOK, store, loop, history, creation, ending, HoldsCopy, HoldsScan,
        LoopPC, NoScan
<1>t. /\ now \in Nat /\ now + Interval \in Nat
      /\ now + Postponement \in Nat
  BY DEF Postponement
<1>1. CASE Poll
  <2>1. \A s \in Schedules : [id |-> s, due |-> sched[s].next] \in Copy
    BY DEF Copy, Schedule
  <2>2. batch' \subseteq Copy
    BY <1>1, <2>1 DEF Poll
  <2> QED
    BY <1>1, <2>2 DEF Poll
<1>2. CASE NextSchedule
  BY <1>2 DEF NextSchedule
<1>3. CASE LoadProject
  BY <1>3 DEF LoadProject
<1>4. CASE DisableSchedule
  <2>1. cur.due \in Nat
    BY <1>4 DEF DisableSchedule, Copy
  <2>2. sched' \in [Schedules -> Schedule]
    BY <1>4, <2>1, ScheduleTypes DEF DisableSchedule, SaveSchedule
  <2> QED
    BY <1>4, <2>2 DEF DisableSchedule
<1>5. CASE CheckRunning
  BY <1>5 DEF CheckRunning
<1>6. CASE PostponeSchedule
  <2>1. sched' \in [Schedules -> Schedule]
    BY <1>6, <1>t, ScheduleTypes DEF PostponeSchedule, SaveSchedule
  <2> QED
    BY <1>6, <2>1 DEF PostponeSchedule
<1>7. CASE LoadTargets
  BY <1>7 DEF LoadTargets
<1>8. CASE SaveScheduledScan
  BY <1>8 DEF SaveScheduledScan, RowStatus
<1>9. CASE SaveRejected
  BY <1>9 DEF SaveRejected
<1>10. CASE CountScan
  BY <1>10 DEF CountScan
<1>11. CASE AdvanceSchedule
  <2>1. sched' \in [Schedules -> Schedule]
    BY <1>11, <1>t, ScheduleTypes DEF AdvanceSchedule, SaveSchedule
  <2> QED
    BY <1>11, <2>1 DEF AdvanceSchedule
<1>12. CASE StartScheduledScan
  <2>1. [copy |-> cur, scan |-> fresh] \in [copy : Copy, scan : Scans]
    BY <1>12 DEF StartScheduledScan
  <2>2. task' \in [Scans -> TaskState]
    BY <1>12 DEF StartScheduledScan, TaskState
  <2> QED
    BY <1>12, <2>1, <2>2 DEF StartScheduledScan
<1> QED
  BY <1>1, <1>2, <1>3, <1>4, <1>5, <1>6, <1>7, <1>8, <1>9, <1>10, <1>11, <1>12

\* A cancel changes no row but the one of its assessment, and that to CANCELLED
\* if the project is still there.
LEMMA CancelEffect ==
  ASSUME TypeOK, NEW k \in Cancels, ReadForCancel(k) \/ CancelContinues(k)
  PROVE  /\ UNCHANGED <<now, project, targets, sched, task, lpc, batch, cur,
                        fresh, runs, cpc, rpc, victims, server>>
         /\ \/ UNCHANGED row
            \/ \E x \in Scans :
                 /\ project
                 /\ row' = [row EXCEPT ![x] = "over"]
                 /\ x \in touched'
         /\ touched \subseteq touched'
<1> USE DEF CancelContinues, store, loop, history, creation
<1>1. CASE ReadForCancel(k)
  BY <1>1 DEF ReadForCancel
<1>2. CASE MarkCancelled(k)
  BY <1>2 DEF MarkCancelled, Upsert, TypeOK
<1>3. CASE CancelDropsProgress(k)
  BY <1>3 DEF CancelDropsProgress, Upsert, TypeOK
<1> QED
  BY <1>1, <1>2, <1>3

\* run_scan, the requests, time and the crash.
LEMMA OtherTypes ==
  ASSUME TypeOK,
         \/ \E x \in Scans : MarkRunning(x) \/ SaveProgress(x) \/ EndScan(x)
         \/ \E s \in Schedules :
              CheckNewSchedule(s) \/ SaveNewSchedule(s) \/ DeleteSchedule(s)
         \/ \E c \in Creators :
              \/ CheckNewScan(c) \/ SaveNewScan(c)
              \/ CountNewScan(c) \/ StartNewScan(c)
         \/ \E r \in Removals :
              \/ AcceptRemoval(r) \/ ListRows(r) \/ DropRow(r)
              \/ RowsDropped(r) \/ ResetProject(r) \/ DropTargets(r)
              \/ DropProject(r)
         \/ \E k \in Cancels : ReadForCancel(k) \/ CancelContinues(k)
         \/ EditTargets \/ Tick \/ Crash \/ Recover
         \/ UNCHANGED vars
  PROVE  TypeOK'
<1> USE ScheduleAssumption
    DEF TypeOK, store, loop, history, creation, ending, HoldsCopy, HoldsScan
<1>t. now \in Nat /\ now + Interval \in Nat
  OBVIOUS
<1>1. ASSUME NEW x \in Scans, MarkRunning(x) \/ SaveProgress(x) \/ EndScan(x)
      PROVE  TypeOK'
  <2>1. row' \in [Scans -> RowStatus]
    BY <1>1 DEF MarkRunning, SaveProgress, EndScan, Upsert, RowStatus
  <2>2. task' \in [Scans -> TaskState]
    BY <1>1 DEF MarkRunning, SaveProgress, EndScan, TaskState
  <2> QED
    BY <1>1, <2>1, <2>2 DEF MarkRunning, SaveProgress, EndScan
<1>2. ASSUME NEW s \in Schedules,
             CheckNewSchedule(s) \/ SaveNewSchedule(s) \/ DeleteSchedule(s)
      PROVE  TypeOK'
  <2>1. CASE CheckNewSchedule(s)
    BY <2>1, ScheduleTypes DEF CheckNewSchedule
  <2>2. CASE SaveNewSchedule(s)
    <3>1. sched' \in [Schedules -> Schedule]
      BY <2>2, <1>t, ScheduleTypes DEF SaveNewSchedule, SaveSchedule
    <3> QED
      BY <2>2, <3>1 DEF SaveNewSchedule
  <2>3. CASE DeleteSchedule(s)
    BY <2>3, ScheduleTypes DEF DeleteSchedule
  <2> QED
    BY <1>2, <2>1, <2>2, <2>3
<1>3. ASSUME NEW c \in Creators,
             \/ CheckNewScan(c) \/ SaveNewScan(c)
             \/ CountNewScan(c) \/ StartNewScan(c)
      PROVE  TypeOK'
  <2> USE DEF CreationPC
  <2>1. CASE CheckNewScan(c)
    BY <1>3, <2>1 DEF CheckNewScan, At
  <2>2. CASE SaveNewScan(c)
    BY <1>3, <2>2 DEF SaveNewScan, At, RowStatus
  <2>3. CASE CountNewScan(c)
    BY <1>3, <2>3 DEF CountNewScan, At
  <2>4. CASE StartNewScan(c)
    <3>1. task' \in [Scans -> TaskState]
      BY <2>4 DEF StartNewScan, TaskState
    <3> QED
      BY <1>3, <2>4, <3>1 DEF StartNewScan, At
  <2> QED
    BY <1>3, <2>1, <2>2, <2>3, <2>4
<1>4. ASSUME NEW r \in Removals,
             \/ AcceptRemoval(r) \/ ListRows(r) \/ DropRow(r)
             \/ RowsDropped(r) \/ ResetProject(r) \/ DropTargets(r)
              \/ DropProject(r)
      PROVE  TypeOK'
  <2>1. \A rows : Removed(rows) \in [Scans -> RowStatus]
    BY DEF Removed, RowStatus
  <2> USE DEF RemovalPC
  <2>2. CASE AcceptRemoval(r)
    BY <1>4, <2>2 DEF AcceptRemoval, Goto
  <2>3. CASE ListRows(r)
    BY <1>4, <2>3 DEF ListRows, Goto
  <2>4. CASE DropRow(r)
    BY <1>4, <2>1, <2>4 DEF DropRow
  <2>5. CASE RowsDropped(r)
    BY <1>4, <2>5 DEF RowsDropped, Goto
  <2>6. CASE DropTargets(r)
    BY <1>4, <2>6 DEF DropTargets, Goto
  <2>7. CASE ResetProject(r)
    BY <1>4, <2>7 DEF ResetProject, Goto
  <2>8. CASE DropProject(r)
    BY <1>4, <2>1, <2>8 DEF DropProject, Goto, Born
  <2> QED
    BY <1>4, <2>2, <2>3, <2>4, <2>5, <2>6, <2>7, <2>8
<1>5. CASE EditTargets
  BY <1>5 DEF EditTargets
<1>6. CASE Tick
  BY <1>6 DEF Tick
<1>7. CASE Crash
  <2>1. sched' \in [Schedules -> Schedule]
    BY <1>7 DEF Crash, Schedule, Absent
  <2>2. task' \in [Scans -> TaskState]
    BY <1>7 DEF Crash, TaskState
  <2>3. /\ cpc' \in [Creators -> [at : CreationPC, scan : Scans \cup {NoScan}]]
        /\ rpc' \in [Removals -> RemovalPC]
        /\ victims' \in [Removals -> SUBSET Scans]
    BY <1>7 DEF Crash, CreationPC, RemovalPC
  <2>4. /\ kpc' \in [Cancels -> [at : CancelPC, scan : Scans \cup {NoScan}]]
        /\ \A k \in Cancels : kpc'[k].at \notin {"mark", "unmark"}
    BY <1>7 DEF Crash, Answered, CancelPC
  <2> QED
    BY <1>7, <2>1, <2>2, <2>3, <2>4 DEF Crash, LoopPC, NoScan
<1>8. CASE Recover
  <2>1. row' \in [Scans -> RowStatus]
    BY <1>8 DEF Recover, RowStatus
  <2>2. lpc' = "sleep" /\ batch' = {} /\ fresh' \notin Scans
    BY <1>8 DEF Recover
  <2> QED
    BY <1>8, <2>1, <2>2 DEF Recover, LoopPC
<1>9. CASE UNCHANGED vars
  BY <1>9 DEF vars
<1>10. ASSUME NEW k \in Cancels, ReadForCancel(k) \/ CancelContinues(k)
       PROVE  TypeOK'
  <2>1. /\ UNCHANGED <<now, project, targets, sched, task, lpc, batch, cur, fresh,
                       runs, cpc, rpc, victims, server>>
        /\ row' \in [Scans -> RowStatus]
    BY <1>10, CancelEffect DEF RowStatus
  <2>2. CASE ReadForCancel(k)
    BY <1>10, <2>1, <2>2 DEF ReadForCancel, CancelPC
  <2>3. CASE MarkCancelled(k)
    BY <1>10, <2>1, <2>3 DEF MarkCancelled, Answered, CancelPC
  <2>4. CASE CancelDropsProgress(k)
    BY <1>10, <2>1, <2>4 DEF CancelDropsProgress, Answered, CancelPC
  <2> QED
    BY <1>10, <2>2, <2>3, <2>4 DEF CancelContinues
<1> QED
  BY <1>1, <1>2, <1>3, <1>4, <1>5, <1>6, <1>7, <1>8, <1>9, <1>10

\* Every variable of the scheduler keeps its type; the loop holds a copy and
\* a fresh assessment exactly where launch_scheduled_scan needs them, and a
\* poll that ended, by an exception too, leaves nothing for the next one.
THEOREM TypeCorrect == Spec => []TypeOK
<1>1. Init => TypeOK
  <2> SUFFICES ASSUME Init PROVE TypeOK
    OBVIOUS
  <2>1. sched \in [Schedules -> Schedule]
    BY DEF Init, Schedule, Absent
  <2> QED
    BY <2>1, ScheduleAssumption
    DEF Init, TypeOK, RowStatus, TaskState, LoopPC, NoScan, CreationPC,
        RemovalPC, CancelPC, HoldsCopy, HoldsScan
<1>2. TypeOK /\ [Next]_vars => TypeOK'
  BY StepCases, LoopTypes, OtherTypes
<1> QED
  BY <1>1, <1>2, PTL DEF Spec

-----------------------------------------------------------------------------
(* The spacing of the runs.                                                *)

\* A step that writes no schedule, copy or run keeps the invariant wherever
\* it takes the loop, as long as a copy in hand was in hand before.
LEMMA SpacingFrame ==
  ASSUME TypeOK, SpacedRuns, TypeOK',
         UNCHANGED <<sched, batch, cur, runs>>,
         now <= now',
         lpc' \in HoldsCopy => lpc \in HoldsCopy,
         lpc' = "launch" => lpc = "launch"
  PROVE  SpacedRuns'
<1>1. \A n \in Nat : n <= now => n <= now'
  BY ScheduleAssumption DEF TypeOK
<1>2. \A c \in batch : c.due \in Nat
  BY DEF TypeOK, Copy
<1>3. lpc \in HoldsCopy => cur.due \in Nat
  BY DEF TypeOK, Copy
<1> QED
  BY <1>1, <1>2, <1>3 DEF SpacedRuns, RunsAnIntervalApart, Created

\* A poll loads each schedule once, with the due time of its record.
LEMMA SpacingPoll == TypeOK /\ SpacedRuns /\ Poll => SpacedRuns'
<1> SUFFICES ASSUME TypeOK, SpacedRuns, Poll PROVE SpacedRuns'
  OBVIOUS
<1>1. /\ UNCHANGED <<now, sched, runs>>
      /\ lpc' \notin HoldsCopy
  BY DEF Poll, store, history, HoldsCopy, HoldsScan
<1>2. ASSUME NEW c \in batch'
      PROVE  /\ c.id \in Schedules
             /\ c = [id |-> c.id, due |-> sched[c.id].next]
             /\ sched[c.id].is = "stored"
             /\ c.due <= now
  <2>1. PICK s \in Schedules : Due(s) /\ c = [id |-> s, due |-> sched[s].next]
    BY <1>2 DEF Poll
  <2> QED
    BY <2>1 DEF Due, SpacedRuns
<1> QED
  BY <1>1, <1>2
  DEF SpacedRuns, RunsAnIntervalApart, Created, HoldsCopy, HoldsScan

\* The copy in hand leaves the batch.
LEMMA SpacingNext == TypeOK /\ SpacedRuns /\ NextSchedule => SpacedRuns'
<1> SUFFICES ASSUME TypeOK, SpacedRuns, NextSchedule PROVE SpacedRuns'
  OBVIOUS
<1>1. UNCHANGED <<now, sched, runs>> /\ lpc' # "launch"
  BY DEF NextSchedule, store, history
<1>2. CASE batch = {}
  BY <1>1, <1>2
  DEF NextSchedule, SpacedRuns, RunsAnIntervalApart, Created, HoldsCopy,
      HoldsScan
<1>3. CASE batch # {}
  <2>1. PICK c \in batch : cur' = c /\ batch' = batch \ {c}
    BY <1>3 DEF NextSchedule
  <2> QED
    BY <1>1, <2>1 DEF SpacedRuns, RunsAnIntervalApart, Created
<1> QED
  BY <1>2, <1>3

\* Saving the copy in hand: it is not earlier than the copy, and when it
\* announces a launch it is an interval later.
LEMMA SpacingSave ==
  ASSUME TypeOK, SpacedRuns, lpc \in HoldsCopy,
         NEW e \in BOOLEAN, NEW n \in Nat, cur.due <= n,
         SaveSchedule(cur.id, e, n),
         UNCHANGED <<now, batch, cur, runs>>,
         lpc' = "next" \/ cur.due + Interval <= n
  PROVE  SpacedRuns'
<1>1. cur.id \in Schedules /\ cur.due \in Nat
  BY DEF TypeOK, Copy
<1>2. \A s \in Schedules :
        sched'[s] = IF s = cur.id
                      THEN [is |-> "stored", enabled |-> e, next |-> n]
                      ELSE sched[s]
  BY DEF SaveSchedule, TypeOK
<1>3. ASSUME NEW p \in runs
      PROVE  p.copy.id \in Schedules /\ p.copy.due \in Nat
  BY DEF TypeOK, Copy
<1>4. ASSUME NEW p \in runs, sched'[p.copy.id].is = "stored"
      PROVE  p.copy.due + Interval <= sched'[p.copy.id].next
  <2>1. CASE p.copy.id = cur.id
    <3>1. p.copy.due + Interval <= cur.due
      BY <2>1 DEF SpacedRuns
    <3> QED
      BY <1>1, <1>2, <1>3, <2>1, <3>1, ScheduleAssumption
  <2>2. CASE p.copy.id # cur.id
    BY <1>2, <1>3, <1>4, <2>2 DEF SpacedRuns
  <2> QED
    BY <2>1, <2>2
<1>5. \A s \in Schedules : Created(s) => Created(s)'
  BY <1>2 DEF Created
<1>6. \A c \in batch : c.id \in Schedules
  BY DEF TypeOK, Copy
<1>7. Created(cur.id)'
  BY <1>1, <1>2 DEF Created
<1>8. lpc' = "launch" => cur.due + Interval <= sched'[cur.id].next
  BY <1>1, <1>2
<1>9. \A s \in Schedules : sched'[s].enabled => sched'[s].is = "stored"
  BY <1>2 DEF SpacedRuns
<1>10. /\ RunsAnIntervalApart'
       /\ \A p \in runs' :
            /\ \A c \in batch' :
                 c.id = p.copy.id => p.copy.due + Interval <= c.due
            /\ lpc' \in HoldsCopy /\ cur'.id = p.copy.id =>
                 p.copy.due + Interval <= cur'.due
       /\ \A c \in batch' : c.due <= now'
       /\ \A c, d \in batch' : c.id = d.id => c = d
       /\ cur'.due <= now'
       /\ \A c \in batch' : c.id # cur'.id
  BY DEF SpacedRuns, RunsAnIntervalApart
<1>11. /\ \A p \in runs' : Created(p.copy.id)'
       /\ \A c \in batch' : Created(c.id)'
  BY <1>3, <1>5, <1>6 DEF SpacedRuns
<1> QED
  BY <1>4, <1>7, <1>8, <1>9, <1>10, <1>11 DEF SpacedRuns

\* A launch adds a run that is due an interval after the others of its
\* schedule, and the record has moved an interval beyond it.
LEMMA SpacingStart ==
  TypeOK /\ SpacedRuns /\ StartScheduledScan => SpacedRuns'
<1> SUFFICES ASSUME TypeOK, SpacedRuns, StartScheduledScan PROVE SpacedRuns'
  OBVIOUS
<1> DEFINE q == [copy |-> cur, scan |-> fresh]
<1>1. /\ UNCHANGED <<now, sched, batch, cur>>
      /\ runs' = runs \cup {q}
      /\ lpc = "launch" /\ lpc' = "next"
  BY DEF StartScheduledScan, store
<1>2. lpc \in HoldsCopy /\ lpc' \notin HoldsCopy
  BY <1>1 DEF HoldsCopy, HoldsScan
<1>3. \A p \in runs :
        p.copy.id = cur.id => p.copy.due + Interval <= cur.due
  BY <1>2 DEF SpacedRuns
<1>4. RunsAnIntervalApart'
  <2> SUFFICES ASSUME NEW p \in runs', NEW r \in runs',
                      p.copy.id = r.copy.id, p # r
               PROVE  \/ p.copy.due + Interval <= r.copy.due
                      \/ r.copy.due + Interval <= p.copy.due
    BY DEF RunsAnIntervalApart
  <2>1. CASE p \in runs /\ r \in runs
    BY <2>1 DEF SpacedRuns, RunsAnIntervalApart
  <2>2. CASE p = q \/ r = q
    BY <1>1, <1>3, <2>2
  <2> QED
    BY <1>1, <2>1, <2>2
<1>5. /\ Created(cur.id)
      /\ sched[cur.id].is = "stored" => cur.due + Interval <= sched[cur.id].next
      /\ \A c \in batch : c.id # cur.id
  BY <1>1, <1>2 DEF SpacedRuns
<1>6. q.copy = cur
  OBVIOUS
<1>7. /\ \A p \in runs :
           /\ Created(p.copy.id)
           /\ sched[p.copy.id].is = "stored" =>
                p.copy.due + Interval <= sched[p.copy.id].next
           /\ \A c \in batch :
                c.id = p.copy.id => p.copy.due + Interval <= c.due
      /\ \A c \in batch : c.due <= now /\ Created(c.id)
      /\ \A c, d \in batch : c.id = d.id => c = d
      /\ \A s \in Schedules : sched[s].enabled => sched[s].is = "stored"
  BY DEF SpacedRuns
<1>8. \A p \in runs' :
        /\ Created(p.copy.id)
        /\ sched[p.copy.id].is = "stored" =>
             p.copy.due + Interval <= sched[p.copy.id].next
        /\ \A c \in batch :
             c.id = p.copy.id => p.copy.due + Interval <= c.due
  BY <1>1, <1>5, <1>6, <1>7
<1> HIDE DEF q
<1> QED
  BY <1>1, <1>2, <1>4, <1>7, <1>8 DEF SpacedRuns, Created

\* Requests and a crash: a record that runs or copies know of is neither new
\* nor forgotten, and its due time stays or the record is gone.
LEMMA SpacingRecords ==
  ASSUME TypeOK, SpacedRuns,
         \A s \in Schedules :
           \/ sched'[s] = sched[s]
           \/ sched[s].is \in {"unborn", "checked"} /\
                 (sched'[s].enabled => sched'[s].is = "stored")
           \/ sched'[s] = Absent("deleted"),
         UNCHANGED <<now, runs>>,
         batch' \subseteq batch,
         lpc' \in HoldsCopy => UNCHANGED <<lpc, cur>>
  PROVE  SpacedRuns'
<1>1. \A s \in Schedules :
        /\ Created(s) => Created(s)'
        /\ Created(s) /\ sched'[s].is = "stored" => sched'[s] = sched[s]
        /\ sched'[s].enabled => sched'[s].is = "stored"
  BY DEF Created, SpacedRuns, Absent
<1>2. /\ \A p \in runs : p.copy.id \in Schedules
      /\ \A c \in batch : c.id \in Schedules
      /\ lpc \in HoldsCopy => cur.id \in Schedules
  BY DEF TypeOK, Copy
<1>3. "launch" \in HoldsCopy
  BY DEF HoldsCopy, HoldsScan
<1>4. \A p \in runs : Created(p.copy.id) /\ Created(p.copy.id)'
  BY <1>1, <1>2 DEF SpacedRuns
<1>5. \A c \in batch : Created(c.id)'
  BY <1>1, <1>2 DEF SpacedRuns
<1>6. lpc' \in HoldsCopy => Created(cur.id) /\ Created(cur.id)'
  <2> SUFFICES ASSUME lpc' \in HoldsCopy
               PROVE  Created(cur.id) /\ Created(cur.id)'
    OBVIOUS
  <2>1. lpc \in HoldsCopy /\ cur' = cur
    OBVIOUS
  <2>2. Created(cur.id) /\ cur.id \in Schedules
    BY <1>2, <2>1 DEF SpacedRuns
  <2> QED
    BY <1>1, <2>1, <2>2 DEF Created
<1> QED
  BY <1>1, <1>2, <1>3, <1>4, <1>5, <1>6
  DEF SpacedRuns, RunsAnIntervalApart, Created

\* The steps of the loop.
LEMMA SpacingLoop ==
  ASSUME TypeOK, TypeOK', SpacedRuns,
         \/ Poll \/ NextSchedule \/ LoadProject \/ DisableSchedule
         \/ CheckRunning \/ PostponeSchedule \/ LoadTargets
         \/ SaveScheduledScan \/ SaveRejected \/ CountScan
         \/ AdvanceSchedule \/ StartScheduledScan
  PROVE  SpacedRuns'
<1> USE DEF store, history
<1>t. /\ now \in Nat /\ Interval \in Nat
      /\ lpc \in HoldsCopy => cur.due \in Nat /\ cur.due <= now
  BY ScheduleAssumption DEF TypeOK, Copy, SpacedRuns
<1>p. \A pc \in {"project", "disable", "scans", "postpone", "targets", "save",
                  "count", "advance", "launch"} : pc \in HoldsCopy
  BY DEF HoldsCopy, HoldsScan
<1>1. CASE LoadProject \/ CheckRunning \/ LoadTargets
  <2>1. UNCHANGED <<now, sched, batch, cur, runs>>
    BY <1>1 DEF LoadProject, CheckRunning, LoadTargets
  <2>2. lpc \in HoldsCopy /\ lpc' # "launch"
    BY <1>1, <1>p DEF LoadProject, CheckRunning, LoadTargets
  <2> QED
    BY <1>t, <2>1, <2>2, SpacingFrame
<1>2. CASE SaveScheduledScan \/ CountScan
  <2>1. UNCHANGED <<now, sched, batch, cur, runs>>
    BY <1>2 DEF SaveScheduledScan, CountScan
  <2>2. lpc \in HoldsCopy /\ lpc' # "launch"
    BY <1>2, <1>p DEF SaveScheduledScan, CountScan
  <2> QED
    BY <1>t, <2>1, <2>2, SpacingFrame
<1>3. CASE DisableSchedule
  <2>1. lpc \in HoldsCopy /\ cur.due \in Nat /\ cur.due <= cur.due
    BY <1>3, <1>t, <1>p DEF DisableSchedule
  <2> QED
    BY <1>3, <2>1, SpacingSave DEF DisableSchedule
<1>4. CASE PostponeSchedule
  <2>1. /\ lpc \in HoldsCopy
        /\ now + Postponement \in Nat
        /\ cur.due <= now + Postponement
    BY <1>4, <1>t, <1>p DEF PostponeSchedule, Postponement
  <2> QED
    BY <1>4, <2>1, SpacingSave DEF PostponeSchedule
<1>5. CASE AdvanceSchedule
  <2>1. /\ lpc \in HoldsCopy
        /\ now + Interval \in Nat
        /\ cur.due <= now + Interval
        /\ cur.due + Interval <= now + Interval
    BY <1>5, <1>t, <1>p DEF AdvanceSchedule
  <2> QED
    BY <1>5, <2>1, SpacingSave DEF AdvanceSchedule
<1>6. CASE SaveRejected
  <2>1. lpc' \notin HoldsCopy
    BY <1>6 DEF SaveRejected, HoldsCopy, HoldsScan
  <2> QED
    BY <1>6, <2>1, SpacingRecords DEF SaveRejected
<1> QED
  BY <1>1, <1>2, <1>3, <1>4, <1>5, <1>6, SpacingPoll, SpacingNext, SpacingStart

\* The steps of everybody else.
LEMMA SpacingOthers ==
  ASSUME TypeOK, TypeOK', SpacedRuns,
         \/ \E x \in Scans : MarkRunning(x) \/ SaveProgress(x) \/ EndScan(x)
         \/ \E s \in Schedules :
              CheckNewSchedule(s) \/ SaveNewSchedule(s) \/ DeleteSchedule(s)
         \/ \E c \in Creators :
              \/ CheckNewScan(c) \/ SaveNewScan(c)
              \/ CountNewScan(c) \/ StartNewScan(c)
         \/ \E r \in Removals :
              \/ AcceptRemoval(r) \/ ListRows(r) \/ DropRow(r)
              \/ RowsDropped(r) \/ ResetProject(r) \/ DropTargets(r)
              \/ DropProject(r)
         \/ \E k \in Cancels : ReadForCancel(k) \/ CancelContinues(k)
         \/ EditTargets \/ Tick \/ Crash \/ Recover
         \/ UNCHANGED vars
  PROVE  SpacedRuns'
<1> USE DEF store, loop, history
<1>t. now \in Nat
  BY ScheduleAssumption DEF TypeOK
<1>f. ASSUME UNCHANGED <<sched, lpc, batch, cur, runs>>, now <= now'
      PROVE  SpacedRuns'
  BY <1>f, SpacingFrame
<1>1. CASE \E x \in Scans : MarkRunning(x) \/ SaveProgress(x) \/ EndScan(x)
  BY <1>1, <1>f, <1>t DEF MarkRunning, SaveProgress, EndScan
<1>2. ASSUME NEW s \in Schedules,
             CheckNewSchedule(s) \/ SaveNewSchedule(s) \/ DeleteSchedule(s)
      PROVE  SpacedRuns'
  <2>1. UNCHANGED <<now, runs, batch, lpc, cur>>
    BY <1>2 DEF CheckNewSchedule, SaveNewSchedule, DeleteSchedule
  <2>2. CASE CheckNewSchedule(s)
    BY <2>1, <2>2, SpacingRecords DEF CheckNewSchedule, Absent, TypeOK
  <2>3. CASE SaveNewSchedule(s)
    BY <2>1, <2>3, SpacingRecords DEF SaveNewSchedule, SaveSchedule, TypeOK
  <2>4. CASE DeleteSchedule(s)
    BY <2>1, <2>4, SpacingRecords DEF DeleteSchedule, TypeOK
  <2> QED
    BY <1>2, <2>2, <2>3, <2>4
<1>3. CASE \E c \in Creators :
             \/ CheckNewScan(c) \/ SaveNewScan(c)
             \/ CountNewScan(c) \/ StartNewScan(c)
  BY <1>3, <1>f, <1>t DEF CheckNewScan, SaveNewScan, CountNewScan, StartNewScan
<1>4. CASE \E r \in Removals :
             \/ AcceptRemoval(r) \/ ListRows(r) \/ DropRow(r)
             \/ RowsDropped(r) \/ ResetProject(r) \/ DropTargets(r)
              \/ DropProject(r)
  BY <1>4, <1>f, <1>t
  DEF AcceptRemoval, ListRows, DropRow, RowsDropped, ResetProject,
      DropTargets, DropProject
<1>5. CASE EditTargets \/ Tick
  BY <1>5, <1>f, <1>t DEF EditTargets, Tick
<1>6. CASE Crash
  <2>1. lpc' \notin HoldsCopy
    BY <1>6 DEF Crash, HoldsCopy, HoldsScan
  <2>2. \A s \in Schedules :
          \/ sched'[s] = sched[s]
          \/ sched[s].is = "checked" /\ sched'[s] = Absent("unborn")
    BY <1>6 DEF Crash
  <2>3. ~Absent("unborn").enabled
    BY DEF Absent
  <2> QED
    BY <1>6, <2>1, <2>2, <2>3, SpacingRecords DEF Crash
<1>7. CASE Recover
  <2>1. lpc' \notin HoldsCopy /\ lpc' # "launch"
    BY <1>7 DEF Recover, HoldsCopy, HoldsScan
  <2> QED
    BY <1>7, <1>t, <2>1, SpacingFrame DEF Recover
<1>8. CASE UNCHANGED vars
  BY <1>8, <1>f, <1>t DEF vars
<1>9. CASE \E k \in Cancels : ReadForCancel(k) \/ CancelContinues(k)
  BY <1>9, <1>f, <1>t, CancelEffect
<1> QED
  BY <1>1, <1>2, <1>3, <1>4, <1>5, <1>6, <1>7, <1>8, <1>9

\* The inductive invariant of the spacing.
LEMMA SpacedAlways == Spec => []SpacedRuns
<1>1. Init => SpacedRuns
  BY DEF Init, SpacedRuns, RunsAnIntervalApart, HoldsCopy, HoldsScan, Absent
<1>2. TypeOK /\ TypeOK' /\ SpacedRuns /\ [Next]_vars => SpacedRuns'
  BY StepCases, SpacingLoop, SpacingOthers
<1> QED
  BY <1>1, <1>2, TypeCorrect, PTL DEF Spec

\* Whatever the requests do to the program and the schedules, and wherever a
\* crash falls in a launch, launch_scheduled_scan starts no two runs of one
\* schedule for due times less than an interval apart.
THEOREM RunsKeepTheirDistance == Spec => []RunsAnIntervalApart
<1>1. SpacedRuns => RunsAnIntervalApart
  BY DEF SpacedRuns
<1> QED
  BY <1>1, SpacedAlways, PTL

-----------------------------------------------------------------------------
(* One assessment of a schedule at a time.                                 *)

\* Where the launch goes on because no row was RUNNING.
Decided == {"targets", "save"} \cup HoldsScan

\* A Scan is started by the one that created it: by the scheduler once, or by
\* a request.
ScansHaveOneStarter ==
  /\ lpc \in HoldsScan =>
       /\ row[fresh] # "unborn"
       /\ \A p \in runs : p.scan # fresh
       /\ \A c \in Creators : cpc[c].scan # fresh
  /\ \A p \in runs :
       /\ row[p.scan] # "unborn"
       /\ \A c \in Creators : cpc[c].scan # p.scan
  /\ \A c \in Creators : cpc[c].scan \in Scans => row[cpc[c].scan] # "unborn"

\* What the check of the rows relies on: a started run shows in its row, and
\* one that does not yet was started in this poll, for a schedule the poll is
\* through with.
RunsShow ==
  \A p \in runs :
    /\ task[p.scan] = "running" /\ p.scan \notin touched =>
         row[p.scan] = "running"
    /\ task[p.scan] = "queued" =>
         /\ \A c \in batch : c.id # p.copy.id
         /\ lpc \in HoldsCopy => cur.id # p.copy.id

\* What the check established still holds when the coroutine is started.
StillAlone ==
  lpc \in Decided =>
    \A p \in runs : p.copy.id = cur.id => p.scan \notin Working \ touched

NothingRunsWhenDown == server = "down" => Working = {}

\* Tasks end, or go from queued to running with their row; none starts.
TasksGoOn ==
  \A p \in runs :
    \/ task'[p.scan] = task[p.scan]
    \/ task'[p.scan] \notin {"queued", "running"}
    \/ task[p.scan] = "queued" /\ task'[p.scan] = "running" /\ row'[p.scan] = "running"

\* No row becomes unborn again.
RowsStayBorn == \A x \in Scans : row[x] # "unborn" => row'[x] # "unborn"

\* A step that draws no Scan.
LEMMA StarterFrame ==
  ASSUME TypeOK, ScansHaveOneStarter,
         UNCHANGED runs, RowsStayBorn,
         lpc' \in HoldsScan => lpc \in HoldsScan /\ fresh' = fresh,
         \A c \in Creators : cpc'[c].scan \in {cpc[c].scan, NoScan}
  PROVE  ScansHaveOneStarter'
<1>1. NoScan \notin Scans
  BY ScheduleAssumption DEF NoScan
<1>2. /\ \A p \in runs : p.scan \in Scans
      /\ lpc \in HoldsScan => fresh \in Scans
  BY DEF TypeOK
<1>3. \A p \in runs' : row'[p.scan] # "unborn"
  BY <1>2 DEF ScansHaveOneStarter, RowsStayBorn
<1>4. \A p \in runs' : \A c \in Creators : cpc'[c].scan # p.scan
  BY <1>1, <1>2 DEF ScansHaveOneStarter
<1>5. \A c \in Creators :
        cpc'[c].scan \in Scans => row'[cpc'[c].scan] # "unborn"
  BY <1>1 DEF ScansHaveOneStarter, RowsStayBorn
<1>6. lpc' \in HoldsScan =>
        /\ row'[fresh'] # "unborn"
        /\ \A p \in runs' : p.scan # fresh'
        /\ \A c \in Creators : cpc'[c].scan # fresh'
  BY <1>1, <1>2 DEF ScansHaveOneStarter, RowsStayBorn
<1> QED
  BY <1>3, <1>4, <1>5, <1>6 DEF ScansHaveOneStarter

\* The Scan the scheduler draws is nobody else's.
LEMMA StarterScheduled ==
  TypeOK /\ ScansHaveOneStarter /\ SaveScheduledScan => ScansHaveOneStarter'
<1> SUFFICES ASSUME TypeOK, ScansHaveOneStarter, SaveScheduledScan
             PROVE  ScansHaveOneStarter'
  OBVIOUS
<1>1. UNCHANGED <<runs, cpc>>
  BY DEF SaveScheduledScan, history, creation
<1>2. PICK x \in Scans :
        NewId(x) /\ fresh' = x /\ row' = [row EXCEPT ![x] = "pending"]
  BY DEF SaveScheduledScan
<1>3. /\ row[x] = "unborn"
      /\ \A y \in Scans : row'[y] = IF y = x THEN "pending" ELSE row[y]
  BY <1>2 DEF NewId, TypeOK
<1>4. \A p \in runs : p.scan \in Scans
  BY DEF TypeOK
<1> QED
  BY <1>1, <1>2, <1>3, <1>4 DEF ScansHaveOneStarter

\* So is the one a request draws.
LEMMA StarterRequested ==
  ASSUME TypeOK, ScansHaveOneStarter, NEW c \in Creators, SaveNewScan(c)
  PROVE  ScansHaveOneStarter'
<1>1. UNCHANGED <<runs, lpc, fresh>>
  BY DEF SaveNewScan, history, loop
<1>2. CASE project
  <2>1. PICK x \in Scans :
          /\ NewId(x)
          /\ row' = [row EXCEPT ![x] = "pending"]
          /\ cpc' = [cpc EXCEPT ![c] = [at |-> "count", scan |-> x]]
    BY <1>2 DEF SaveNewScan
  <2>2. /\ row[x] = "unborn"
        /\ \A y \in Scans : row'[y] = IF y = x THEN "pending" ELSE row[y]
        /\ \A d \in Creators : cpc'[d].scan = IF d = c THEN x ELSE cpc[d].scan
    BY <2>1 DEF NewId, TypeOK
  <2>3. /\ \A p \in runs : p.scan \in Scans
        /\ lpc \in HoldsScan => fresh \in Scans
    BY DEF TypeOK
  <2> QED
    BY <1>1, <2>2, <2>3 DEF ScansHaveOneStarter
<1>3. CASE ~project
  <2>1. UNCHANGED row /\ cpc' = [cpc EXCEPT ![c].at = "done"]
    BY <1>3 DEF SaveNewScan, At
  <2>2. \A d \in Creators : cpc'[d].scan = cpc[d].scan
    BY <2>1 DEF TypeOK
  <2> QED
    BY <1>1, <2>1, <2>2, StarterFrame DEF RowsStayBorn
<1> QED
  BY <1>2, <1>3

\* The scheduler starts the Scan it drew.
LEMMA StarterStart ==
  TypeOK /\ ScansHaveOneStarter /\ StartScheduledScan => ScansHaveOneStarter'
<1> SUFFICES ASSUME TypeOK, ScansHaveOneStarter, StartScheduledScan
             PROVE  ScansHaveOneStarter'
  OBVIOUS
<1>1. /\ UNCHANGED <<row, cpc>>
      /\ runs' = runs \cup {[copy |-> cur, scan |-> fresh]}
      /\ lpc = "launch" /\ lpc' = "next"
  BY DEF StartScheduledScan, store, creation
<1>2. lpc \in HoldsScan /\ lpc' \notin HoldsScan
  BY <1>1 DEF HoldsScan
<1> QED
  BY <1>1, <1>2 DEF ScansHaveOneStarter

\* The rows.
LEMMA RowsStay ==
  ASSUME TypeOK,
         \/ UNCHANGED row
         \/ \E x \in Scans, s \in RowStatus \ {"unborn"} :
              row' = [row EXCEPT ![x] = s]
         \/ \E rows \in SUBSET Scans : row' = Removed(rows)
         \/ Recover
  PROVE  RowsStayBorn
<1>1. ASSUME NEW rows \in SUBSET Scans, row' = Removed(rows)
      PROVE  RowsStayBorn
  BY <1>1 DEF RowsStayBorn, Removed
<1>2. ASSUME NEW x \in Scans, NEW s \in RowStatus \ {"unborn"},
             row' = [row EXCEPT ![x] = s]
      PROVE  RowsStayBorn
  BY <1>2 DEF RowsStayBorn, TypeOK
<1>3. CASE Recover
  BY <1>3 DEF RowsStayBorn, Recover
<1>4. CASE UNCHANGED row
  BY <1>4 DEF RowsStayBorn
<1> QED
  BY <1>1, <1>2, <1>3, <1>4

LEMMA StarterStep ==
  ASSUME TypeOK, TypeOK', ScansHaveOneStarter, [Next]_vars
  PROVE  ScansHaveOneStarter'
<1> USE DEF store, loop, history, creation, ending
<1>h. /\ \A pc \in {"sleep", "next", "project", "disable", "scans",
                     "postpone", "targets", "save", "dead"} : pc \notin HoldsScan
      /\ \A pc \in {"count", "advance", "launch"} : pc \in HoldsScan
  BY DEF HoldsScan
<1>r. UNCHANGED row => RowsStayBorn
  BY DEF RowsStayBorn
<1>f. ASSUME UNCHANGED <<runs, cpc>>, RowsStayBorn,
             lpc' \in HoldsScan => lpc \in HoldsScan /\ fresh' = fresh
      PROVE  ScansHaveOneStarter'
  BY <1>f, StarterFrame
<1>1. CASE \/ Poll \/ NextSchedule \/ LoadProject \/ DisableSchedule
           \/ CheckRunning \/ PostponeSchedule \/ LoadTargets \/ SaveRejected
  <2>1. UNCHANGED <<runs, cpc, row>> /\ lpc' \notin HoldsScan
    BY <1>1, <1>h
    DEF Poll, NextSchedule, LoadProject, DisableSchedule, CheckRunning,
        PostponeSchedule, LoadTargets, SaveRejected
  <2> QED
    BY <2>1, <1>f, <1>r
<1>2. CASE CountScan \/ AdvanceSchedule
  <2>1. UNCHANGED <<runs, cpc, row, fresh>> /\ lpc \in HoldsScan
    BY <1>2, <1>h DEF CountScan, AdvanceSchedule
  <2> QED
    BY <2>1, <1>f, <1>r
<1>3. ASSUME NEW x \in Scans, MarkRunning(x) \/ SaveProgress(x) \/ EndScan(x)
      PROVE  ScansHaveOneStarter'
  <2>1. /\ UNCHANGED <<runs, cpc, lpc, fresh>>
        /\ \/ UNCHANGED row
           \/ \E s \in {"running", "over"} : row' = [row EXCEPT ![x] = s]
    BY <1>3 DEF MarkRunning, SaveProgress, EndScan, Upsert
  <2>2. {"running", "over"} \subseteq RowStatus \ {"unborn"}
    BY DEF RowStatus
  <2>3. RowsStayBorn
    BY <2>1, <2>2, RowsStay
  <2> QED
    BY <2>1, <2>3, <1>f
<1>4. ASSUME NEW s \in Schedules,
             CheckNewSchedule(s) \/ SaveNewSchedule(s) \/ DeleteSchedule(s)
      PROVE  ScansHaveOneStarter'
  BY <1>4, <1>f, <1>r DEF CheckNewSchedule, SaveNewSchedule, DeleteSchedule
<1>5. ASSUME NEW c \in Creators, CheckNewScan(c) \/ CountNewScan(c) \/ StartNewScan(c)
      PROVE  ScansHaveOneStarter'
  <2>1. /\ UNCHANGED <<runs, lpc, fresh, row>>
        /\ \E at \in CreationPC : cpc' = [cpc EXCEPT ![c].at = at]
    BY <1>5 DEF CheckNewScan, CountNewScan, StartNewScan, At, CreationPC
  <2>2. \A d \in Creators : cpc'[d].scan = cpc[d].scan
    BY <2>1 DEF TypeOK
  <2> QED
    BY <2>1, <2>2, <1>r, StarterFrame
<1>6. ASSUME NEW r \in Removals,
             \/ AcceptRemoval(r) \/ ListRows(r) \/ DropRow(r)
             \/ RowsDropped(r) \/ ResetProject(r) \/ DropTargets(r)
             \/ DropProject(r)
      PROVE  ScansHaveOneStarter'
  <2>1. UNCHANGED <<runs, cpc, lpc, fresh>>
    BY <1>6 DEF AcceptRemoval, ListRows, DropRow, RowsDropped, ResetProject,
                DropTargets, DropProject
  <2>2. UNCHANGED row \/ \E rows \in SUBSET Scans : row' = Removed(rows)
    <3>1. CASE DropRow(r)
      <4>1. PICK x \in victims[r] : row' = Removed({x})
        BY <3>1 DEF DropRow
      <4>2. {x} \in SUBSET Scans
        BY DEF TypeOK
      <4> QED
        BY <4>1, <4>2
    <3>2. CASE DropProject(r)
      BY <3>2 DEF DropProject, Born
    <3> QED
      BY <1>6, <3>1, <3>2
      DEF AcceptRemoval, ListRows, RowsDropped, ResetProject, DropTargets
  <2>3. RowsStayBorn
    BY <2>2, RowsStay
  <2> QED
    BY <2>1, <2>3, <1>f
<1>7. CASE EditTargets \/ Tick \/ UNCHANGED vars
  BY <1>7, <1>f, <1>r DEF EditTargets, Tick, vars
<1>8. CASE Crash
  <2>1. /\ UNCHANGED <<runs, row>> /\ lpc' = "dead"
        /\ \A c \in Creators : cpc'[c].scan \in {cpc[c].scan, NoScan}
    BY <1>8 DEF Crash
  <2> QED
    BY <2>1, <1>h, <1>r, StarterFrame
<1>9. CASE Recover
  <2>1. UNCHANGED <<runs, cpc>> /\ lpc' = "sleep"
    BY <1>9 DEF Recover
  <2> QED
    BY <2>1, <1>9, <1>h, <1>f, RowsStay
<1>10. ASSUME NEW k \in Cancels, ReadForCancel(k) \/ CancelContinues(k)
       PROVE  ScansHaveOneStarter'
  <2>1. "over" \in RowStatus \ {"unborn"}
    BY DEF RowStatus
  <2>2. RowsStayBorn
    BY <1>10, <2>1, CancelEffect, RowsStay
  <2> QED
    BY <1>10, <2>2, <1>f, CancelEffect
<1> QED
  BY <1>1, <1>2, <1>3, <1>4, <1>5, <1>6, <1>7, <1>8, <1>9, <1>10,
     StepCases, StarterScheduled, StarterRequested, StarterStart

\* A crash takes every coroutine with it.
LEMMA DownStep ==
  ASSUME TypeOK, NothingRunsWhenDown, [Next]_vars
  PROVE  NothingRunsWhenDown'
<1> USE DEF NothingRunsWhenDown, Working
<1>1. CASE server # "down" /\ Serving
  <2>1. UNCHANGED server
    BY <1>1
    DEF Serving, Poll, LoopContinues, NextSchedule, LoadProject,
        DisableSchedule, CheckRunning, PostponeSchedule, LoadTargets,
        SaveScheduledScan, SaveRejected, CountScan, AdvanceSchedule,
        StartScheduledScan, MarkRunning, SaveProgress, EndScan,
        CheckNewSchedule, SaveNewSchedule, DeleteSchedule, CheckNewScan,
        CreationContinues, SaveNewScan, CountNewScan, StartNewScan,
        AcceptRemoval, RemovalContinues, ListRows, DropRow, RowsDropped,
        ResetProject, DropTargets, DropProject, EditTargets, ReadForCancel,
        CancelContinues, MarkCancelled, CancelDropsProgress
  <2> QED
    BY <1>1, <2>1
<1>2. CASE Tick
  BY <1>2 DEF Tick
<1>3. CASE Crash
  <2>1. \A x \in Scans : task'[x] \notin {"queued", "running"}
    BY <1>3 DEF Crash
  <2> QED
    BY <2>1
<1>4. CASE Recover
  BY <1>4 DEF Recover
<1>5. CASE UNCHANGED vars
  BY <1>5 DEF vars
<1> QED
  BY <1>1, <1>2, <1>3, <1>4, <1>5 DEF Next

Alone == RunsShow /\ StillAlone /\ NoSelfOverlap

\* A step that starts no run, takes no schedule in hand and leaves the row of
\* every running one.
LEMMA AloneFrame ==
  ASSUME TypeOK, Alone, UNCHANGED runs, TasksGoOn,
         touched \subseteq touched',
         \A p \in runs :
           row[p.scan] = "running" /\ p.scan \notin touched'
             /\ task'[p.scan] = "running" => row'[p.scan] = "running",
         batch' \subseteq batch,
         lpc' \in HoldsCopy => lpc \in HoldsCopy /\ cur' = cur,
         lpc' \in Decided => lpc \in Decided /\ cur' = cur
  PROVE  Alone'
<1>1. \A p \in runs : p.scan \in Scans
  BY DEF TypeOK
<1>2. \A p \in runs :
        p.scan \in Working' \ touched' => p.scan \in Working \ touched
  BY <1>1 DEF TasksGoOn, Working
<1>3. RunsShow'
  BY DEF Alone, RunsShow, TasksGoOn
<1>4. StillAlone'
  BY <1>2 DEF Alone, StillAlone
<1>5. NoSelfOverlap'
  BY <1>2 DEF Alone, NoSelfOverlap
<1> QED
  BY <1>3, <1>4, <1>5 DEF Alone

\* The poll waits for the rows of the runs of the previous one.
LEMMA AlonePoll == TypeOK /\ Alone /\ Poll => Alone'
<1> SUFFICES ASSUME TypeOK, Alone, Poll PROVE Alone'
  OBVIOUS
<1>1. /\ UNCHANGED <<runs, task, row, touched>>
      /\ lpc' = "next"
      /\ \A p \in runs : task[p.scan] # "queued"
  BY DEF Poll, store, history, PreviousRunsMarked
<1>2. lpc' \notin HoldsCopy /\ lpc' \notin Decided
  BY <1>1 DEF HoldsCopy, HoldsScan, Decided
<1> QED
  BY <1>1, <1>2 DEF Alone, RunsShow, StillAlone, NoSelfOverlap, Working

\* What is said of the batch holds of the copy taken from it.
LEMMA AloneNext == TypeOK /\ Alone /\ NextSchedule => Alone'
<1> SUFFICES ASSUME TypeOK, Alone, NextSchedule PROVE Alone'
  OBVIOUS
<1>1. /\ UNCHANGED <<runs, task, row, touched>>
      /\ lpc' \in {"sleep", "project"}
      /\ batch' \subseteq batch
      /\ lpc' = "project" => cur' \in batch
  BY DEF NextSchedule, store, history
<1>2. lpc' \notin Decided /\ (lpc' \in HoldsCopy => cur' \in batch)
  BY <1>1 DEF HoldsCopy, HoldsScan, Decided
<1> QED
  BY <1>1, <1>2 DEF Alone, RunsShow, StillAlone, NoSelfOverlap, Working

\* No RUNNING row, hence no run of this schedule.
LEMMA AloneCheck == TypeOK /\ Alone /\ CheckRunning => Alone'
<1> SUFFICES ASSUME TypeOK, Alone, CheckRunning PROVE Alone'
  OBVIOUS
<1>1. /\ UNCHANGED <<runs, task, row, touched, batch, cur>>
      /\ lpc = "scans"
      /\ lpc' \in {"postpone", "targets"}
      /\ lpc' = "targets" => \A x \in Scans : row[x] # "running"
  BY DEF CheckRunning, store, history
<1>2. lpc \in HoldsCopy /\ "postpone" \notin Decided
  BY <1>1 DEF HoldsCopy, HoldsScan, Decided
<1>3. \A p \in runs : p.scan \in Scans
  BY DEF TypeOK
<1>4. StillAlone'
  BY <1>1, <1>2, <1>3 DEF Alone, RunsShow, StillAlone, Working
<1> QED
  BY <1>1, <1>2, <1>4 DEF Alone, RunsShow, NoSelfOverlap, Working

\* A run of the schedule the poll is through with.
LEMMA AloneStart ==
  TypeOK /\ SpacedRuns /\ ScansHaveOneStarter /\ Alone /\ StartScheduledScan
    => Alone'
<1> SUFFICES ASSUME TypeOK, SpacedRuns, ScansHaveOneStarter, Alone,
                    StartScheduledScan
             PROVE  Alone'
  OBVIOUS
<1> DEFINE q == [copy |-> cur, scan |-> fresh]
<1>1. /\ UNCHANGED <<row, touched, batch, cur>>
      /\ runs' = runs \cup {q}
      /\ task' = [task EXCEPT ![fresh] = "queued"]
      /\ lpc = "launch" /\ lpc' = "next"
  BY DEF StartScheduledScan, store
<1>2. /\ lpc \in HoldsCopy /\ lpc \in HoldsScan /\ lpc \in Decided
      /\ lpc' \notin HoldsCopy /\ lpc' \notin Decided
  BY <1>1 DEF HoldsCopy, HoldsScan, Decided
<1>3. fresh \in Scans /\ task'[fresh] = "queued"
  BY <1>1, <1>2 DEF TypeOK
<1>4. \A p \in runs : p.scan \in Scans /\ p.scan # fresh
                      /\ task'[p.scan] = task[p.scan]
  BY <1>1, <1>2 DEF TypeOK, ScansHaveOneStarter
<1>5. \A c \in batch : c.id # cur.id
  BY <1>2 DEF SpacedRuns
<1>6. \A p \in runs : p.copy.id = cur.id => p.scan \notin Working \ touched
  BY <1>2 DEF Alone, StillAlone
<1>7. q.copy = cur /\ q.scan = fresh
  OBVIOUS
<1> HIDE DEF q
<1>8. RunsShow'
  BY <1>1, <1>2, <1>3, <1>4, <1>5, <1>7 DEF Alone, RunsShow
<1>9. \A p \in runs : p.scan \in Working' <=> p.scan \in Working
  BY <1>4 DEF Working
<1>10. NoSelfOverlap'
  <2> SUFFICES ASSUME NEW p \in runs', NEW r \in runs',
                      p.copy.id = r.copy.id,
                      {p.scan, r.scan} \subseteq Working' \ touched'
               PROVE  p = r
    BY DEF NoSelfOverlap
  <2>1. CASE p \in runs /\ r \in runs
    BY <1>1, <1>9, <2>1 DEF Alone, NoSelfOverlap
  <2>2. CASE p \in runs /\ r = q
    BY <1>1, <1>6, <1>7, <1>9, <2>2
  <2>3. CASE p = q /\ r \in runs
    BY <1>1, <1>6, <1>7, <1>9, <2>3
  <2> QED
    BY <1>1, <2>1, <2>2, <2>3
<1> QED
  BY <1>2, <1>8, <1>10 DEF Alone, StillAlone

\* The loop's other steps.
LEMMA AloneLoop ==
  ASSUME TypeOK, SpacedRuns, ScansHaveOneStarter, Alone,
         \/ Poll \/ NextSchedule \/ LoadProject \/ DisableSchedule
         \/ CheckRunning \/ PostponeSchedule \/ LoadTargets
         \/ SaveScheduledScan \/ SaveRejected \/ CountScan
         \/ AdvanceSchedule \/ StartScheduledScan
  PROVE  Alone'
<1> USE DEF store, history
<1>p. /\ \A pc \in {"project", "disable", "scans", "postpone", "targets",
                     "save", "count", "advance", "launch"} : pc \in HoldsCopy
      /\ \A pc \in {"targets", "save", "count", "advance", "launch"} :
           pc \in Decided
      /\ \A pc \in {"disable", "scans", "next", "sleep"} : pc \notin Decided
      /\ \A pc \in {"next", "sleep"} : pc \notin HoldsCopy
  BY DEF HoldsCopy, HoldsScan, Decided
<1>1. CASE \/ LoadProject \/ DisableSchedule \/ PostponeSchedule \/ LoadTargets
           \/ SaveRejected \/ CountScan \/ AdvanceSchedule
  <2>1. /\ UNCHANGED <<runs, task, row, touched>>
        /\ batch' \subseteq batch
    BY <1>1 DEF LoadProject, DisableSchedule, PostponeSchedule, LoadTargets,
                SaveRejected, CountScan, AdvanceSchedule
  <2>2. /\ lpc' \in HoldsCopy => lpc \in HoldsCopy /\ cur' = cur
        /\ lpc' \in Decided => lpc \in Decided /\ cur' = cur
    BY <1>1, <1>p
    DEF LoadProject, DisableSchedule, PostponeSchedule, LoadTargets,
        SaveRejected, CountScan, AdvanceSchedule
  <2> QED
    BY <2>1, <2>2, AloneFrame DEF TasksGoOn
<1>2. CASE SaveScheduledScan
  <2>1. /\ UNCHANGED <<runs, task, touched, batch, cur>>
        /\ lpc = "save" /\ lpc' = "count"
    BY <1>2 DEF SaveScheduledScan
  <2>2. PICK x \in Scans : NewId(x) /\ row' = [row EXCEPT ![x] = "pending"]
    BY <1>2 DEF SaveScheduledScan
  <2>3. \A y \in Scans : row[y] = "running" => row'[y] = "running"
    BY <2>2 DEF NewId, TypeOK
  <2>4. \A p \in runs : p.scan \in Scans
    BY DEF TypeOK
  <2> QED
    BY <2>1, <2>3, <2>4, <1>p, AloneFrame DEF TasksGoOn
<1> QED
  BY <1>1, <1>2, AlonePoll, AloneNext, AloneCheck, AloneStart

\* Everybody else.
LEMMA AloneOthers ==
  ASSUME TypeOK, TypeOK', NothingRunsWhenDown, ScansHaveOneStarter, Alone,
         \/ \E x \in Scans : MarkRunning(x) \/ SaveProgress(x) \/ EndScan(x)
         \/ \E s \in Schedules :
              CheckNewSchedule(s) \/ SaveNewSchedule(s) \/ DeleteSchedule(s)
         \/ \E c \in Creators :
              \/ CheckNewScan(c) \/ SaveNewScan(c)
              \/ CountNewScan(c) \/ StartNewScan(c)
         \/ \E r \in Removals :
              \/ AcceptRemoval(r) \/ ListRows(r) \/ DropRow(r)
              \/ RowsDropped(r) \/ ResetProject(r) \/ DropTargets(r)
              \/ DropProject(r)
         \/ \E k \in Cancels : ReadForCancel(k) \/ CancelContinues(k)
         \/ EditTargets \/ Tick \/ Crash \/ Recover
         \/ UNCHANGED vars
  PROVE  Alone'
<1> USE DEF store, loop, history, creation, ending
<1>s. \A p \in runs : p.scan \in Scans
  BY DEF TypeOK
<1>f. ASSUME UNCHANGED <<runs, lpc, cur, batch>>, TasksGoOn,
             touched \subseteq touched',
             \A p \in runs :
               row[p.scan] = "running" /\ p.scan \notin touched'
                 /\ task'[p.scan] = "running" => row'[p.scan] = "running"
      PROVE  Alone'
  BY <1>f, AloneFrame
<1>1. ASSUME NEW x \in Scans, MarkRunning(x) \/ SaveProgress(x) \/ EndScan(x)
      PROVE  Alone'
  <2>1. UNCHANGED <<runs, lpc, cur, batch, touched>>
    BY <1>1 DEF MarkRunning, SaveProgress, EndScan
  <2>2. CASE MarkRunning(x)
    <3>1. \A y \in Scans :
            /\ y # x => task'[y] = task[y] /\ row'[y] = row[y]
            /\ y = x => \/ task'[y] = "ended"
                        \/ task[y] = "queued" /\ row'[y] = "running"
                             /\ task'[y] = "running"
      BY <2>2 DEF MarkRunning, Upsert, TypeOK
    <3> QED
      BY <2>1, <3>1, <1>s, <1>f DEF TasksGoOn
  <2>3. CASE SaveProgress(x)
    <3>1. \A y \in Scans :
            /\ task'[y] = task[y]
            /\ row'[y] = row[y] \/ row'[y] = "running"
      BY <2>3 DEF SaveProgress, Upsert, TypeOK
    <3> QED
      BY <2>1, <3>1, <1>s, <1>f DEF TasksGoOn
  <2>4. CASE EndScan(x)
    <3>1. \A y \in Scans :
            /\ y # x => task'[y] = task[y] /\ row'[y] = row[y]
            /\ y = x => task'[y] = "ended"
      BY <2>4 DEF EndScan, Upsert, TypeOK
    <3> QED
      BY <2>1, <3>1, <1>s, <1>f DEF TasksGoOn
  <2> QED
    BY <1>1, <2>2, <2>3, <2>4
<1>2. CASE \E s \in Schedules :
             CheckNewSchedule(s) \/ SaveNewSchedule(s) \/ DeleteSchedule(s)
  BY <1>2, <1>f
  DEF CheckNewSchedule, SaveNewSchedule, DeleteSchedule, TasksGoOn
<1>3. ASSUME NEW c \in Creators,
             \/ CheckNewScan(c) \/ SaveNewScan(c)
             \/ CountNewScan(c) \/ StartNewScan(c)
      PROVE  Alone'
  <2>1. UNCHANGED <<runs, lpc, cur, batch, touched>>
    BY <1>3 DEF CheckNewScan, SaveNewScan, CountNewScan, StartNewScan
  <2>2. CASE CheckNewScan(c) \/ CountNewScan(c)
    BY <2>1, <2>2, <1>f DEF CheckNewScan, CountNewScan, TasksGoOn
  <2>3. CASE SaveNewScan(c)
    <3>1. \A y \in Scans : row[y] = "running" => row'[y] = "running"
      BY <2>3 DEF SaveNewScan, NewId, TypeOK
    <3>2. UNCHANGED task
      BY <2>3 DEF SaveNewScan
    <3> QED
      BY <2>1, <3>1, <3>2, <1>s, <1>f DEF TasksGoOn
  <2>4. CASE StartNewScan(c)
    <3>1. UNCHANGED row /\ task' = [task EXCEPT ![cpc[c].scan] = "queued"]
      BY <2>4 DEF StartNewScan
    <3>2. \A p \in runs : task'[p.scan] = task[p.scan]
      BY <3>1, <1>s DEF ScansHaveOneStarter, TypeOK
    <3> QED
      BY <2>1, <3>1, <3>2, <1>f DEF TasksGoOn
  <2> QED
    BY <1>3, <2>2, <2>3, <2>4
<1>4. ASSUME NEW r \in Removals,
             \/ AcceptRemoval(r) \/ ListRows(r) \/ DropRow(r)
             \/ RowsDropped(r) \/ ResetProject(r) \/ DropTargets(r)
             \/ DropProject(r)
      PROVE  Alone'
  <2>1. UNCHANGED <<runs, lpc, cur, batch, task>>
    BY <1>4 DEF AcceptRemoval, ListRows, DropRow, RowsDropped, ResetProject,
                DropTargets, DropProject
  <2>2. /\ touched \subseteq touched'
        /\ \A x \in Scans : x \notin touched' => row'[x] = row[x]
    <3>1. CASE DropRow(r) \/ DropProject(r)
      BY <3>1 DEF DropRow, DropProject, Removed
    <3> QED
      BY <1>4, <3>1
      DEF AcceptRemoval, ListRows, RowsDropped, ResetProject, DropTargets
  <2> QED
    BY <2>1, <2>2, <1>s, <1>f DEF TasksGoOn
<1>5. CASE EditTargets \/ Tick \/ UNCHANGED vars
  BY <1>5, <1>f DEF EditTargets, Tick, vars, TasksGoOn
<1>6. CASE Crash
  <2>1. /\ UNCHANGED <<runs, row, touched>> /\ lpc' = "dead" /\ batch' = {}
        /\ \A x \in Scans : task'[x] \notin {"queued", "running"}
    BY <1>6 DEF Crash
  <2>2. "dead" \notin HoldsCopy /\ "dead" \notin Decided
    BY DEF HoldsCopy, HoldsScan, Decided
  <2> QED
    BY <2>1, <2>2, <1>s, AloneFrame DEF TasksGoOn
<1>7. CASE Recover
  <2>1. /\ UNCHANGED <<runs, task, touched, batch>> /\ lpc' = "sleep"
        /\ \A x \in Scans : task[x] # "running"
    BY <1>7 DEF Recover, NothingRunsWhenDown, Working
  <2>2. "sleep" \notin HoldsCopy /\ "sleep" \notin Decided
    BY DEF HoldsCopy, HoldsScan, Decided
  <2> QED
    BY <2>1, <2>2, <1>s, AloneFrame DEF TasksGoOn
<1>8. ASSUME NEW k \in Cancels, ReadForCancel(k) \/ CancelContinues(k)
      PROVE  Alone'
  <2>1. \A x \in Scans : x \notin touched' => row'[x] = row[x]
    BY <1>8, CancelEffect DEF TypeOK
  <2> QED
    BY <1>8, <2>1, <1>s, <1>f, CancelEffect DEF TasksGoOn
<1> QED
  BY <1>1, <1>2, <1>3, <1>4, <1>5, <1>6, <1>7, <1>8

\* launch_scheduled_scan never has two assessments of one schedule at work,
\* unless a request removed or cancelled the row of one, whose run_scan goes on.
\* Its check sees RUNNING rows only; what saves it otherwise is that a poll
\* holds a schedule once and the next poll comes after the runs of this one
\* are marked, and that no step but those requests takes the mark away.
THEOREM NeverOverlapsItself == Spec => []NoSelfOverlap
<1> DEFINE I == ScansHaveOneStarter /\ NothingRunsWhenDown /\ Alone
<1>1. Init => I
  <2> SUFFICES ASSUME Init PROVE I
    OBVIOUS
  <2>1. /\ lpc \notin HoldsScan /\ lpc \notin Decided
        /\ runs = {} /\ server # "down"
        /\ \A c \in Creators : cpc[c].scan \notin Scans
    BY ScheduleAssumption DEF Init, HoldsScan, Decided, NoScan
  <2> QED
    BY <2>1 DEF ScansHaveOneStarter, NothingRunsWhenDown, Alone, RunsShow,
                StillAlone, NoSelfOverlap
<1>2. TypeOK /\ TypeOK' /\ SpacedRuns /\ I /\ [Next]_vars => I'
  BY StepCases, StarterStep, DownStep, AloneLoop, AloneOthers
<1>3. I => NoSelfOverlap
  BY DEF Alone
<1> HIDE DEF I
<1> QED
  BY <1>1, <1>2, <1>3, TypeCorrect, SpacedAlways, PTL DEF Spec

-----------------------------------------------------------------------------
(* Nobody drops an accepted assessment.                                    *)

\* The foreign key: without the project row there is no row of an assessment.
RowsNeedProject ==
  ~project => \A x \in Scans : row[x] \in {"unborn", "gone"}

\* Only the project's own removal takes the project, and it takes the rows.
LEMMA RowsNeedProjectStep ==
  ASSUME TypeOK, RowsNeedProject, [Next]_vars
  PROVE  RowsNeedProject'
<1> USE DEF RowsNeedProject, store, loop, history, creation, ending
<1>f. ASSUME UNCHANGED project,
             \A x \in Scans :
               row'[x] = row[x] \/ row'[x] = "gone" \/ row[x] = "running" \/ project
      PROVE  RowsNeedProject'
  BY <1>f
<1>1. CASE \/ Poll \/ NextSchedule \/ LoadProject \/ DisableSchedule
           \/ CheckRunning \/ PostponeSchedule \/ LoadTargets
           \/ SaveRejected \/ AdvanceSchedule \/ StartScheduledScan
  BY <1>1, <1>f
  DEF Poll, NextSchedule, LoadProject, DisableSchedule, CheckRunning,
      PostponeSchedule, LoadTargets, SaveRejected, AdvanceSchedule,
      StartScheduledScan
<1>2. CASE SaveScheduledScan
  BY <1>2 DEF SaveScheduledScan
<1>3. CASE CountScan
  BY <1>3 DEF CountScan
<1>4. ASSUME NEW x \in Scans, MarkRunning(x) \/ SaveProgress(x) \/ EndScan(x)
      PROVE  RowsNeedProject'
  <2>1. UNCHANGED project /\ (~project => row' = row)
    BY <1>4 DEF MarkRunning, SaveProgress, EndScan, Upsert
  <2> QED
    BY <2>1
<1>5. CASE \E s \in Schedules :
             CheckNewSchedule(s) \/ SaveNewSchedule(s) \/ DeleteSchedule(s)
  BY <1>5, <1>f DEF CheckNewSchedule, SaveNewSchedule, DeleteSchedule
<1>6. ASSUME NEW c \in Creators,
             \/ CheckNewScan(c) \/ SaveNewScan(c)
             \/ CountNewScan(c) \/ StartNewScan(c)
      PROVE  RowsNeedProject'
  <2>1. project' \/ (~project /\ row' = row)
    BY <1>6 DEF CheckNewScan, SaveNewScan, CountNewScan, StartNewScan, TypeOK
  <2> QED
    BY <2>1
<1>7. ASSUME NEW r \in Removals,
             \/ AcceptRemoval(r) \/ ListRows(r) \/ DropRow(r)
             \/ RowsDropped(r) \/ ResetProject(r) \/ DropTargets(r)
             \/ DropProject(r)
      PROVE  RowsNeedProject'
  <2>1. CASE DropRow(r)
    BY <2>1, <1>f DEF DropRow, Removed
  <2>2. CASE DropProject(r)
    BY <2>2 DEF DropProject, Removed, Born
  <2>3. CASE ResetProject(r)
    BY <2>3 DEF ResetProject
  <2>4. CASE AcceptRemoval(r) \/ ListRows(r) \/ RowsDropped(r) \/ DropTargets(r)
    BY <2>4, <1>f DEF AcceptRemoval, ListRows, RowsDropped, DropTargets
  <2> QED
    BY <1>7, <2>1, <2>2, <2>3, <2>4
<1>8. CASE EditTargets \/ Tick \/ Crash \/ UNCHANGED vars
  BY <1>8, <1>f DEF EditTargets, Tick, Crash, vars
<1>9. CASE Recover
  BY <1>9, <1>f DEF Recover
<1>10. CASE \E k \in Cancels : ReadForCancel(k) \/ CancelContinues(k)
  BY <1>10, CancelEffect
<1> QED
  BY <1>1, <1>2, <1>3, <1>4, <1>5, <1>6, <1>7, <1>8, <1>9, <1>10, StepCases

\* A step after which the pending rows were pending and are held before.
LEMMA HeldFrame ==
  ASSUME AcceptedIsHeld, server' = "up" => server = "up",
         \A x \in Scans :
           row'[x] = "pending" => row[x] = "pending" /\ (Held(x) => Held(x)')
  PROVE  AcceptedIsHeld'
BY DEF AcceptedIsHeld

\* The scheduler holds what it saved up to the step that starts it.
LEMMA HeldLoop ==
  ASSUME TypeOK, AcceptedIsHeld,
         \/ Poll \/ NextSchedule \/ LoadProject \/ DisableSchedule
         \/ CheckRunning \/ PostponeSchedule \/ LoadTargets
         \/ SaveScheduledScan \/ SaveRejected \/ CountScan
         \/ AdvanceSchedule \/ StartScheduledScan
  PROVE  AcceptedIsHeld'
<1> USE DEF store, history, creation, Held
<1>p. /\ \A pc \in {"count", "advance", "launch"} : pc \in HoldsScan
      /\ \A pc \in {"sleep", "next", "project", "disable", "scans", "postpone",
                     "targets", "save"} : pc \notin HoldsScan
  BY DEF HoldsScan
<1>1. CASE \/ Poll \/ NextSchedule \/ LoadProject \/ DisableSchedule
           \/ CheckRunning \/ PostponeSchedule \/ LoadTargets \/ SaveRejected
  <2>1. UNCHANGED <<row, task, cpc, server>>
    BY <1>1 DEF Poll, NextSchedule, LoadProject, DisableSchedule, CheckRunning,
                PostponeSchedule, LoadTargets, SaveRejected
  <2>2. lpc \notin HoldsScan
    BY <1>1, <1>p
    DEF Poll, NextSchedule, LoadProject, DisableSchedule, CheckRunning,
        PostponeSchedule, LoadTargets, SaveRejected
  <2> QED
    BY <2>1, <2>2, HeldFrame
<1>2. CASE CountScan \/ AdvanceSchedule
  <2>1. UNCHANGED <<row, task, cpc, server, fresh>>
    BY <1>2 DEF CountScan, AdvanceSchedule
  <2>2. lpc' \in HoldsScan
    BY <1>2, <1>p DEF CountScan, AdvanceSchedule
  <2> QED
    BY <2>1, <2>2, HeldFrame
<1>3. CASE SaveScheduledScan
  <2>1. UNCHANGED <<task, cpc, server>> /\ lpc = "save" /\ lpc' = "count"
    BY <1>3 DEF SaveScheduledScan
  <2>2. PICK x \in Scans : fresh' = x /\ row' = [row EXCEPT ![x] = "pending"]
    BY <1>3 DEF SaveScheduledScan
  <2>3. ASSUME NEW y \in Scans, server' = "up", row'[y] = "pending"
        PROVE  Held(y)'
    <3>1. CASE y = x
      BY <1>p, <2>1, <2>2, <3>1
    <3>2. CASE y # x
      <4>1. row[y] = "pending"
        BY <2>2, <2>3, <3>2 DEF TypeOK
      <4>2. Held(y) /\ lpc \notin HoldsScan
        BY <1>p, <2>1, <2>3, <4>1 DEF AcceptedIsHeld
      <4> QED
        BY <2>1, <4>2
    <3> QED
      BY <3>1, <3>2
  <2> QED
    BY <2>3 DEF AcceptedIsHeld
<1>4. CASE StartScheduledScan
  <2>1. /\ UNCHANGED <<row, cpc, server>>
        /\ task' = [task EXCEPT ![fresh] = "queued"]
        /\ lpc = "launch"
    BY <1>4 DEF StartScheduledScan
  <2>2. \A y \in Scans :
          /\ y = fresh => task'[y] = "queued"
          /\ y # fresh => task'[y] = task[y]
    BY <2>1 DEF TypeOK
  <2> QED
    BY <2>1, <2>2, HeldFrame
<1> QED
  BY <1>1, <1>2, <1>3, <1>4

\* Everybody else: a run marks its row or has none, a creator starts what it
\* saved, and a removal or a cancel makes no row pending.
LEMMA HeldOthers ==
  ASSUME TypeOK, RowsNeedProject, AcceptedIsHeld,
         \/ \E x \in Scans : MarkRunning(x) \/ SaveProgress(x) \/ EndScan(x)
         \/ \E s \in Schedules :
              CheckNewSchedule(s) \/ SaveNewSchedule(s) \/ DeleteSchedule(s)
         \/ \E c \in Creators :
              \/ CheckNewScan(c) \/ SaveNewScan(c)
              \/ CountNewScan(c) \/ StartNewScan(c)
         \/ \E r \in Removals :
              \/ AcceptRemoval(r) \/ ListRows(r) \/ DropRow(r)
              \/ RowsDropped(r) \/ ResetProject(r) \/ DropTargets(r)
              \/ DropProject(r)
         \/ \E k \in Cancels : ReadForCancel(k) \/ CancelContinues(k)
         \/ EditTargets \/ Tick \/ Crash \/ Recover
         \/ UNCHANGED vars
  PROVE  AcceptedIsHeld'
<1> USE DEF store, loop, history, creation, ending, Held
<1>f. ASSUME UNCHANGED <<task, lpc, fresh, cpc, server>>,
             \A x \in Scans : row'[x] = "pending" => row[x] = "pending"
      PROVE  AcceptedIsHeld'
  BY <1>f, HeldFrame
<1>1. ASSUME NEW x \in Scans, MarkRunning(x) \/ SaveProgress(x) \/ EndScan(x)
      PROVE  AcceptedIsHeld'
  <2>1. UNCHANGED <<lpc, fresh, cpc, server>>
    BY <1>1 DEF MarkRunning, SaveProgress, EndScan
  <2>2. \A y \in Scans : y # x => task'[y] = task[y] /\ row'[y] = row[y]
    BY <1>1 DEF MarkRunning, SaveProgress, EndScan, Upsert, TypeOK
  <2>3. row'[x] # "pending"
    BY <1>1 DEF MarkRunning, SaveProgress, EndScan, Upsert, TypeOK,
                RowsNeedProject
  <2> QED
    BY <2>1, <2>2, <2>3, HeldFrame
<1>2. CASE \E s \in Schedules :
             CheckNewSchedule(s) \/ SaveNewSchedule(s) \/ DeleteSchedule(s)
  BY <1>2, <1>f DEF CheckNewSchedule, SaveNewSchedule, DeleteSchedule
<1>3. ASSUME NEW c \in Creators,
             \/ CheckNewScan(c) \/ SaveNewScan(c)
             \/ CountNewScan(c) \/ StartNewScan(c)
      PROVE  AcceptedIsHeld'
  <2>1. UNCHANGED <<lpc, fresh, server>>
    BY <1>3 DEF CheckNewScan, SaveNewScan, CountNewScan, StartNewScan
  <2>c. \A d \in Creators : d # c => cpc'[d] = cpc[d]
    BY <1>3 DEF CheckNewScan, SaveNewScan, CountNewScan, StartNewScan, At, TypeOK
  <2>2. CASE CheckNewScan(c)
    <3>1. UNCHANGED <<row, task>> /\ cpc[c].at = "idle"
      BY <2>2 DEF CheckNewScan
    <3> QED
      BY <2>1, <2>c, <3>1, HeldFrame
  <2>3. CASE SaveNewScan(c)
    <3>1. UNCHANGED task /\ cpc[c].at = "save"
      BY <2>3 DEF SaveNewScan
    <3>2. ASSUME NEW y \in Scans, row[y] = "pending", server' = "up"
          PROVE  Held(y)'
      BY <2>1, <2>c, <3>1, <3>2 DEF AcceptedIsHeld
    <3>3. CASE ~project
      <4>1. UNCHANGED row
        BY <2>3, <3>3 DEF SaveNewScan
      <4> QED
        BY <3>2, <4>1 DEF AcceptedIsHeld
    <3>4. CASE project
      <4>1. PICK x \in Scans :
              /\ row' = [row EXCEPT ![x] = "pending"]
              /\ cpc' = [cpc EXCEPT ![c] = [at |-> "count", scan |-> x]]
        BY <2>3, <3>4 DEF SaveNewScan
      <4>2. Held(x)'
        BY <4>1 DEF TypeOK
      <4>3. \A y \in Scans : row'[y] = "pending" => y = x \/ row[y] = "pending"
        BY <4>1 DEF TypeOK
      <4> QED
        BY <3>2, <4>2, <4>3 DEF AcceptedIsHeld
    <3> QED
      BY <3>3, <3>4
  <2>4. CASE CountNewScan(c)
    <3>1. /\ UNCHANGED <<row, task>>
          /\ cpc'[c].scan = cpc[c].scan /\ cpc'[c].at = "launch"
      BY <2>4 DEF CountNewScan, At, TypeOK
    <3> QED
      BY <2>1, <2>c, <3>1, HeldFrame
  <2>5. CASE StartNewScan(c)
    <3>1. UNCHANGED row /\ task' = [task EXCEPT ![cpc[c].scan] = "queued"]
      BY <2>5 DEF StartNewScan
    <3>2. \A y \in Scans : /\ y = cpc[c].scan => task'[y] = "queued"
                           /\ y # cpc[c].scan => task'[y] = task[y]
      BY <3>1 DEF TypeOK
    <3> QED
      BY <2>1, <2>c, <3>1, <3>2, HeldFrame
  <2> QED
    BY <1>3, <2>2, <2>3, <2>4, <2>5
<1>4. ASSUME NEW r \in Removals,
             \/ AcceptRemoval(r) \/ ListRows(r) \/ DropRow(r)
             \/ RowsDropped(r) \/ ResetProject(r) \/ DropTargets(r)
             \/ DropProject(r)
      PROVE  AcceptedIsHeld'
  <2>1. UNCHANGED <<task, lpc, fresh, cpc, server>>
    BY <1>4 DEF AcceptRemoval, ListRows, DropRow, RowsDropped, ResetProject,
                DropTargets, DropProject
  <2>2. \A x \in Scans : row'[x] = "pending" => row[x] = "pending"
    BY <1>4 DEF AcceptRemoval, ListRows, DropRow, RowsDropped, ResetProject,
                DropTargets, DropProject, Removed
  <2> QED
    BY <2>1, <2>2, <1>f
<1>5. CASE EditTargets \/ Tick \/ UNCHANGED vars
  BY <1>5, <1>f DEF EditTargets, Tick, vars
<1>6. CASE Crash \/ Recover
  BY <1>6 DEF Crash, Recover, AcceptedIsHeld
<1>7. ASSUME NEW k \in Cancels, ReadForCancel(k) \/ CancelContinues(k)
      PROVE  AcceptedIsHeld'
  <2>1. \A x \in Scans : row'[x] = "pending" => row[x] = "pending"
    BY <1>7, CancelEffect DEF TypeOK
  <2> QED
    BY <1>7, <2>1, <1>f, CancelEffect
<1> QED
  BY <1>1, <1>2, <1>3, <1>4, <1>5, <1>6, <1>7

\* Until the process dies, an assessment displayed as pending has a queued
\* run_scan, or launch_scheduled_scan or create_scan is about to queue it,
\* whatever is deleted meanwhile.
THEOREM AcceptedAlwaysHeld == Spec => []AcceptedIsHeld
<1>1. Init => RowsNeedProject /\ AcceptedIsHeld
  BY DEF Init, RowsNeedProject, AcceptedIsHeld
<1>2. TypeOK /\ RowsNeedProject /\ AcceptedIsHeld /\ [Next]_vars
        => RowsNeedProject' /\ AcceptedIsHeld'
  BY StepCases, RowsNeedProjectStep, HeldLoop, HeldOthers
<1> QED
  BY <1>1, <1>2, TypeCorrect, PTL DEF Spec
=============================================================================
