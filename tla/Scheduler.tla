----------------------------- MODULE Scheduler -----------------------------
(***************************************************************************)
(* Unattended assessments of one program: the polling loop of              *)
(* backend/scheduler.py, the schedule endpoints of backend/api/control.py, *)
(* manual creation and cancel (backend/api/scans.py), clear and delete of  *)
(* the program (backend/api/projects.py) and the restart (backend/main.py).*)
(*                                                                         *)
(* A step is the code between two storage calls.  run_scan is reduced to   *)
(* what the others see of it: it marks its row RUNNING, saves its record   *)
(* over the row at every progress event, and ends it.  A cancel is reduced *)
(* to its two saves of the row: run_scan notices it whenever it does.      *)
(* ScanEngine and ScanRequests have the rest of both.                      *)
(*                                                                         *)
(* Time counts in units of fifteen minutes, the shortest interval and the  *)
(* length of a postponement.                                               *)
(***************************************************************************)
EXTENDS Integers, FiniteSets

CONSTANTS
  Schedules,   \* schedule ids the operator may create
  Scans,       \* assessment ids, numbered in the order they are drawn
  Interval,    \* interval_minutes, in time units
  Creators,    \* POST /scans/
  Removals,    \* POST /projects/{id}/clear and DELETE /projects/{id}
  Cancels,     \* POST /scans/{id}/cancel
  Horizon      \* bound: the clock stops here

\* interval_minutes has ge=15.
ASSUME ScheduleAssumption ==
  /\ Interval \in Nat \ {0}
  /\ Horizon \in Nat
  /\ Scans \subseteq Nat

Postponement == 1

VARIABLES
  now,       \* utc_now()
  project,   \* whether the project row exists
  targets,   \* whether it has an in-scope target
  sched,     \* the stored schedule records
  row,       \* the status column of each assessment
  task,      \* its run_scan coroutine
  lpc,       \* where scheduler_loop is
  batch,     \* due schedules of this poll that are still to be looked at
  cur,       \* the copy launch_scheduled_scan works on
  fresh,     \* the Scan it creates
  runs,      \* history: every run_scan the scheduler started
  touched,   \* history: assessments whose row a request removed or cancelled
  cpc,       \* where each manual creation is, with its Scan
  rpc,       \* where each clear or delete is
  victims,   \* rows it still has to delete
  kpc,       \* where each cancel is, with the Scan it loaded
  server     \* "up", "down" after a crash, "recovered"

loop == <<lpc, batch, cur, fresh>>
history == <<runs, touched>>
creation == <<cpc>>
ending == <<rpc, victims, kpc>>
store == <<project, targets, sched, row>>

vars == <<now, store, task, loop, history, creation, ending, server>>

-----------------------------------------------------------------------------
(* Records.                                                                *)

\* Whether the record exists, next_run_at and enabled; everything else of a
\* schedule is parameters.
Schedule ==
  [is : {"unborn", "checked", "stored", "deleted"}, enabled : BOOLEAN, next : Nat]

Absent(state) == [is |-> state, enabled |-> FALSE, next |-> 0]

Due(s) == sched[s].enabled /\ sched[s].next <= now

\* The copy list_control_records returned: it is never read again.
Copy == [id : Schedules, due : Nat]

\* save_control_record upserts the whole copy.
SaveSchedule(s, enabled, next) ==
  sched' = [sched EXCEPT ![s] =
              [is |-> "stored", enabled |-> enabled, next |-> next]]

NoCopy == [id |-> "none", due |-> 0]

NoScan == -1

RowStatus == {"unborn", "pending", "running", "over", "gone"}

TaskState == {"none", "queued", "running", "ended", "dead"}

\* Scan.id is a uuid4: every new assessment has an id of its own.
NewId(x) == row[x] = "unborn" /\ \A y \in Scans : y < x => row[y] # "unborn"

LoopPC ==
  {"sleep", "next", "project", "disable", "scans", "postpone", "targets",
   "save", "count", "advance", "launch", "dead"}

HoldsScan == {"count", "advance", "launch"}

HoldsCopy ==
  {"project", "disable", "scans", "postpone", "targets", "save"} \cup HoldsScan

RemovalPC ==
  {"idle", "list", "drop", "reset", "droptargets", "dropproject", "done", "cut"}

CreationPC == {"idle", "save", "count", "launch", "done", "cut"}

CancelPC == {"idle", "mark", "unmark", "done"}

TypeOK ==
  /\ now \in 0 .. Horizon
  /\ project \in BOOLEAN
  /\ targets \in BOOLEAN
  /\ sched \in [Schedules -> Schedule]
  /\ row \in [Scans -> RowStatus]
  /\ task \in [Scans -> TaskState]
  /\ lpc \in LoopPC
  /\ batch \subseteq Copy
  /\ cur \in Copy \cup {NoCopy}
  /\ fresh \in Scans \cup {NoScan}
  /\ runs \subseteq [copy : Copy, scan : Scans]
  /\ touched \subseteq Scans
  /\ cpc \in [Creators -> [at : CreationPC, scan : Scans \cup {NoScan}]]
  /\ rpc \in [Removals -> RemovalPC]
  /\ victims \in [Removals -> SUBSET Scans]
  /\ kpc \in [Cancels -> [at : CancelPC, scan : Scans \cup {NoScan}]]
  /\ server \in {"up", "down", "recovered"}
  /\ lpc \in HoldsCopy => cur \in Copy
  /\ lpc \in HoldsScan <=> fresh \in Scans
  /\ lpc \in {"sleep", "dead"} => batch = {}
  /\ server = "down" => lpc = "dead"
  /\ \A k \in Cancels : kpc[k].at \in {"mark", "unmark"} => kpc[k].scan \in Scans

Init ==
  /\ now = 0
  /\ project = TRUE
  /\ targets = TRUE
  /\ sched = [s \in Schedules |-> Absent("unborn")]
  /\ row = [x \in Scans |-> "unborn"]
  /\ task = [x \in Scans |-> "none"]
  /\ lpc = "sleep"
  /\ batch = {}
  /\ cur = NoCopy
  /\ fresh = NoScan
  /\ runs = {}
  /\ touched = {}
  /\ cpc = [c \in Creators |-> [at |-> "idle", scan |-> NoScan]]
  /\ rpc = [r \in Removals |-> "idle"]
  /\ victims = [r \in Removals |-> {}]
  /\ kpc = [k \in Cancels |-> [at |-> "idle", scan |-> NoScan]]
  /\ server = "up"

-----------------------------------------------------------------------------
(* scheduler_loop and launch_scheduled_scan.                               *)

\* sleep(60) between two polls outlasts the storage calls with which a
\* run_scan started by the previous poll marks its row.
PreviousRunsMarked == \A p \in runs : task[p.scan] # "queued"

\* A poll loads all records and filters them with one clock reading.
Poll ==
  /\ lpc = "sleep"
  /\ PreviousRunsMarked
  /\ batch' = {[id |-> s, due |-> sched[s].next] : s \in {t \in Schedules : Due(t)}}
  /\ lpc' = "next"
  /\ UNCHANGED <<now, store, task, cur, fresh, history, creation, ending, server>>

NextSchedule ==
  /\ lpc = "next"
  /\ IF batch = {}
       THEN lpc' = "sleep" /\ cur' = NoCopy /\ UNCHANGED batch
       ELSE \E c \in batch :
              /\ cur' = c
              /\ batch' = batch \ {c}
              /\ lpc' = "project"
  /\ UNCHANGED <<now, store, task, fresh, history, creation, ending, server>>

LoadProject ==
  /\ lpc = "project"
  /\ lpc' = IF project THEN "scans" ELSE "disable"
  /\ UNCHANGED <<now, store, task, batch, cur, fresh, history, creation,
                 ending, server>>

\* Mutant: returns without saving.
DisableNothing ==
  /\ lpc = "disable"
  /\ lpc' = "next"
  /\ UNCHANGED <<now, store, task, batch, cur, fresh, history, creation,
                 ending, server>>

DisableSchedule ==
  /\ lpc = "disable"
  /\ SaveSchedule(cur.id, FALSE, cur.due)
  /\ lpc' = "next"
  /\ UNCHANGED <<now, project, targets, row, task, batch, cur, fresh, history,
                 creation, ending, server>>

\* Mutant: the running check is missing.
CheckNothing ==
  /\ lpc = "scans"
  /\ lpc' = "targets"
  /\ UNCHANGED <<now, store, task, batch, cur, fresh, history, creation,
                 ending, server>>

\* Only RUNNING rows count.
CheckRunning ==
  /\ lpc = "scans"
  /\ lpc' = IF \E x \in Scans : row[x] = "running" THEN "postpone" ELSE "targets"
  /\ UNCHANGED <<now, store, task, batch, cur, fresh, history, creation,
                 ending, server>>

PostponeSchedule ==
  /\ lpc = "postpone"
  /\ SaveSchedule(cur.id, TRUE, now + Postponement)
  /\ lpc' = "next"
  /\ UNCHANGED <<now, project, targets, row, task, batch, cur, fresh, history,
                 creation, ending, server>>

\* Without an in-scope target the schedule stays due.
LoadTargets ==
  /\ lpc = "targets"
  /\ lpc' = IF targets THEN "save" ELSE "next"
  /\ UNCHANGED <<now, store, task, batch, cur, fresh, history, creation,
                 ending, server>>

\* Mutant: the coroutine is started before the schedule is advanced.
SaveScanAndStart ==
  /\ lpc = "save"
  /\ project
  /\ \E x \in Scans :
       /\ NewId(x)
       /\ fresh' = x
       /\ row' = [row EXCEPT ![x] = "pending"]
       /\ task' = [task EXCEPT ![x] = "queued"]
       /\ runs' = runs \cup {[copy |-> cur, scan |-> x]}
  /\ lpc' = "count"
  /\ UNCHANGED <<now, project, targets, sched, batch, cur, touched, creation,
                 ending, server>>

\* A fresh assessment; the foreign key rejects it when the project is gone,
\* which abandons the rest of the poll (SaveRejected).
SaveScheduledScan ==
  /\ lpc = "save"
  /\ project
  /\ \E x \in Scans :
       /\ NewId(x)
       /\ fresh' = x
       /\ row' = [row EXCEPT ![x] = "pending"]
  /\ lpc' = "count"
  /\ UNCHANGED <<now, project, targets, sched, task, batch, cur, history,
                 creation, ending, server>>

SaveRejected ==
  /\ lpc = "save"
  /\ ~project
  /\ lpc' = "sleep"
  /\ batch' = {}
  /\ cur' = NoCopy
  /\ UNCHANGED <<now, store, task, fresh, history, creation, ending, server>>

\* scan_count += 1 on the loaded project: an upsert, which brings back a
\* project that was deleted in between.
CountScan ==
  /\ lpc = "count"
  /\ project' = TRUE
  /\ lpc' = "advance"
  /\ UNCHANGED <<now, targets, sched, row, task, batch, cur, fresh, history,
                 creation, ending, server>>

AdvanceSchedule ==
  /\ lpc = "advance"
  /\ SaveSchedule(cur.id, TRUE, now + Interval)
  /\ lpc' = "launch"
  /\ UNCHANGED <<now, project, targets, row, task, batch, cur, fresh, history,
                 creation, ending, server>>

\* Mutant: a schedule that was deleted meanwhile no longer starts its scan.
StartIfStillWanted ==
  /\ lpc = "launch"
  /\ IF sched[cur.id].is = "deleted"
       THEN UNCHANGED <<task, runs>>
       ELSE /\ task' = [task EXCEPT ![fresh] = "queued"]
            /\ runs' = runs \cup {[copy |-> cur, scan |-> fresh]}
  /\ fresh' = NoScan
  /\ lpc' = "next"
  /\ UNCHANGED <<now, store, batch, cur, touched, creation, ending, server>>

\* The audit record is saved and run_scan becomes a task.
StartScheduledScan ==
  /\ lpc = "launch"
  /\ task' = [task EXCEPT ![fresh] = "queued"]
  /\ runs' = runs \cup {[copy |-> cur, scan |-> fresh]}
  /\ fresh' = NoScan
  /\ lpc' = "next"
  /\ UNCHANGED <<now, store, batch, cur, touched, creation, ending, server>>

LoopContinues ==
  \/ NextSchedule \/ LoadProject \/ DisableSchedule \/ CheckRunning
  \/ PostponeSchedule \/ LoadTargets \/ SaveScheduledScan \/ SaveRejected
  \/ CountScan \/ AdvanceSchedule \/ StartScheduledScan

-----------------------------------------------------------------------------
(* run_scan, as the others see it.                                         *)

\* A row is inserted or replaced if the project exists, else the save raises.
Upsert(x, status) ==
  row' = IF project THEN [row EXCEPT ![x] = status] ELSE row

\* The first save is outside the try block: rejected, the coroutine ends.
MarkRunning(x) ==
  /\ task[x] = "queued"
  /\ Upsert(x, "running")
  /\ task' = [task EXCEPT ![x] = IF project THEN "running" ELSE "ended"]
  /\ UNCHANGED <<now, project, targets, sched, loop, history, creation,
                 ending, server>>

\* _emit saves the record it holds; a rejected save is logged.
SaveProgress(x) ==
  /\ task[x] = "running"
  /\ row[x] # "running"
  /\ Upsert(x, "running")
  /\ UNCHANGED <<now, project, targets, sched, task, loop, history, creation,
                 ending, server>>

EndScan(x) ==
  /\ task[x] = "running"
  /\ Upsert(x, "over")
  /\ task' = [task EXCEPT ![x] = "ended"]
  /\ UNCHANGED <<now, project, targets, sched, loop, history, creation,
                 ending, server>>

-----------------------------------------------------------------------------
(* The requests.                                                           *)

\* create_schedule looks for the project, then saves.
CheckNewSchedule(s) ==
  /\ sched[s].is = "unborn"
  /\ project
  /\ sched' = [sched EXCEPT ![s] = Absent("checked")]
  /\ UNCHANGED <<now, project, targets, row, task, loop, history, creation,
                 ending, server>>

\* Mutant: the first run is computed backwards.
SaveNewScheduleInThePast(s) ==
  /\ sched[s].is = "checked"
  /\ SaveSchedule(s, TRUE, now - Interval)
  /\ UNCHANGED <<now, project, targets, row, task, loop, history, creation,
                 ending, server>>

SaveNewSchedule(s) ==
  /\ sched[s].is = "checked"
  /\ SaveSchedule(s, TRUE, now + Interval)
  /\ UNCHANGED <<now, project, targets, row, task, loop, history, creation,
                 ending, server>>

DeleteSchedule(s) ==
  /\ sched[s].is = "stored"
  /\ sched' = [sched EXCEPT ![s] = Absent("deleted")]
  /\ UNCHANGED <<now, project, targets, row, task, loop, history, creation,
                 ending, server>>

At(c, pc) == cpc' = [cpc EXCEPT ![c].at = pc]

\* create_scan: no look at other assessments.
CheckNewScan(c) ==
  /\ cpc[c].at = "idle"
  /\ project
  /\ targets
  /\ At(c, "save")
  /\ UNCHANGED <<now, store, task, loop, history, ending, server>>

SaveNewScan(c) ==
  /\ cpc[c].at = "save"
  /\ IF project
       THEN \E x \in Scans :
              /\ NewId(x)
              /\ row' = [row EXCEPT ![x] = "pending"]
              /\ cpc' = [cpc EXCEPT ![c] = [at |-> "count", scan |-> x]]
       ELSE At(c, "done") /\ UNCHANGED row
  /\ UNCHANGED <<now, project, targets, sched, task, loop, history, ending,
                 server>>

CountNewScan(c) ==
  /\ cpc[c].at = "count"
  /\ project' = TRUE
  /\ At(c, "launch")
  /\ UNCHANGED <<now, targets, sched, row, task, loop, history, ending, server>>

StartNewScan(c) ==
  /\ cpc[c].at = "launch"
  /\ task' = [task EXCEPT ![cpc[c].scan] = "queued"]
  /\ At(c, "done")
  /\ UNCHANGED <<now, store, loop, history, ending, server>>

CreationContinues(c) == SaveNewScan(c) \/ CountNewScan(c) \/ StartNewScan(c)

Goto(r, pc) == rpc' = [rpc EXCEPT ![r] = pc]

AcceptRemoval(r) ==
  /\ rpc[r] = "idle"
  /\ project
  /\ Goto(r, "list")
  /\ UNCHANGED <<now, store, task, loop, history, creation, victims, kpc,
                 server>>

ListRows(r) ==
  /\ rpc[r] = "list"
  /\ victims' = [victims EXCEPT ![r] = {x \in Scans : row[x] \notin {"unborn", "gone"}}]
  /\ Goto(r, "drop")
  /\ UNCHANGED <<now, store, task, loop, history, creation, kpc, server>>

Born == {x \in Scans : row[x] # "unborn"}

Removed(rows) == [x \in Scans |-> IF x \in rows THEN "gone" ELSE row[x]]

\* terminate_scan kills subprocesses, never the run_scan task.
DropRow(r) ==
  /\ rpc[r] = "drop"
  /\ \E x \in victims[r] :
       /\ victims' = [victims EXCEPT ![r] = @ \ {x}]
       /\ row' = Removed({x})
       /\ touched' = touched \cup {x}
  /\ UNCHANGED <<now, project, targets, sched, task, loop, runs, creation, rpc, kpc,
                 server>>

\* Up to here a clear and a delete are the same.
RowsDropped(r) ==
  /\ rpc[r] = "drop"
  /\ victims[r] = {}
  /\ \E pc \in {"reset", "droptargets"} : Goto(r, pc)
  /\ UNCHANGED <<now, store, task, loop, history, creation, victims, kpc,
                 server>>

\* A clear saves the project it loaded: an upsert.
ResetProject(r) ==
  /\ rpc[r] = "reset"
  /\ project' = TRUE
  /\ Goto(r, "done")
  /\ UNCHANGED <<now, targets, sched, row, task, loop, history, creation,
                 victims, kpc, server>>

DropTargets(r) ==
  /\ rpc[r] = "droptargets"
  /\ targets' = FALSE
  /\ Goto(r, "dropproject")
  /\ UNCHANGED <<now, project, sched, row, task, loop, history, creation,
                 victims, kpc, server>>

\* The rows and targets that appeared since the listings go with the
\* project; schedules have no foreign key.
DropProject(r) ==
  /\ rpc[r] = "dropproject"
  /\ project' = FALSE
  /\ targets' = FALSE
  /\ row' = Removed(Born)
  /\ touched' = touched \cup Born
  /\ Goto(r, "done")
  /\ UNCHANGED <<now, sched, task, loop, runs, creation, victims, kpc, server>>

RemovalContinues(r) ==
  \/ ListRows(r) \/ DropRow(r) \/ RowsDropped(r)
  \/ ResetProject(r) \/ DropTargets(r) \/ DropProject(r)

\* _cancel: refused unless the row says RUNNING.
ReadForCancel(k) ==
  /\ kpc[k].at = "idle"
  /\ \E x \in Scans :
       /\ row[x] = "running"
       /\ kpc' = [kpc EXCEPT ![k] = [at |-> "mark", scan |-> x]]
  /\ UNCHANGED <<now, store, task, loop, history, creation, rpc, victims, server>>

Answered == [at |-> "done", scan |-> NoScan]

\* CANCELLED is a status of those that are over, whatever run_scan still does.
MarkCancelled(k) ==
  /\ kpc[k].at = "mark"
  /\ Upsert(kpc[k].scan, "over")
  /\ touched' = touched \cup {kpc[k].scan}
  /\ kpc' = [kpc EXCEPT ![k] = IF project THEN [@ EXCEPT !.at = "unmark"] ELSE Answered]
  /\ UNCHANGED <<now, project, targets, sched, task, loop, runs, creation, rpc,
                 victims, server>>

\* The same copy is saved once more when the processes and results are gone.
CancelDropsProgress(k) ==
  /\ kpc[k].at = "unmark"
  /\ Upsert(kpc[k].scan, "over")
  /\ touched' = touched \cup {kpc[k].scan}
  /\ kpc' = [kpc EXCEPT ![k] = Answered]
  /\ UNCHANGED <<now, project, targets, sched, task, loop, runs, creation, rpc,
                 victims, server>>

CancelContinues(k) == MarkCancelled(k) \/ CancelDropsProgress(k)

\* add_target and delete_target: the last in-scope target comes and goes.
EditTargets ==
  /\ project
  /\ targets' = ~targets
  /\ UNCHANGED <<now, project, sched, row, task, loop, history, creation,
                 ending, server>>

-----------------------------------------------------------------------------
(* Time, crash and restart.                                                *)

Tick ==
  /\ now < Horizon
  /\ now' = now + 1
  /\ UNCHANGED <<store, task, loop, history, creation, ending, server>>

Crash ==
  /\ server = "up"
  /\ server' = "down"
  /\ task' = [x \in Scans |->
                IF task[x] \in {"queued", "running"} THEN "dead" ELSE task[x]]
  /\ lpc' = "dead"
  /\ batch' = {}
  /\ cur' = NoCopy
  /\ fresh' = NoScan
  /\ sched' = [s \in Schedules |-> IF sched[s].is = "checked" THEN Absent("unborn")
                                   ELSE sched[s]]
  /\ cpc' = [c \in Creators |-> IF cpc[c].at = "idle" THEN cpc[c]
                                 ELSE [at |-> "cut", scan |-> NoScan]]
  /\ rpc' = [r \in Removals |-> IF rpc[r] = "idle" THEN "idle" ELSE "cut"]
  /\ victims' = [r \in Removals |-> {}]
  /\ kpc' = [k \in Cancels |-> IF kpc[k].at = "idle" THEN kpc[k] ELSE Answered]
  /\ UNCHANGED <<now, project, targets, row, history>>

\* Startup marks the RUNNING rows, then starts the loop.
Recover ==
  /\ server = "down"
  /\ server' = "recovered"
  /\ row' = [x \in Scans |-> IF row[x] = "running" THEN "over" ELSE row[x]]
  /\ lpc' = "sleep"
  /\ UNCHANGED <<now, project, targets, sched, task, batch, cur, fresh, history,
                 creation, ending>>

-----------------------------------------------------------------------------
Serving ==
  \/ Poll
  \/ LoopContinues
  \/ \E x \in Scans : MarkRunning(x) \/ SaveProgress(x) \/ EndScan(x)
  \/ \E s \in Schedules :
       CheckNewSchedule(s) \/ SaveNewSchedule(s) \/ DeleteSchedule(s)
  \/ \E c \in Creators : CheckNewScan(c) \/ CreationContinues(c)
  \/ \E r \in Removals : AcceptRemoval(r) \/ RemovalContinues(r)
  \/ \E k \in Cancels : ReadForCancel(k) \/ CancelContinues(k)
  \/ EditTargets

Next ==
  \/ server # "down" /\ Serving
  \/ Tick
  \/ Crash
  \/ Recover

\* What has been accepted or started goes on until it is finished.
Work ==
  \/ \E x \in Scans : MarkRunning(x) \/ EndScan(x)
  \/ \E c \in Creators : CreationContinues(c)
  \/ \E r \in Removals : RemovalContinues(r)
  \/ \E k \in Cancels : CancelContinues(k)

(***************************************************************************)
(* The event loop starves neither the scheduler, which never stops, nor    *)
(* the rest, which is finite.  The operator need not do anything, and      *)
(* nothing has to crash.                                                   *)
(***************************************************************************)
Fairness ==
  /\ WF_vars(server # "down" /\ (Poll \/ LoopContinues))
  /\ WF_vars(server # "down" /\ Work)
  /\ WF_vars(Recover)

Spec == Init /\ [][Next]_vars /\ Fairness

-----------------------------------------------------------------------------
(* Properties.                                                             *)

\* launch_scheduled_scan saves the assessment, then the schedule, then starts
\* the coroutine: wherever a crash falls between them, two runs of one
\* schedule are due at least an interval apart.
RunsAnIntervalApart ==
  \A p, q \in runs :
    p.copy.id = q.copy.id /\ p # q =>
      \/ p.copy.due + Interval <= q.copy.due
      \/ q.copy.due + Interval <= p.copy.due

Created(s) == sched[s].is \in {"stored", "deleted"}

\* The inductive invariant behind it: whatever a future launch can start
\* from - the stored record, a copy of this poll, the copy in hand - is due
\* an interval after every run, and no schedule is in the poll twice.
SpacedRuns ==
  /\ RunsAnIntervalApart
  /\ \A p \in runs :
       /\ Created(p.copy.id)
       /\ sched[p.copy.id].is = "stored" =>
            p.copy.due + Interval <= sched[p.copy.id].next
       /\ \A c \in batch :
            c.id = p.copy.id => p.copy.due + Interval <= c.due
       /\ lpc \in HoldsCopy /\ cur.id = p.copy.id =>
            p.copy.due + Interval <= cur.due
  /\ \A c \in batch : c.due <= now /\ Created(c.id)
  /\ \A c, d \in batch : c.id = d.id => c = d
  /\ lpc \in HoldsCopy =>
       /\ cur.due <= now
       /\ Created(cur.id)
       /\ \A c \in batch : c.id # cur.id
  /\ lpc = "launch" /\ sched[cur.id].is = "stored" =>
       cur.due + Interval <= sched[cur.id].next
  /\ \A s \in Schedules : sched[s].enabled => sched[s].is = "stored"

Working == {x \in Scans : task[x] \in {"queued", "running"}}

\* A schedule never works on two assessments at once, unless a request removed
\* or cancelled one of them: a cancelled row no longer counts, although its
\* run_scan works on until it notices.  In particular the saves of progress,
\* a manual creation, a second poll or a restart do not let two runs overlap.
NoSelfOverlap ==
  \A p, q \in runs :
    /\ p.copy.id = q.copy.id
    /\ {p.scan, q.scan} \subseteq Working \ touched
    => p = q

\* An assessment that was accepted, by the scheduler or by a request, is run
\* unless the process dies or the row is removed first.
AcceptedIsRun ==
  \A x \in Scans :
    row[x] = "pending" /\ server = "up" ~> row[x] # "pending" \/ server # "up"

\* Whoever still holds the assessment and will make it a task, or has.
Held(x) ==
  \/ task[x] = "queued"
  \/ lpc \in HoldsScan /\ fresh = x
  \/ \E c \in Creators : cpc[c].scan = x /\ cpc[c].at \in {"count", "launch"}

\* The safety side of AcceptedIsRun: no step drops the last hold on an
\* assessment that is displayed as pending.  A schedule deleted under the poll
\* does not, nor a project deleted and brought back, nor a rejected first save.
AcceptedIsHeld ==
  server = "up" => \A x \in Scans : row[x] = "pending" => Held(x)

\* A due schedule is looked at again and again until it was launched,
\* postponed or, with its project gone, disabled.
DueIsServed ==
  \A s \in Schedules :
    Due(s) /\ (project => targets) ~> ~Due(s) \/ (project /\ ~targets)

\* "Launch a due schedule unless its project already has an active scan"
\* (scheduler.py).
LaunchedOnlyWhenIdle ==
  [][lpc = "save" /\ lpc' = "count" =>
       \A x \in Working : row[x] \notin {"pending", "running"}]_vars

=============================================================================
