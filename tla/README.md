# ShadowGrid: specification and proofs

A TLA+ development of the parts of ShadowGrid that are hard to test: the assessment
engine and everything that runs against it on the same event loop, and the records,
files and snapshots that several requests, processes and restarts share. TLC checks the
modules on small instances; TLAPS proves the main safety results for every value of
the constants. `PROJECT.json` ties every definition to the source lines it stands for.

    tlc -workers 2 -config MCClear.cfg MCScanLifecycle     # check one instance
    tlc -workers 2 -config MCPlatform.cfg MCPlatform        # the components beside the engine
    tlapm HandoffsProofs.tla                                # check one proof module

## 1. The system

ShadowGrid is a FastAPI process with one asyncio event loop, a SQLite database, a
workspace directory per assessment, external scanners as subprocesses, and an Angular
single-page frontend. Concurrency is cooperative: what runs between two awaits is
atomic, and every storage call is an await after which the world may have changed.
Storage is one SQLite transaction per call; no operation spans two calls. All writes
of records are upserts of whole JSON payloads, so the last writer wins with whatever
copy it loaded earlier. Most of what is hard here follows from that.

| component | state | operations | talks to |
|---|---|---|---|
| Assessment engine (`backend/scan_engine.py`) | the `Scan` object of the run, per-phase results, hand-off files, `_tool_semaphore`, `_reuse_maps`, `_progress_queues` | `run_scan`, `_run_phase`, `_run_tool`, `_emit`, `_scan_cancelled` | storage, tool runner, notifications, progress stream |
| Scan requests (`backend/api/scans.py`) | none of their own | create, retry-failed, cancel, list, progress stream | engine (through the row only), process registry |
| Program requests (`backend/api/projects.py`) | none | create, update, delete, clear, targets | storage, process registry |
| Process registry (`backend/process_registry.py`) | `_procs`: subprocesses of each assessment | register, unregister, terminate_scan (SIGTERM, three seconds, SIGKILL) | tool runner |
| Tool runner (`backend/tools/base.py`) | one subprocess | execute, output filtering, time-out | registry, scope rules |
| Storage (`backend/storage/sql_storage.py`) | tables with foreign keys on the project | whole-record upserts, deletes, cascades | everything |
| Scheduler (`backend/scheduler.py`) | schedule records with `next_run_at` | `scheduler_loop`, `launch_scheduled_scan` | storage, engine |
| Control plane (`backend/api/control.py`) | schedules, finding states, suppressions, channels, audit | create/delete schedule, triage, suppress, notify | scheduler, finding workflow |
| Finding workflow (`backend/finding_workflow.py`) | finding states | reopen remediated findings that are seen again | engine's last step |
| Notifications (`backend/notifications.py`) | delivery records | post to channels once per assessment | engine's last step |
| Progress page (`frontend/.../scan-progress.component.ts`, `poll.ts`) | rows, phase, `done`, EventSource | open, reconnect, poll, cancel, markDone | progress stream, scan requests |
| Authentication (`backend/auth.py`, `backend/api/auth.py`, `backend/reset_password.py`) | admin record, users, secret, failed log-ins | set-up, log-in, tokens, user administration, reset | storage |
| Tool keys and environment (`backend/tool_secrets.py`, `backend/env_file.py`, `backend/api/settings.py`) | stored keys, `os.environ`, locked names | load file, save, apply | engine's first step |
| Evidence (`backend/evidence.py`, `backend/api/results.py`) | blobs, raw workspace | persist, backfill, delete raw artifacts | storage, disk |
| Inventory (`backend/inventory.py`) | snapshots | build, compare | engine, portfolio, reports |
| Scope and request configuration (`backend/scope.py`, `backend/request_config.py`) | none | normalise, allow-list, credential binding | tool runner, requests |
| Tool adapters (`backend/tools/`) | files in the workspace of a root domain | `run`, `parse` of 36 tools, URL validation | tool runner, request configuration, each other's files |
| Portfolio and reports (`backend/api/portfolio.py`, `reports.py`) | none | compare the last two snapshots | inventory, storage |
| Startup (`backend/main.py`) | none | mark interrupted runs, complete the administrator, apply keys, backfill, start the loop | all of the above |
| Command line, observability, other views, images | | printing, counters, supervision | |

What makes them correct, and where it is hard:

* **Engine.** Tools run in phases because later tools read the files of earlier ones; a
  status must end up terminal whatever fails; a cancelled run must clean up; a COMPLETED
  run must have the inventory of its own results. Hard: the engine never re-reads the row
  before it saves it, its tool coroutines outlive an exception that leaves `gather`, and
  four requests delete the same data.
* **Requests.** A cancel, clear or delete is four to eight separate transactions, with a
  three-second pause in the middle.
* **Scheduler.** It saves the assessment, then the schedule, then starts the coroutine;
  it works on copies of the records that the poll listed; the program can be deleted,
  restored by an upsert or given another run between any two of those steps.
* **Progress stream.** Two ways to the browser (queue and row), both bounded, one queue
  for all viewers, events consumed before they are saved, and an end that may never be
  announced.
* **Findings.** Three things run after the inventory is saved, and each looks for the
  previous assessment when its turn comes; triage and other assessments go on meanwhile.
* **Passwords and sessions.** The administrator is in two records, written one after the
  other by the setup, the start-up and an offline process; a login spans three awaits.
* **Keys.** One variable has four sources; the environment is the only thing tools see, and
  three kinds of request write it from copies loaded before.
* **Evidence.** Images, BLOBs and the row that refers to them change in separate steps, in up
  to two requests, an assessment and a start-up.
* **Adapters.** 36 tools communicate through files whose names they agree on; rows are
  filtered for scope and files are not; one header set goes to a whole list of hosts,
  and requests lead on to others.
* **Inventory.** It is built from results in random order, and compared by identifiers.
* **Restart.** Background work is process-local; only what the rows say survives.

## 2. Modules

| module | models |
|---|---|
| `Store` | the transactions the lifecycle uses on one program with one assessment: upserts, cascades and the foreign key that rejects the save of an assessment whose program is gone |
| `ScanEngine` | `run_scan` over roots and phases, `_run_tool` coroutines with semaphore, resume and except branch, subprocesses, hand-off files, finalisation, purge |
| `ScanRequests` | `_cancel`, `clear_project_data`, `delete_project` and `terminate_scan`, any number of each |
| `ScanLifecycle` | composes the two with a crash and `lifespan`'s recovery; properties |
| `StagedRun` | abstract: a tool starts when everything it consumes has finished, no phases, storage or requests |
| `MCScanLifecycle` | instances for TLC |
| `ScanLifecycleProofs` | proofs about ScanLifecycle, its barrier between phases and its refinement of StagedRun |
| `Scheduler` | polling loop, schedule endpoints, manual creation, cancel, clear and delete, target edits, clock, crash and restart |
| `SchedulerProofs` | proofs about Scheduler |
| `ProgressStream` | `_emit`, bounded queue, `scan_progress_stream`, the page with EventSource, poll and cancel button, crash and restart |
| `ProgressStreamProofs` | proofs about ProgressStream |
| `Inventory` | `build_inventory` row by row in any order, scoring, snapshots, `compare_inventories` |
| `Findings` | the tail of `run_scan` for several assessments of two programs: inventory, reopening, completion, message and channels, against triage and a crash; the portfolio's comparison |
| `Accounts` | set-up, log-in, sessions, users, log-in window, the offline `reset_password` process, the start-up's completion of the administrator |
| `ToolKeys` | shell, credential file, stored keys, locks and `os.environ`; savers, readers and restarts |
| `Evidence` | gowitness's images, BLOBs, rows, reuse of a workspace, deletion of raw output, purge, crash and backfill |
| `Handoffs` | the 36 adapters by the files they read and write, the phases and the engine's files between them, scope, URL validation, credential headers |
| `Optional` | a value that may be absent |
| `MCPlatform` | one instance of each of the six for TLC |
| `InventoryProofs`, `FindingsProofs`, `HandoffsProofs` | proofs about these |
| `RecordsProofs` | proofs about `Accounts`, `ToolKeys` and `Evidence` |
| `PlatformProofs` | what is proved of the six holds of `MCPlatform` |

The six share no variable: each has its records and files to itself, and what reaches it
from the others is an input (`Inventory`'s rows, `Findings`' sets of findings, `Evidence`'s
images). `MCPlatform` therefore checks them side by side: the first state chooses the `part`
that moves, and the others stay as they start. That is not a composition, only one run
instead of six; `PlatformProofs` proves that the run's specification implements each of theirs.

**How the state corresponds.** In the lifecycle `db` is the database, `escan` the `Scan`
object of `run_scan`, `hscan[r]` the one a request loaded, `epc` and `hpc[r]` the place in
the coroutine (the await it last came back from), `jobs[j]` the tool coroutine of a selected
(root, tool) pair, `live` the subprocesses that exist and `tracked` what the registry holds.
Only the status and whether there is progress are kept of a `Scan`, because nothing else of
it decides anything. In `Scheduler` a schedule is its existence, `enabled` and
`next_run_at`; `cur` and `batch` are the copies the poll made; `run_scan` is reduced to its
three effects on the others: it marks its row, it saves the record it holds over the row,
it ends; `kpc[k]` is a cancel, which saves a record that is over, whatever `run_scan` goes on to do. In `ProgressStream` an event is a report number or the end with a status; `mem`
is the engine's record, `row` the stored one, `stream` the generator with the snapshot it
replays.

In `Findings` an assessment is its number in the order of `created_at`, `tail[s]` the place
in `run_scan` after its tools, `reopening[s]` the records `reopen_reappearing_findings` still
holds, and an inventory is a set of finding identities. In `Accounts` a password stands for
its hash and a secret for its number; `setups[r]`, `login`, `reset` and `server` are the places
of the coroutines and of the other process, each with what it has loaded; `asking` is one request
to create or delete a user, after `require_administrator` and after its look for the name. In `ToolKeys`
`reading[r]` and `saving[s]` are copies of the stored keys held across an await. In `Evidence`
`shots[s]` maps each image of gowitness's stored row to the BLOB it was annotated with,
`capture` is the row that is being annotated and `deleting[d]` a request. In `Handoffs` a file
is the set of hosts that its rows or lines are about, kept for the files that some tool takes
targets from; `targets`, `discovered` and `rowHosts` record what a tool was pointed at, found and
stored, `authed` for which hosts requests with credential headers were made, and `strayed` where
else such requests ended up. `Registry` gives every tool an adapter: what it reads and writes,
whether the root domain is a target of its own, whether requests carry headers and how they are
chosen, whether they lead further, and what its rows may be about.

**History variables** (`told`, `lastDelta`, `orderly` and `since` in `Findings`, `crossed` and
`decided` in `Accounts`, `raced` in `ToolKeys`) stand for no code. No guard reads them; they
let a state property speak of what happened before.

**Steps.** An action is the code from one await that reaches storage, disk, a subprocess or
a timer to the next. In particular `_emit` is split in `ProgressStream`, where the gap
between the queue and the save is the question, and is one step in `ScanEngine`, where only
the overwriting matters. Definitions preceded by a comment `Mutant:` are plausible bugs of
the code; they are not part of any specification and exist to show that the property
named with them in `PROJECT.json` can fail.

## 3. Runs

| run | instance | checks |
|---|---|---|
| `cancel` (`MCCancel.cfg`) | 2 roots, 2 phases, tools a, b (resumable), c and ai_analysis, 2 permits, 2 cancels, 1 crash | `TypeOK`, `RunningIsAlive`, `AIRunsLast`, `NoticedCancelLeavesNothing`, `CompletedIsWhole`, `QuietAfterNotice`, refinement `RunsInStages` |
| `clear` (`MCClear.cfg`) | 1 root, 2 phases, 3 tools, a clear and a delete of the program, 1 crash | `PhasesDrained`, `DeletedStaysDeleted`, `OutcomeStands`, liveness `RunningEnds`, `ScanTerminates` |
| `schedule` (`MCSchedule.cfg`) | 1 schedule, 3 assessments, interval 1, horizon 2, 1 manual creation, 1 cancel, 1 clear or delete, 1 crash | `TypeOK`, `RunsAnIntervalApart`, `NoSelfOverlap`, `AcceptedIsHeld` |
| `schedule_served` (`MCScheduleServed.cfg`) | the same without the cancel, horizon 1 | liveness `AcceptedIsRun`, `DueIsServed` |
| `progress` (`MCProgress.cfg`) | 2 reports, queue and progress of length 2, 1 heartbeat before a stream ends, 1 broken connection, 1 crash, other viewers | `TypeOK`, `EndIsStored`, `LoneViewerIsUpToDate`, liveness `StreamTellsTheEnd`, `CrashIsTold` |
| `platform` (`MCPlatform.cfg`) | the six parts with the bounds below | `PlatformTypeOK` and the properties of each part, below |
| `lost_cancel`, `cancel_leaves`, `clear_revived`, `schedule_overlap`, `progress_done`, `exported` | the smallest instance that shows it | one documented promise each that the code does not keep (section 6) |

| part of `platform` | instance | properties |
|---|---|---|
| inventory | two batches of web and passive rows with one host under two spellings, an address, a service, an endpoint and findings; 2 builds | `ConfirmedWasValidated`, `RepeatIsQuiet` |
| findings | 2 programs, 1 finding, 1 channel, 2 assessments, 2 edits by people, 1 crash | `ReopenedOnRecurrence`, `DeltasAddUp`, `PortfolioAgrees` |
| accounts | 2 passwords, the administrator and another name, 1 set-up, 1 creation or deletion of a user at a time, 2 secrets, 1 failed log-in allowed, 1 restart | `ResetTakesEffect`, `ResetEndsSessions` |
| keys | 2 keys, 2 values, every shell and file, 1 reader, 2 savers, 2 starts, 2 saves | `LockedStays`, `NewestTakesEffect` |
| evidence | 2 images, an assessment from before BLOBs and one more, 2 deletions, 1 crash | `ScreenshotsKept`, `RowsOwnTheirBlobs` |
| handoffs | 3 hosts of the domain, one elsewhere and an address; one out of scope, one gone, one allowed; every two of the 36 tools and three chains of three; fresh and resumed | `HandoffsAreSettled`, `HandoffInScope`, `AliveUrlsKept`, `CredentialsAccountedFor` |

**Why the bounds are enough to be interesting.** Two roots and two phases with an empty phase
between the selected ones exercise both loop ends and the skip of an empty phase; two jobs of
one phase with two permits run concurrently while a third waits for the gate; job b takes the
resume branch. Two cancels can overlap each other, the engine and its finalisation. One crash
is enough because recovery leaves nothing RUNNING, and the process after it differs from a
fresh one only in rows, which `Recover` covers. In `Scheduler` horizon 2 with interval 1 lets a
schedule be due twice and be postponed once; three ids are enough for two scheduled runs and a
manual one, any of them cancelled, removed or lost to a crash. The ids are a bound, so the liveness run uses an instance in
which they cannot run out. In `ProgressStream` two reports and the terminal event exceed the
length of the queue, so both trims happen; a stream times out, ends and is reopened with one
allowed heartbeat.

In `findings` two assessments of one program overlap, fail after their inventory or complete in
either order, and a second program sees the same finding; two edits are a remediation before and
one during the reopening. In `accounts` a set-up races a reset (that two set-ups may race each other is left
to the proofs, which hold for any number), two secrets are one rotation, and one
restart lets the start-up load the record of before a reset; a creation of a user may name the
administrator, whose record a reset that was cut short leaves missing. In `keys` two savers and a reader
hold three copies at a time. In `evidence` two deletions of one workspace interleave around a
crash and the backfill. In `handoffs` a hazard needs a writer, a reader and perhaps the probe
whose hosts reach them through the engine's file, so pairs and a few chains of three
cover every edge between tools. That the pattern of a program may cover the root domain itself
is left to the proof of `HandoffInScope`, which holds for every set of excluded hosts.

**Deadlock** is checked in every run but `platform`, whose parts stop when their bounds are
used up. Where the lifecycle really is finished, `Idle` says so
with a condition that names what finished means, so that a coroutine stuck anywhere else is
reported.

## 4. Fairness

All fairness is weak, and none of it is given to a person.

* The event loop resumes every coroutine that can go on: `RunScanStep`, each `ToolStep(j)` and
  each accepted request. Subprocesses end because every tool has a time-out (`ProcessExits`), and
  the semaphore and the database queue are FIFO, so a waiting coroutine is served.
* The scheduler loop and the finite rest (`Work`) each get weak fairness; the sleep of a
  minute outlasts the two storage calls with which a run that was just started marks itself
  (`PreviousRunsMarked`). That is an assumption on timing, the only one.
* In `ProgressStream` the generator and the browser's own reconnection are fair. The status poll
  is deliberately not: it stops in a hidden tab, and the stream must work without it.
* `Recover` is fair because the containers restart unless stopped. Nobody has to click, open a page, send a
  request, cross the next unit of time, or crash.

## 5. Proofs

`ScanLifecycleProofs`
: `TypeCorrect`: `Spec => []TypeOK`, with one lemma for tool coroutines, the engine and the requests.
: `RunningAlwaysAlive`: a row that says RUNNING has a live `run_scan` inside its loop, or the server is
  down. By itself it is not inductive: the row is written from three places, each with a copy
  loaded earlier. The strengthening `WritersOwnRunning` says who may still write "running": no
  request holds a record that says so, a `run_scan` past its loop has a terminal status in the
  object its surviving tool coroutines share, and before the loop there are no such coroutines.
: `DeletionIsFinal`: with no clear in flight, no late save brings a deleted program or its
  assessment back, an action property that rests on the foreign key in every save.
: `PhaseBarrier`: no tool starts before all selected tools of earlier phases and roots have drained. The
  inductive invariant `StagesInOrder` places every job relative to the position of `run_scan`:
  behind it drained, ahead of it idle.
: `AIAfterItsPhase`: `ai_analysis` starts after every other tool of its phase.
: `EngineRunsInStages`: `ScanLifecycle` implements `StagedRun` under the mapping started = left
  "idle", finished = drained. `EnterPhase` maps to the start of a set of tools, reports to a
  finish, and everything else, including all requests and the crash, to a stutter.
: `WritersAlwaysOwnRunning` and `StagesAlwaysInOrder` state the two inductive invariants as theorems of
  their own.

: `QuietOnceNoticed`, an action property: after the notice no tool starts, and no result or inventory is stored.
  `Noticed` says why: only the two gates notice, and there, by `StagesInOrder`, every tool coroutine has
  drained or has not begun. So nobody is left who could store something later.
: `NoticedCancelAlwaysLeavesNothing`: `Purging` says for each place in the purge what is gone already, that a
  cancel is noticed before there is an inventory, and that a record with progress which overtakes the purge
  belongs to a cancel request that is still under way and saves it again without.
: `CompletedAlwaysWhole`, `CompletedMeansDrained`: `StatusFits` relates the stored status to the place of
  `run_scan`, and `Undisturbed` says that without a request past its refusal the stored results are those of the
  tools that are done, and the inventory, once saved, is theirs. The second theorem needs no such
  condition: whatever the requests do, the row says COMPLETED only when every tool has ended.
: `OutcomeAlwaysStands`: a row that says completed or failed is never set back. `FailureKept` has the reason for
  failed: until a crash the record in memory says so too, and whoever outlives the failure saves that record;
  after one, nobody is left who saves.

`SchedulerProofs`
: `TypeCorrect`: `Spec => []TypeOK`.
: `RunsKeepTheirDistance`: two runs that one schedule starts are due at least an interval apart. The
  inductive invariant `SpacedRuns` extends that distance to everything a future launch can start
  from: the stored record, every copy in the poll, the copy in hand; and between the save of the
  schedule and the start of the coroutine, the record is already ahead of the copy. That is
  where the order of the code's saves matters: `SaveScanAndStart`, the other order, breaks it.
: `NeverOverlapsItself`: a schedule never has two assessments at work, unless a request removed or cancelled
  one of them. The check before a launch sees RUNNING rows only, and a launched run is RUNNING later,
  when its coroutine marks it. What closes that gap is `RunsShow`: a run that is not marked yet belongs
  to a schedule this poll is through with, because `SpacedRuns` has each schedule in a poll once and
  the next poll comes after the marks. `ScansHaveOneStarter` says that no request starts the Scan of a
  run again, `StillAlone` that what the check found holds until the coroutine is started.
: `AcceptedAlwaysHeld`, the safety side of `AcceptedIsRun`: nobody drops an assessment between its save and its
  start. It rests on `RowsNeedProject`: a first save that is rejected finds no row to leave pending.

`ProgressStreamProofs`
: `StreamTypeCorrect`, `EndAlwaysStored`: what `AnnounceEnd` puts is an end because the status is decided by then,
  so types and `EndsFollow` are proved together. `EndsFollow` says that an end in the queue goes with a
  final status in both records: no late save of progress can take it back.
: `LoneViewerAlwaysUpToDate`: `QueueIsRecent` says that the queue is a suffix of the progress on record.
  Both drop their oldest event at the same length, so a full queue equals the progress and a drop from
  it loses nothing the page could still be owed. `ViewerFollows` extends the property to the moment
  between the read of the row and its replay.
: `EndCanAlwaysBeRead`, the safety side of `StreamTellsTheEnd` and `CrashIsTold`: what the stream's timeout and the
  status poll look at is final by then (`EndCanBeRead`, stated with its proof and not in a run). `EndKept` adds
  to `EndsFollow` the saves that are still to come, and the process after a crash, which has none.

`InventoryProofs`
: `SnapshotsAlwaysClosed`, `ConfirmedAlwaysValidated`: `Sound` says of a build that what a row relates or finds is
  mentioned by that row or is a root, and that the tools of a build are finitely many because each row adds one,
  which gives the score, a cardinality in part, its bound: without a validated state and outside the scope list
  it stays below the 75 that make an asset confirmed, however many tools mention it.
: `RepeatAlwaysQuiet`: `Collected` says that the mentions, relations and finding ids of a build are a union
  over the rows taken so far, in whatever order, and `Reflects` that a snapshot has it from its sources. So two
  builds of one set of rows agree, and only details may differ. No fold and no induction over the rows is
  needed, because the union is the invariant.

`FindingsProofs`
: `AlwaysReopenedOnRecurrence`: what a completed assessment has seen is not left remediated. `Reopening`
  strengthens it to assessments that are on their way: between the list of records and the last
  save, whatever the assessment saw and is remediated is still to be saved or was edited since.
: `DeltasAlwaysAddUp`, `PortfolioAlwaysAgrees`: for a program assessed one at a time. `InOrder` says
  that at most its newest assessment is still under way, `AddedUp` what its messages have told so
  far, depending on whether the newest message was built.

`RecordsProofs`, of `Accounts`
: `ResetAlwaysTakesEffect`: `ResetAlone` says that a reset which no set-up, start-up or creation of the
  administrator's user crosses is the only writer, and owns the record it saved; `ResetStands` that both records are as the last such reset left
  them, so that no later start-up has an administrator to complete and no later creation finds the
  name free.
: `ResetAlwaysEndsSessions`: the secret of the record is newer than all secrets of before.
: `AccountsTypeCorrect`: `SecretsWereIssued`, `UsersAreUsers`, `SessionsWereIssued` and `FailuresAreCounted`, the last
  because a log-in that was let through still counts when it is answered.

`RecordsProofs`, of `ToolKeys`
: `KeysTypeCorrect`, `LockedAlwaysStays`, `NewestAlwaysTakesEffect`. `CarriedIsStored` says that a
  copy held across an await is what is stored, apart from the keys in `raced`; `AppliedUnlessSaving`
  that the environment has every stored key unless a saver still has to apply it.

`RecordsProofs`, of `Evidence`
: `ScreenshotsAlwaysKept`, `RowsAlwaysOwnTheirBlobs`: `RowsKept`, `CapturesKept` and `RequestsKept` say of the
  stored rows, the row in `persist_result_evidence` and the row each deletion holds that every image
  has a BLOB of its own assessment or its file still. A request removes files only after its rows
  are saved, and a completed assessment is not purged.

`HandoffsProofs`, for every set of hosts, scope and choice of tools; what the 36 adapters have in common is
proved first, adapter by adapter (`AdaptersFit`, `AdaptersPlaced`)
: `CredentialsAlwaysAccountedFor`, for every target list and outcome of validation: requests with
  credentials are made for covered hosts, and what strays has a tool behind it that was pointed at
  one and follows redirects or links, or asks an address. `StillLeads` says that such a tool is never
  taken back by a later step.
: `AliveUrlsAlwaysKept`: the file of a tool that validates has no other writer, and validation keeps
  what answers.
: `HandoffAlwaysInScope`: `Scoped` adds the files and rows of httpx and naabu, the only ones a gate is
  written from without a filter of its own. Nothing is assumed of the patterns: a tool that adds the
  root domain by itself does so whatever they cover, and the property says so.
: `HandoffsAlwaysSettled`: `Following` places the tools relative to the phase, and `Stage` gives each
  file the phase at whose end it stands. This is the same barrier that `PhaseBarrier` proves of the
  engine, here with what the real tools read and write.

`PlatformProofs`
: `PlatformRunsComponents`: `PlatformSpec` implements the specification of each component, since a step of one leaves
  the variables of the others. `PlatformTypeCorrect` follows with the type theorem of each: `FindingsTypeCorrect`,
  `AccountsTypeCorrect`, `KeysTypeCorrect`, `EvidenceTypeCorrect`, `HandoffsTypeCorrect`, and `SnapshotsAlwaysClosed`.

Assumptions used: `LoopsAssumption`, `JobsAssumption` (jobs are finitely many and have a root and
a phase), `RequestsAssumption` (a request is of one kind), `ScheduleAssumption` (an interval is at
least one unit, ids are numbers), `HandoffsAssumption` and `SelectionsAssumption` (the root domain is one of
its own hosts, no host both answers and is gone, only registered tools are selected), `EvidenceAssumption`,
`FindingsAssumption`, `AccountsAssumption` and `KeysAssumption` (bounds are numbers, and the values that
stand for nothing are no program, image, name or key). TLC evaluates each of them in the runs above.

Every safety property of a passing run is proved: invariants, action properties and the refinement. Only
model-checked are the liveness properties (`RunningEnds`, `ScanTerminates`, `AcceptedIsRun`, `DueIsServed`,
`StreamTellsTheEnd`, `CrashIsTold`): they need fairness and `ENABLED`, which the prover does not treat.

## 6. Where code and documentation disagree

| run | what happens |
|---|---|
| `lost_cancel` | a progress event saves the engine's RUNNING record over the CANCELLED row, the next gate reads RUNNING, and new phases start after the cancel was answered (`process_registry.py:4-5`) |
| `cancel_leaves` | a cancel that overlaps the finalisation ends as CANCELLED with the inventory in place (`scan_engine.py:792`, `README.md:43`) |
| `clear_revived` | a clear ends processes but not `run_scan`, whose next save inserts the deleted row again (`projects.py:88-92`) |
| `schedule_overlap` | two schedules of one program due in one poll both launch, because PENDING is not counted as active (`scheduler.py:16`) |
| `progress_done` | the page shows an assessment that is about to start as cancelled, because it does not read the answer to its cancel (`scan-progress.component.ts:389-390`) |
| `exported` | the start of the server, and each assessment, replaces a variable that the shell exported by the stored key, which only a variable from the file is protected against (`README.md:402-406`, `backend/env_file.py:9-17`) |

Behaviour that the models contain and no line of documentation speaks about is recorded under
`hazards` with a note: a PENDING row orphaned by a crash, a deleted schedule or program that an
upsert of an older copy restores, lost updates of `scan_count`.

Three promises the code breaks are part of the definitions of properties that hold, each with the
exception named there:

* `README.md:147-148`: "Credential headers are sent **only** to hosts listed in the assessment's
  **Credential hosts** field". They are chosen for such hosts, and then stay on the request: httpx is
  told to follow redirects (`httpx_tool.py:35`), `secret_exposure`, `web_posture` and `api_spec` follow
  them with `allow_redirects=True` (aiohttp drops `Authorization` only), and katana crawls linked hosts.
* `README.md:151-152` and `request_config.py:132-133`: "direct-origin probing cannot inherit a hostname's
  session". `origin_exposure.py:56` takes the headers of the host that it presents to the address. Both are
  `strayed` in `Handoffs`, and `CredentialsAccountedFor` says by which tools alone it grows.
* `README.md:45`: "out-of-scope patterns (incl. wildcards) are filtered at every stage". A pattern that
  covers the root domain is accepted (`projects.py:116-136`); every hand-off is empty then, and
  `subdomain_takeover`, `google_dorks` and the archives (`_target_hosts`) fall back on the root domain.
  `HandoffInScope` excepts it.

Some more is visible in the models and in no property, because no promise is broken or the
promise has an exception in its definition:

* `wpscan` looks into the output of `whatweb`, which runs in the same phase (`HandoffsAreSettled`
  excepts the pair).
* Rows are filtered for scope and the tools' own files are not, so tools that read katana's or
  gau's files may be pointed outside (`HandoffInScope` is about the engine's files).
* Two saves of keys that overlap each merge into the copy they loaded, and the second one takes the
  first one's key back; a reader may apply older keys after a save (`raced`).
* A cancelled or cleared assessment that still works does not count as active, so the next run of its own
  schedule may overlap it (`NoSelfOverlap` excepts rows that a request removed or cancelled).
* `terminate_scan` forgets the whole bucket, with processes that were registered during its grace period; they
  end with their own time-out (`KillScan`).
* A request to create a user looks for the name before it saves. If a reset was cut short and left no
  user record of the administrator, such a request can overwrite what the next reset saved
  (`ResetTakesEffect` excepts it with set-up and start-up, in `crossed`).
* `README.md:265` speaks of completed, failed and cancelled assessments when raw output is deleted;
  `ScreenshotsKept` is about completed ones.
* A resumed assessment lists the screenshots of the workspace it copied among its own.
* The comment of `_write_alive_urls` speaks of a fall-back that the code does not have; `AliveUrls` is
  what the code does.

Two things a reader may expect and the models refute are stated with their exception: a live event goes
to one of several viewers (`LoneViewerIsUpToDate` is about a page that shares the queue with none), and a page
that reconnects faster than an event is saved may miss it (`missed`).

## 7. Abstractions, and what is not modelled

* One program in each module but `Findings`; one assessment in the lifecycle and the stream. Assessments
  of one program share only the semaphore, which `Permits` bounds, and the row table.
* The lifecycle knows of results, files and inventories only whether they exist and from which results
  they were made; `Handoffs` and `Inventory` have their contents, without errors and cancellation.
* `Handoffs` keeps hosts of rows, lines and URLs. Command lines, the parsing of scanner output and the
  paths of URLs are left out, and so are partial results of tools that were killed. A tool may find any
  of a few sets of hosts (`Finds`), within what its parser can make rows of, and a request with
  credentials may lead to any of them: what a binary does with redirects is its own affair.
* `Inventory` has a row as a record of the fields the function looks at; `Canonical` stands for the
  normalisation of host names, evidence hashes and time stamps are left out. So are URLs that cannot be
  encoded or parsed, whose exception ends the build and with it the assessment (`inventory.py:119-120`).
* `Accounts`: hashing, the expiry of tokens and the length of the log-in window. `ToolKeys`: the syntax of
  the credential file. `Findings`: suppression rules, audit events, the wording of messages.
  `Evidence`: images are names; what the database does with equal contents is in `NewBlobs`.
* `scan_count`, audit records, headers and names.
* Time is in units of fifteen minutes in `Scheduler` and absent elsewhere; a time-out is a
  choice that may be made whenever the code waits.
* Storage errors other than a violated foreign key.

Not modelled: retry-failed (create with another tool list), program create and update (names), the legacy
migration of a database (run once, before anything else), the progress page's reducer from events to
rows and percentages, the redaction of logged commands, observability, the other views and the images.
They are projections, parsing and supervision without state another part depends on.

## 8. Plan

Done, in this order: the lifecycle with its refinement; `Scheduler`; `ProgressStream`; `Findings`, `Accounts`,
`ToolKeys`, `Evidence`, `Handoffs`, `Inventory`; the proofs of section 5. What is left:

1. `Handoffs` with the outcomes of `ScanEngine`: a tool that raised or was killed leaves part of its file.
2. retry-failed, and suppression rules against the portfolio's lists.
3. The progress page's reducer against a definition over the whole sequence of events.
