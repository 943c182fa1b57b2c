--------------------------- MODULE ProgressStream ---------------------------
(***************************************************************************)
(* How the progress of one assessment reaches the browser: _emit and the   *)
(* end of run_scan (backend/scan_engine.py) feed one bounded queue and the *)
(* row; scan_progress_stream (backend/api/scans.py) replays the row and    *)
(* then drains the queue; the progress page                                *)
(* (frontend/.../scan/scan-progress.component.ts) holds one EventSource,   *)
(* which the browser reconnects, and polls the status besides.             *)
(*                                                                         *)
(* One page is followed; what the streams of other pages do to it is take  *)
(* events off the queue.  ScanEngine has the phases and the cancel request *)
(* in detail; here the engine only reports, notices a cancellation and     *)
(* ends.                                                                   *)
(***************************************************************************)
EXTENDS Integers, Sequences, SequencesExt

CONSTANTS
  Cap,          \* queue maxsize, and the length progress is trimmed to (1000)
  SilenceLimit, \* timeouts of one stream before it ends (40)
  NReports,     \* bound: progress events before the end
  MaxDrops      \* bound: connections that break

ASSUME StreamAssumption ==
  /\ Cap \in Nat \ {0}
  /\ {SilenceLimit, NReports, MaxDrops} \subseteq Nat

VARIABLES
  row,      \* the stored Scan: status and progress
  mem,      \* run_scan's Scan
  unsaved,  \* some _emit has not saved yet
  epc,      \* where run_scan is
  queue,    \* the Queue object _emit puts to
  page,     \* the progress view
  stream,   \* its EventSource, with the server side
  click,    \* its cancel request
  drops,    \* connections broken so far
  alone,    \* history: whether no other stream took an event
  missed,   \* history: reports neither queued nor saved when the page read the row
  server    \* "up", "down" after a crash, "recovered"

engine == <<mem, unsaved, epc>>
browser == <<page, stream>>
history == <<drops, alone, missed>>

vars == <<row, engine, queue, browser, click, history, server>>

Terminal == {"completed", "failed", "cancelled"}

Status == {"pending", "running"} \cup Terminal

\* An event is a numbered report, or "__scan__" with a terminal status.
Report(n) == [n |-> n, says |-> "running"]

End(status) == [n |-> 0, says |-> status]

Event == {Report(n) : n \in 1 .. NReports} \cup {End(s) : s \in Terminal}

Ends(events) == {s \in Terminal : End(s) \in events}

Numbers(events) == {e.n : e \in events} \ {0}

EnginePC ==
  {"queued", "working", "noticed", "final", "notify", "announce", "announced",
   "linger", "ended", "aborted", "dead"}

StreamPC == {"none", "read", "replay", "live", "late", "cut"}

NoSnapshot == [status |-> "pending", progress |-> <<>>]

\* The status and the progress of a Scan.
Snapshot == [status : Status, progress : Seq(Event)]

Shown == {"nothing", "progress"} \cup Terminal

ClickPC == {"none", "sent", "mark", "clear", "accepted", "refused", "answered"}

TypeOK ==
  /\ {row, mem} \subseteq Snapshot
  /\ queue \in Seq(Event)
  /\ Len(row.progress) <= Cap /\ Len(mem.progress) <= Cap /\ Len(queue) <= Cap
  /\ epc \in EnginePC
  /\ unsaved \in BOOLEAN
  /\ page \in [shows : Shown, seen : SUBSET (1 .. NReports)]
  /\ stream \in [at : StreamPC, snap : Snapshot, silence : 0 .. SilenceLimit]
  /\ stream.at # "none" <=> page.shows = "progress"
  /\ click \in [at : ClickPC, progress : Seq(Event)]
  /\ Len(click.progress) <= Cap
  /\ drops \in 0 .. MaxDrops
  /\ alone \in BOOLEAN
  /\ missed \subseteq 1 .. NReports
  /\ server \in {"up", "down", "recovered"}

\* Where the cancel request is, with the progress of the record it loaded.
Click(at, progress) == [at |-> at, progress |-> progress]

Closed == [at |-> "none", snap |-> NoSnapshot, silence |-> 0]

Init ==
  /\ row = NoSnapshot
  /\ mem = NoSnapshot
  /\ unsaved = FALSE
  /\ epc = "queued"
  /\ queue = <<>>
  /\ page = [shows |-> "nothing", seen |-> {}]
  /\ stream = Closed
  /\ click = Click("none", <<>>)
  /\ drops = 0
  /\ alone = TRUE
  /\ missed = {}
  /\ server = "up"

-----------------------------------------------------------------------------
(* run_scan and _emit.                                                     *)

\* Mutant: a full queue keeps its oldest event.
NeverTrimmed(s) == s

Newest(s) == IF Len(s) > Cap THEN Tail(s) ELSE s

\* First half of _emit: the queue drops its oldest event when it is full,
\* and so does the progress of the record.
Put(e) ==
  /\ queue' = Newest(Append(queue, e))
  /\ mem' = [mem EXCEPT !.progress = Newest(Append(@, e))]
  /\ unsaved' = TRUE

\* Reports are numbered in the order the tools put them.
NextNumber(n) ==
  LET given == Numbers(ToSet(mem.progress)) IN
  n - 1 \in given \cup {0} /\ \A m \in given : m < n

StartScan ==
  /\ epc = "queued"
  /\ epc' = "working"
  /\ mem' = [mem EXCEPT !.status = "running"]
  /\ row' = [mem EXCEPT !.status = "running"]
  /\ UNCHANGED <<unsaved, queue, browser, click, history, server>>

ReportProgress ==
  /\ epc = "working"
  /\ \E n \in 1 .. NReports : NextNumber(n) /\ Put(Report(n))
  /\ UNCHANGED <<row, epc, browser, click, history, server>>

\* Second half: the whole record replaces the row, whatever it says by now.
\* Tools report concurrently, so one save may carry several reports.
SaveProgress ==
  /\ unsaved
  /\ row' = mem
  /\ unsaved' = FALSE
  /\ UNCHANGED <<mem, epc, queue, browser, click, history, server>>

\* A gate reads CANCELLED; the one of the phase loop says so, the one of the
\* domain loop does not.
NoticeCancel ==
  /\ epc = "working"
  /\ ~unsaved
  /\ row.status = "cancelled"
  /\ epc' = "noticed"
  /\ \/ /\ queue' = Newest(Append(queue, End("cancelled")))
        /\ mem' = [status |-> "cancelled",
                   progress |-> Newest(Append(mem.progress, End("cancelled")))]
        /\ unsaved' = TRUE
     \/ /\ mem' = [mem EXCEPT !.status = "cancelled"]
        /\ UNCHANGED <<queue, unsaved>>
  /\ UNCHANGED <<row, browser, click, history, server>>

\* The loops end, or an exception ends them.
LeaveLoops ==
  /\ epc = "working"
  /\ ~unsaved
  /\ epc' = "final"
  /\ \E s \in {"completed", "failed"} : mem' = [mem EXCEPT !.status = s]
  /\ UNCHANGED <<row, unsaved, queue, browser, click, history, server>>

\* Mutant: the end is announced before it is stored.
AnnounceFirst ==
  /\ epc \in {"noticed", "final"}
  /\ ~unsaved
  /\ epc' = "announced"
  /\ Put(End(mem.status))
  /\ UNCHANGED <<row, browser, click, history, server>>

SaveFinal ==
  /\ epc \in {"noticed", "final"}
  /\ ~unsaved
  /\ epc' = IF mem.status = "completed" THEN "notify" ELSE "announce"
  /\ row' = mem
  /\ UNCHANGED <<mem, unsaved, queue, browser, click, history, server>>

\* A notification that times out leaves run_scan: no end is announced and
\* the queue is never dropped.
Notify ==
  /\ epc = "notify"
  /\ epc' \in {"announce", "aborted"}
  /\ UNCHANGED <<row, mem, unsaved, queue, browser, click, history, server>>

AnnounceEnd ==
  /\ epc = "announce"
  /\ epc' = "announced"
  /\ Put(End(mem.status))
  /\ UNCHANGED <<row, browser, click, history, server>>

\* A cancelled assessment loses its progress.
Purge ==
  /\ epc = "announced"
  /\ ~unsaved
  /\ epc' = "linger"
  /\ IF mem.status = "cancelled"
       THEN /\ mem' = [mem EXCEPT !.progress = <<>>]
            /\ row' = [mem EXCEPT !.progress = <<>>]
       ELSE UNCHANGED <<mem, row>>
  /\ UNCHANGED <<unsaved, queue, browser, click, history, server>>

\* drop_progress_queue after a minute: streams that hold the object keep it.
DropQueue ==
  /\ epc = "linger"
  /\ epc' = "ended"
  /\ UNCHANGED <<row, mem, unsaved, queue, browser, click, history, server>>

EngineStep ==
  \/ StartScan \/ ReportProgress \/ SaveProgress \/ NoticeCancel \/ LeaveLoops
  \/ SaveFinal \/ Notify \/ AnnounceEnd \/ Purge \/ DropQueue

-----------------------------------------------------------------------------
(* The page.                                                               *)

\* What the page has seen is of no interest once it shows something else.
Show(what) ==
  /\ page' = [shows |-> what, seen |-> {}]
  /\ stream' = Closed

\* The first end wins and closes the EventSource.
MarkDone(status) == Show(status)

Watching == page.shows = "progress"

\* The tab is opened, or reloaded after it was left.
OpenPage ==
  /\ page.shows = "nothing"
  /\ page' = [page EXCEPT !.shows = "progress"]
  /\ stream' = [Closed EXCEPT !.at = "read"]
  /\ UNCHANGED <<row, engine, queue, click, history, server>>

LeavePage ==
  /\ page.shows # "nothing"
  /\ Show("nothing")
  /\ UNCHANGED <<row, engine, queue, click, history, server>>

\* The status poll, also run at once when the EventSource errs.
PollStatus ==
  /\ Watching
  /\ row.status \in Terminal
  /\ MarkDone(row.status)
  /\ UNCHANGED <<row, engine, queue, click, history, server>>

\* The browser opens a stream that ended or broke again.
Reconnect ==
  /\ stream.at = "cut"
  /\ stream' = [Closed EXCEPT !.at = "read"]
  /\ UNCHANGED <<row, engine, queue, page, click, history, server>>

SendCancel ==
  /\ Watching
  /\ click.at = "none"
  /\ click' = Click("sent", <<>>)
  /\ UNCHANGED <<row, engine, queue, browser, history, server>>

\* _cancel answers {"cancelled": False} unless the row says RUNNING.
ReadForCancel ==
  /\ click.at = "sent"
  /\ click' = IF row.status = "running" THEN Click("mark", row.progress)
              ELSE Click("refused", <<>>)
  /\ UNCHANGED <<row, engine, queue, browser, history, server>>

\* It saves the record it loaded.
MarkCancelled ==
  /\ click.at = "mark"
  /\ row' = [status |-> "cancelled", progress |-> click.progress]
  /\ click' = Click("clear", <<>>)
  /\ UNCHANGED <<engine, queue, browser, history, server>>

ClearProgress ==
  /\ click.at = "clear"
  /\ row' = [status |-> "cancelled", progress |-> <<>>]
  /\ click' = Click("accepted", <<>>)
  /\ UNCHANGED <<engine, queue, browser, history, server>>

\* The page does not look at the body of the answer.
CancelAnswered ==
  /\ click.at \in {"accepted", "refused"}
  /\ click' = Click("answered", <<>>)
  /\ IF Watching THEN MarkDone("cancelled") ELSE UNCHANGED browser
  /\ UNCHANGED <<row, engine, queue, history, server>>

-----------------------------------------------------------------------------
(* scan_progress_stream, one generator for each open EventSource.          *)

StreamReads ==
  /\ stream.at = "read"
  /\ stream' = [stream EXCEPT !.at = "replay", !.snap = row]
  /\ missed' = Numbers(ToSet(mem.progress)) \
       (page.seen \cup Numbers(ToSet(queue)) \cup Numbers(ToSet(row.progress)))
  /\ UNCHANGED <<row, engine, queue, page, click, drops, alone, server>>

\* What the page makes of a batch of events; its stream goes on as next.
Deliver(events, next) ==
  IF Ends(events) # {}
    THEN \E s \in Ends(events) : MarkDone(s)
    ELSE /\ stream' = next
         /\ page' = [page EXCEPT !.seen = @ \cup Numbers(events)]

\* Mutant: the stream starts with the live events.
StreamReplaysNothing ==
  LET snap == stream.snap
      ends == IF snap.status \in Terminal THEN {End(snap.status)} ELSE {} IN
  /\ stream.at = "replay"
  /\ Deliver(ends,
             [Closed EXCEPT !.at = IF epc = "ended" THEN "late" ELSE "live"])
  /\ UNCHANGED <<row, engine, queue, click, history, server>>

\* A terminal row needs no queue; get_progress_queue makes a new one when
\* the engine has dropped its own.
StreamReplays ==
  LET snap == stream.snap
      ends == IF snap.status \in Terminal THEN {End(snap.status)} ELSE {} IN
  /\ stream.at = "replay"
  /\ Deliver(ToSet(snap.progress) \cup ends,
             [Closed EXCEPT !.at = IF epc = "ended" THEN "late" ELSE "live"])
  /\ UNCHANGED <<row, engine, queue, click, history, server>>

StreamSends ==
  /\ stream.at = "live"
  /\ queue # <<>>
  /\ queue' = Tail(queue)
  /\ Deliver({Head(queue)}, stream)
  /\ UNCHANGED <<row, engine, click, history, server>>

Waits ==
  \/ stream.at = "live" /\ queue = <<>>
  \/ stream.at = "late"

\* A heartbeat, or the end of the stream.  Events do not reset the count.
KeepWaiting ==
  stream' = IF stream.silence = SilenceLimit THEN [Closed EXCEPT !.at = "cut"]
            ELSE [stream EXCEPT !.silence = @ + 1]

\* Mutant: thirty silent seconds only send a heartbeat.
StreamOnlyBeats ==
  /\ Waits
  /\ UNCHANGED vars

\* Thirty silent seconds: look at the row first.
StreamTimesOut ==
  /\ Waits
  /\ IF row.status \in Terminal
       THEN Deliver({End(row.status)}, Closed)
       ELSE KeepWaiting /\ UNCHANGED page
  /\ UNCHANGED <<row, engine, queue, click, history, server>>

\* The stream of another page: whichever asks first takes the event.
OtherStreamTakes ==
  /\ queue # <<>>
  /\ queue' = Tail(queue)
  /\ alone' = FALSE
  /\ UNCHANGED <<row, engine, browser, click, drops, missed, server>>

\* A broken connection takes along the event the generator was sending.
ConnectionBreaks ==
  /\ stream.at \in {"read", "replay", "live", "late"}
  /\ drops < MaxDrops
  /\ drops' = drops + 1
  /\ stream' = [Closed EXCEPT !.at = "cut"]
  /\ \/ UNCHANGED queue
     \/ stream.at = "live" /\ queue # <<>> /\ queue' = Tail(queue)
  /\ UNCHANGED <<row, engine, page, click, alone, missed, server>>

StreamStep ==
  \/ StreamReads \/ StreamReplays \/ StreamSends \/ StreamTimesOut

RequestStep == ReadForCancel \/ MarkCancelled \/ ClearProgress \/ CancelAnswered

-----------------------------------------------------------------------------
(* Crash and restart.                                                      *)

Crash ==
  /\ server = "up"
  /\ server' = "down"
  /\ epc' = IF epc \in {"ended", "aborted"} THEN epc ELSE "dead"
  /\ mem' = NoSnapshot
  /\ unsaved' = FALSE
  /\ queue' = <<>>
  /\ stream' = IF Watching THEN [Closed EXCEPT !.at = "cut"] ELSE Closed
  /\ click' = IF click.at \in {"sent", "mark", "clear"} THEN Click("answered", <<>>)
              ELSE click
  /\ UNCHANGED <<row, page, history>>

\* Mutant: startup leaves the RUNNING rows alone.
RecoverNothing ==
  /\ server = "down"
  /\ server' = "recovered"
  /\ UNCHANGED <<row, engine, queue, browser, click, history>>

Recover ==
  /\ server = "down"
  /\ server' = "recovered"
  /\ row' = IF row.status = "running" THEN [row EXCEPT !.status = "failed"] ELSE row
  /\ UNCHANGED <<engine, queue, browser, click, history>>

Serving ==
  \/ EngineStep \/ StreamStep \/ RequestStep
  \/ OtherStreamTakes \/ Reconnect \/ PollStatus \/ SendCancel

Next ==
  \/ server # "down" /\ Serving
  \/ OpenPage \/ LeavePage \/ ConnectionBreaks
  \/ Crash
  \/ Recover

(***************************************************************************)
(* The engine and the request finish what they started, and the stream and *)
(* the browser's reconnection go on by themselves, whatever other pages    *)
(* do.  The status poll is not counted on: it stops in a hidden tab.       *)
(***************************************************************************)
Fairness ==
  /\ WF_vars(server # "down" /\ (EngineStep \/ RequestStep))
  /\ WF_vars(server # "down" /\ (StreamStep \/ Reconnect))
  /\ WF_vars(Recover)

Spec == Init /\ [][Next]_vars /\ Fairness

-----------------------------------------------------------------------------
(* Properties.                                                             *)

\* An end that is on its way to a page is already stored: whoever asks for the
\* assessment then gets its final state.
EndIsStored ==
  Ends(ToSet(queue)) # {} => row.status \in Terminal

\* "Progress is ... persisted on the Scan object so reconnects can replay
\* recent state" (scan_engine.py): a page that shares the queue with no other
\* one has been sent, or will be sent, every recent report; a reload or a
\* reconnect loses at most those it was faster than to save.
LoneViewerIsUpToDate ==
  alone /\ stream.at = "live" =>
    Numbers(ToSet(mem.progress)) \subseteq
      page.seen \cup Numbers(ToSet(queue)) \cup missed

\* A stream tells its page the end even if another page took the event, a
\* notification error kept it from being sent, or the queue is gone.
StreamTellsTheEnd ==
  Watching /\ epc \in {"ended", "aborted"} ~> ~Watching

\* After a crash too, unless the assessment was still PENDING.
CrashIsTold ==
  Watching /\ server = "recovered" /\ row.status # "pending" ~> ~Watching

\* "the status poll above is the authority on whether the scan actually
\* ended" (scan-progress.component.ts): a page that shows the end of an
\* assessment shows one that has ended.
DoneMeansOver == page.shows \in Terminal => row.status \in Terminal

=============================================================================
