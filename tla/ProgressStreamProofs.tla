------------------------ MODULE ProgressStreamProofs ------------------------
(***************************************************************************)
(* Proofs about ProgressStream, for every length of the queue, limit of    *)
(* silence, number of reports and number of broken connections.            *)
(***************************************************************************)
EXTENDS ProgressStream, TLAPS

\* One step, action by action.
LEMMA StepCases ==
  ASSUME [Next]_vars
  PROVE  \/ StartScan \/ ReportProgress \/ SaveProgress \/ NoticeCancel
         \/ LeaveLoops \/ SaveFinal \/ Notify \/ AnnounceEnd \/ Purge \/ DropQueue
         \/ StreamReads \/ StreamReplays \/ StreamSends \/ StreamTimesOut
         \/ OtherStreamTakes \/ ConnectionBreaks \/ Reconnect
         \/ OpenPage \/ LeavePage \/ PollStatus \/ SendCancel
         \/ ReadForCancel \/ MarkCancelled \/ ClearProgress \/ CancelAnswered
         \/ Crash \/ Recover \/ UNCHANGED vars
BY DEF Next, Serving, EngineStep, StreamStep, RequestStep

-----------------------------------------------------------------------------
(* Events and sequences of them.                                           *)

LEMMA EventTypes ==
  /\ \A n \in 1 .. NReports : Report(n) \in Event
  /\ \A s \in Terminal : End(s) \in Event
  /\ \A e \in Event : e.n \in 0 .. NReports
  /\ \A events \in SUBSET Event : Numbers(events) \subseteq 1 .. NReports
<1>1. \A e \in Event : e.n \in 0 .. NReports
  BY StreamAssumption DEF Event, Report, End
<1>2. \A events \in SUBSET Event : Numbers(events) \subseteq 1 .. NReports
  BY <1>1, StreamAssumption DEF Numbers
<1> QED
  BY <1>1, <1>2 DEF Event

\* A report is no end, and an end says its status.
LEMMA EndsOfOne ==
  /\ \A n : Ends({Report(n)}) = {}
  /\ \A s \in Terminal : Ends({End(s)}) = {s}
  /\ Ends({}) = {}
BY DEF Ends, Report, End, Terminal

LEMMA Unions ==
  ASSUME NEW A, NEW B
  PROVE  /\ Ends(A \cup B) = Ends(A) \cup Ends(B)
         /\ Numbers(A \cup B) = Numbers(A) \cup Numbers(B)
         /\ A \subseteq B => Ends(A) \subseteq Ends(B) /\ Numbers(A) \subseteq Numbers(B)
<1>1. Ends(A \cup B) = Ends(A) \cup Ends(B)
  BY DEF Ends
<1>2. Numbers(A \cup B) = Numbers(A) \cup Numbers(B)
  BY DEF Numbers
<1>3. A \subseteq B => Ends(A) \subseteq Ends(B) /\ Numbers(A) \subseteq Numbers(B)
  BY DEF Ends, Numbers
<1> QED
  BY <1>1, <1>2, <1>3

LEMMA SetOfSeq ==
  ASSUME NEW s \in Seq(Event)
  PROVE  /\ \A e : e \in ToSet(s) <=> \E i \in 1 .. Len(s) : e = s[i]
         /\ ToSet(s) \subseteq Event
BY DEF ToSet

LEMMA EmptySet == ToSet(<<>>) = {}
BY DEF ToSet

\* What a bounded sequence is after one more event.
LEMMA Trimmed ==
  ASSUME NEW s \in Seq(Event), Len(s) <= Cap, NEW e \in Event
  PROVE  LET t == Newest(Append(s, e)) IN
         /\ t \in Seq(Event)
         /\ Len(t) <= Cap
         /\ Len(s) = Cap => /\ Len(t) = Cap
                            /\ \A i \in 1 .. Cap :
                                 t[i] = IF i = Cap THEN e ELSE s[i + 1]
         /\ Len(s) < Cap => t = Append(s, e)
         /\ ToSet(t) \subseteq ToSet(s) \cup {e}
         /\ Len(s) < Cap => ToSet(t) = ToSet(s) \cup {e}
<1> DEFINE a == Append(s, e)
           t == Newest(a)
<1>1. /\ a \in Seq(Event) /\ Len(a) = Len(s) + 1
      /\ \A i \in 1 .. Len(s) : a[i] = s[i]
      /\ a[Len(s) + 1] = e
      /\ Len(s) \in Nat /\ Cap \in Nat /\ Cap >= 1
  BY StreamAssumption
<1>2. CASE Len(s) < Cap
  <2>1. t = a
    BY <1>1, <1>2 DEF Newest
  <2>2. ToSet(a) \subseteq ToSet(s) \cup {e}
    <3> SUFFICES ASSUME NEW x \in ToSet(a) PROVE x \in ToSet(s) \cup {e}
      OBVIOUS
    <3>1. PICK i \in 1 .. Len(a) : x = a[i]
      BY <1>1, SetOfSeq
    <3>2. i \in 1 .. Len(s) \/ i = Len(s) + 1
      BY <1>1
    <3> HIDE DEF a
    <3> QED
      BY <1>1, <3>1, <3>2, SetOfSeq
  <2>3. ToSet(s) \cup {e} \subseteq ToSet(a)
    <3>1. \A i \in 1 .. Len(s) : i \in 1 .. Len(a)
      BY <1>1
    <3>2. Len(s) + 1 \in 1 .. Len(a)
      BY <1>1
    <3> HIDE DEF a
    <3> QED
      BY <1>1, <3>1, <3>2, SetOfSeq
  <2> QED
    BY <1>1, <1>2, <2>1, <2>2, <2>3
<1>3. CASE Len(s) = Cap
  <2>1. t = Tail(a)
    BY <1>1, <1>3 DEF Newest
  <2> HIDE DEF t
  <2>2. /\ t \in Seq(Event) /\ Len(t) = Cap
        /\ \A i \in 1 .. Cap : t[i] = a[i + 1]
    BY <1>1, <1>3, <2>1
  <2>3. \A i \in 1 .. Cap : t[i] = IF i = Cap THEN e ELSE s[i + 1]
    BY <1>1, <1>3, <2>2
  <2>4. ToSet(t) \subseteq ToSet(s) \cup {e}
    BY <1>1, <1>3, <2>2, <2>3, SetOfSeq
  <2> QED
    BY <1>1, <1>3, <2>2, <2>3, <2>4 DEF t
<1> QED
  BY <1>1, <1>2, <1>3

\* Taking the oldest event.
LEMMA Taken ==
  ASSUME NEW s \in Seq(Event), s # <<>>
  PROVE  /\ Tail(s) \in Seq(Event)
         /\ Len(Tail(s)) = Len(s) - 1
         /\ Len(s) \in Nat \ {0}
         /\ \A i \in 1 .. Len(s) - 1 : Tail(s)[i] = s[i + 1]
         /\ Head(s) \in Event
         /\ ToSet(s) = ToSet(Tail(s)) \cup {Head(s)}
<1>1. /\ Tail(s) \in Seq(Event)
      /\ Len(Tail(s)) = Len(s) - 1
      /\ Len(s) \in Nat \ {0}
      /\ \A i \in 1 .. Len(s) - 1 : Tail(s)[i] = s[i + 1]
      /\ Head(s) \in Event /\ Head(s) = s[1]
  OBVIOUS
<1> DEFINE t == Tail(s)
<1>2. ToSet(s) \subseteq ToSet(t) \cup {Head(s)}
  <2> SUFFICES ASSUME NEW x \in ToSet(s) PROVE x \in ToSet(t) \cup {Head(s)}
    OBVIOUS
  <2>1. PICK i \in 1 .. Len(s) : x = s[i]
    BY SetOfSeq
  <2>2. CASE i = 1
    BY <1>1, <2>1, <2>2
  <2>3. CASE i # 1
    <3>1. i - 1 \in 1 .. Len(t) /\ t[i - 1] = s[i]
      BY <1>1, <2>3
    <3> HIDE DEF t
    <3> QED
      BY <1>1, <2>1, <3>1, SetOfSeq DEF t
  <2> QED
    BY <2>2, <2>3
<1>3. ToSet(t) \cup {Head(s)} \subseteq ToSet(s)
  <2>1. \A i \in 1 .. Len(t) : i + 1 \in 1 .. Len(s) /\ t[i] = s[i + 1]
    BY <1>1
  <2>2. 1 \in 1 .. Len(s) /\ Head(s) = s[1] /\ t \in Seq(Event)
    BY <1>1
  <2> HIDE DEF t
  <2> QED
    BY <2>1, <2>2, SetOfSeq
<1> QED
  BY <1>1, <1>2, <1>3

-----------------------------------------------------------------------------
(* Type correctness.  What is announced is an event because the status has *)
(* been decided by then, so the types and the place of the ends go         *)
(* together.                                                               *)

\* The end of an assessment is announced when both records have it; while one
\* is in the queue, a save cannot take it back.
EndsFollow ==
  /\ Ends(ToSet(queue)) # {} => {row.status, mem.status} \subseteq Terminal
  /\ epc = "queued" => Ends(ToSet(queue)) = {}
  /\ epc \in {"noticed", "final"} => mem.status \in Terminal
  /\ epc \in {"notify", "announce", "announced", "linger"} =>
       {row.status, mem.status} \subseteq Terminal

\* Put keeps queue and progress in bounds.
LEMMA PutTypes ==
  ASSUME TypeOK, NEW e \in Event, Put(e)
  PROVE  /\ mem' \in Snapshot /\ mem'.status = mem.status
         /\ mem'.progress = Newest(Append(mem.progress, e))
         /\ queue' = Newest(Append(queue, e))
         /\ queue' \in Seq(Event) /\ Len(queue') <= Cap
         /\ Len(mem'.progress) <= Cap
         /\ unsaved' = TRUE
<1>1. mem.progress \in Seq(Event) /\ mem.status \in Status
  BY DEF TypeOK, Snapshot
<1>2. /\ mem'.status = mem.status
      /\ mem'.progress = Newest(Append(mem.progress, e))
      /\ queue' = Newest(Append(queue, e))
      /\ mem' = [status |-> mem.status,
                 progress |-> Newest(Append(mem.progress, e))]
      /\ unsaved' = TRUE
  BY DEF Put, TypeOK, Snapshot
<1> QED
  BY <1>1, <1>2, Trimmed DEF TypeOK, Snapshot

\* What the page makes of events leaves page and stream well-formed.
LEMMA DeliverTypes ==
  ASSUME TypeOK, Watching, NEW events \in SUBSET Event,
         NEW next \in [at : StreamPC, snap : Snapshot, silence : 0 .. SilenceLimit],
         next.at # "none" \/ Ends(events) # {},
         Deliver(events, next)
  PROVE  /\ page' \in [shows : Shown, seen : SUBSET (1 .. NReports)]
         /\ stream' \in [at : StreamPC, snap : Snapshot, silence : 0 .. SilenceLimit]
         /\ stream'.at # "none" <=> page'.shows = "progress"
<1>c. Closed \in [at : StreamPC, snap : Snapshot, silence : 0 .. SilenceLimit]
  BY StreamAssumption DEF Closed, NoSnapshot, StreamPC, Snapshot, Status
<1>1. CASE Ends(events) # {}
  <2>1. PICK s \in Ends(events) : MarkDone(s)
    BY <1>1 DEF Deliver
  <2>2. s \in Shown /\ s # "progress"
    BY <2>1 DEF Ends, Shown, Terminal
  <2> QED
    BY <1>c, <2>1, <2>2 DEF MarkDone, Show, Closed
<1>2. CASE Ends(events) = {}
  <2>1. /\ stream' = next
        /\ page' = [page EXCEPT !.seen = @ \cup Numbers(events)]
    BY <1>2 DEF Deliver
  <2>2. Numbers(events) \subseteq 1 .. NReports
    BY EventTypes
  <2> QED
    BY <1>2, <2>1, <2>2 DEF TypeOK, Watching
<1> QED
  BY <1>1, <1>2

LEMMA EngineTypes ==
  ASSUME TypeOK, EndsFollow,
         \/ StartScan \/ ReportProgress \/ SaveProgress \/ NoticeCancel
         \/ LeaveLoops \/ SaveFinal \/ Notify \/ AnnounceEnd \/ Purge \/ DropQueue
  PROVE  TypeOK'
<1> USE DEF engine, browser, history, EnginePC
<1>m. /\ mem \in Snapshot /\ row \in Snapshot
      /\ mem.progress \in Seq(Event) /\ mem.status \in Status
      /\ mem = [status |-> mem.status, progress |-> mem.progress]
  BY DEF TypeOK, Snapshot
<1>s. \A s \in Status : [mem EXCEPT !.status = s]
                          = [status |-> s, progress |-> mem.progress]
  BY <1>m DEF Snapshot
<1>1. CASE StartScan
  <2>1. mem' = [status |-> "running", progress |-> mem.progress] /\ row' = mem'
    BY <1>1, <1>s DEF StartScan, Status
  <2> QED
    BY <1>1, <1>m, <2>1 DEF StartScan, TypeOK, Snapshot, Status
<1>2. CASE ReportProgress
  <2>1. PICK n \in 1 .. NReports : Put(Report(n))
    BY <1>2 DEF ReportProgress
  <2> QED
    BY <1>2, <2>1, EventTypes, PutTypes DEF ReportProgress, TypeOK
<1>3. CASE SaveProgress
  BY <1>3 DEF SaveProgress, TypeOK
<1>4. CASE NoticeCancel
  <2>1. CASE mem' = [mem EXCEPT !.status = "cancelled"] /\ UNCHANGED <<queue, unsaved>>
    <3>1. mem' = [status |-> "cancelled", progress |-> mem.progress]
      BY <2>1, <1>s DEF Status, Terminal
    <3> QED
      BY <1>4, <1>m, <2>1, <3>1 DEF NoticeCancel, TypeOK, Snapshot, Status, Terminal
  <2>2. CASE /\ queue' = Newest(Append(queue, End("cancelled")))
             /\ mem' = [status |-> "cancelled",
                        progress |-> Newest(Append(mem.progress, End("cancelled")))]
             /\ unsaved' = TRUE
    <3>1. End("cancelled") \in Event /\ "cancelled" \in Status
      BY EventTypes DEF Terminal, Status
    <3>2. /\ Newest(Append(queue, End("cancelled"))) \in Seq(Event)
          /\ Len(Newest(Append(queue, End("cancelled")))) <= Cap
          /\ Newest(Append(mem.progress, End("cancelled"))) \in Seq(Event)
          /\ Len(Newest(Append(mem.progress, End("cancelled")))) <= Cap
      BY <1>m, <3>1, Trimmed DEF TypeOK
    <3>3. mem' \in Snapshot /\ Len(mem'.progress) <= Cap
      BY <2>2, <3>1, <3>2 DEF Snapshot
    <3> QED
      BY <1>4, <2>2, <3>2, <3>3 DEF NoticeCancel, TypeOK
  <2> QED
    BY <1>4, <2>1, <2>2 DEF NoticeCancel
<1>5. CASE LeaveLoops
  <2>1. PICK s \in {"completed", "failed"} : mem' = [mem EXCEPT !.status = s]
    BY <1>5 DEF LeaveLoops
  <2>2. s \in Status
    BY DEF Status, Terminal
  <2> QED
    BY <1>5, <1>m, <1>s, <2>1, <2>2 DEF LeaveLoops, TypeOK, Snapshot
<1>6. CASE SaveFinal
  BY <1>6 DEF SaveFinal, TypeOK
<1>7. CASE Notify
  BY <1>7 DEF Notify, TypeOK
<1>8. CASE AnnounceEnd
  <2>1. mem.status \in Terminal
    BY <1>8 DEF AnnounceEnd, EndsFollow
  <2> QED
    BY <1>8, <2>1, EventTypes, PutTypes DEF AnnounceEnd, TypeOK
<1>9. CASE Purge
  <2>1. [mem EXCEPT !.progress = <<>>] = [status |-> mem.status, progress |-> <<>>]
    BY <1>m DEF Snapshot
  <2>2. <<>> \in Seq(Event) /\ Len(<<>>) <= Cap
    BY StreamAssumption
  <2>3. [mem EXCEPT !.progress = <<>>] \in Snapshot
    BY <1>m, <2>1, <2>2 DEF Snapshot
  <2>4. /\ mem' \in Snapshot /\ row' \in Snapshot
        /\ Len(mem'.progress) <= Cap /\ Len(row'.progress) <= Cap
    <3>1. CASE mem.status = "cancelled"
      BY <1>9, <2>1, <2>2, <2>3, <3>1 DEF Purge
    <3>2. CASE mem.status # "cancelled"
      BY <1>9, <3>2 DEF Purge, TypeOK
    <3> QED
      BY <3>1, <3>2
  <2> QED
    BY <1>9, <2>4 DEF Purge, TypeOK
<1>10. CASE DropQueue
  BY <1>10 DEF DropQueue, TypeOK
<1> QED
  BY <1>1, <1>2, <1>3, <1>4, <1>5, <1>6, <1>7, <1>8, <1>9, <1>10

LEMMA OtherTypes ==
  ASSUME TypeOK,
         \/ StreamReads \/ StreamReplays \/ StreamSends \/ StreamTimesOut
         \/ OtherStreamTakes \/ ConnectionBreaks \/ Reconnect
         \/ OpenPage \/ LeavePage \/ PollStatus \/ SendCancel
         \/ ReadForCancel \/ MarkCancelled \/ ClearProgress \/ CancelAnswered
         \/ Crash \/ Recover \/ UNCHANGED vars
  PROVE  TypeOK'
<1> USE DEF engine, browser, history
<1> DEFINE Streams == [at : StreamPC, snap : Snapshot, silence : 0 .. SilenceLimit]
<1>m. /\ mem \in Snapshot /\ row \in Snapshot
      /\ row.progress \in Seq(Event) /\ row.status \in Status
      /\ mem.progress \in Seq(Event)
      /\ stream.snap.progress \in Seq(Event) /\ stream.snap.status \in Status
  BY DEF TypeOK, Snapshot
<1>e. <<>> \in Seq(Event) /\ Len(<<>>) <= Cap /\ 0 \in 0 .. SilenceLimit
  BY StreamAssumption
<1>n. NoSnapshot \in Snapshot /\ NoSnapshot.progress = <<>>
  BY DEF NoSnapshot, Snapshot, Status
<1>c. \A at \in StreamPC : [Closed EXCEPT !.at = at] \in Streams
                           /\ [Closed EXCEPT !.at = at].at = at
  BY <1>e, <1>n DEF Closed
<1>k. /\ Closed \in Streams /\ Closed.at = "none"
      /\ \A what \in Shown : [shows |-> what, seen |-> {}]
                               \in [shows : Shown, seen : SUBSET (1 .. NReports)]
  BY <1>e, <1>n DEF Closed, StreamPC
<1>w. stream.at # "none" => Watching
  BY DEF TypeOK, Watching
<1>v. \A s \in Terminal : {End(s)} \subseteq Event /\ Ends({End(s)}) # {}
  BY EventTypes, EndsOfOne
<1>s. \A s \in Terminal : s \in Shown /\ s # "progress"
  BY DEF Shown, Terminal
<1>1. CASE StreamReads
  <2>1. stream' = [at |-> "replay", snap |-> row, silence |-> stream.silence]
    BY <1>1 DEF StreamReads, TypeOK
  <2>2. Numbers(ToSet(mem.progress)) \subseteq 1 .. NReports
    BY <1>m, SetOfSeq, EventTypes
  <2> QED
    BY <1>1, <1>m, <2>1, <2>2 DEF StreamReads, TypeOK, StreamPC
<1>2. CASE StreamReplays
  <2> DEFINE ends == IF stream.snap.status \in Terminal
                       THEN {End(stream.snap.status)} ELSE {}
             events == ToSet(stream.snap.progress) \cup ends
             next == [Closed EXCEPT !.at = IF epc = "ended" THEN "late" ELSE "live"]
  <2>1. events \in SUBSET Event
    BY <1>m, <1>v, SetOfSeq
  <2>2. next \in Streams /\ next.at # "none"
    BY <1>c DEF StreamPC
  <2>3. Deliver(events, next) /\ Watching
    BY <1>2, <1>w DEF StreamReplays
  <2> HIDE DEF events, next
  <2> QED
    BY <1>2, <2>1, <2>2, <2>3, DeliverTypes DEF StreamReplays, TypeOK
<1>3. CASE StreamSends
  <2>1. /\ Head(queue) \in Event
        /\ Tail(queue) \in Seq(Event) /\ Len(Tail(queue)) <= Cap
    BY <1>3, Taken, StreamAssumption DEF StreamSends, TypeOK
  <2>2. {Head(queue)} \in SUBSET Event /\ stream.at # "none" /\ Watching
    BY <1>3, <1>w, <2>1 DEF StreamSends
  <2>3. stream \in Streams
    BY DEF TypeOK
  <2> QED
    BY <1>3, <2>1, <2>2, <2>3, DeliverTypes DEF StreamSends, TypeOK
<1>4. CASE StreamTimesOut
  <2>0. Watching
    BY <1>4, <1>w DEF StreamTimesOut, Waits
  <2>1. CASE row.status \in Terminal
    <3>1. Deliver({End(row.status)}, Closed) /\ {End(row.status)} \in SUBSET Event
          /\ Ends({End(row.status)}) # {}
      BY <1>4, <1>v, <2>1 DEF StreamTimesOut
    <3> QED
      BY <1>4, <1>k, <2>0, <3>1, DeliverTypes DEF StreamTimesOut, TypeOK
  <2>2. CASE row.status \notin Terminal
    <3>1. KeepWaiting /\ UNCHANGED page
      BY <1>4, <2>2 DEF StreamTimesOut
    <3>2. stream' \in Streams /\ stream'.at # "none"
      <4>1. CASE stream.silence = SilenceLimit
        BY <1>c, <3>1, <4>1 DEF KeepWaiting, StreamPC
      <4>2. CASE stream.silence # SilenceLimit
        <5>1. stream.silence + 1 \in 0 .. SilenceLimit
          BY <4>2, StreamAssumption DEF TypeOK
        <5>2. stream' = [stream EXCEPT !.silence = @ + 1]
          BY <3>1, <4>2 DEF KeepWaiting
        <5>3. stream.at # "none"
          BY <1>4 DEF StreamTimesOut, Waits
        <5> QED
          BY <5>1, <5>2, <5>3 DEF TypeOK
      <4> QED
        BY <4>1, <4>2
    <3> QED
      BY <1>4, <2>0, <3>1, <3>2 DEF StreamTimesOut, TypeOK, Watching
  <2> QED
    BY <2>1, <2>2
<1>5. CASE OtherStreamTakes
  <2>1. Tail(queue) \in Seq(Event) /\ Len(Tail(queue)) <= Cap
    BY <1>5, Taken, StreamAssumption DEF OtherStreamTakes, TypeOK
  <2> QED
    BY <1>5, <2>1 DEF OtherStreamTakes, TypeOK
<1>6. CASE ConnectionBreaks
  <2>1. queue' \in Seq(Event) /\ Len(queue') <= Cap
    <3>1. queue' = queue \/ (queue # <<>> /\ queue' = Tail(queue))
      BY <1>6 DEF ConnectionBreaks
    <3> QED
      <4>1. queue \in Seq(Event) /\ Len(queue) <= Cap /\ Cap \in Nat
        BY StreamAssumption DEF TypeOK
      <4>2. CASE queue # <<>> /\ queue' = Tail(queue)
        BY <4>1, <4>2, Taken
      <4> QED
        BY <3>1, <4>1, <4>2
  <2>2. stream' \in Streams /\ stream'.at # "none" /\ stream.at # "none"
    BY <1>6, <1>c DEF ConnectionBreaks, StreamPC
  <2>3. drops' \in 0 .. MaxDrops
    BY <1>6, StreamAssumption DEF ConnectionBreaks, TypeOK
  <2> QED
    BY <1>6, <2>1, <2>2, <2>3 DEF ConnectionBreaks, TypeOK
<1>7. CASE Reconnect
  <2>1. stream' \in Streams /\ stream'.at # "none" /\ stream.at # "none"
    BY <1>7, <1>c DEF Reconnect, StreamPC
  <2> QED
    BY <1>7, <2>1 DEF Reconnect, TypeOK
<1>8. CASE OpenPage
  <2>1. stream' \in Streams /\ stream'.at # "none"
    BY <1>8, <1>c DEF OpenPage, StreamPC
  <2>2. /\ page' \in [shows : Shown, seen : SUBSET (1 .. NReports)]
        /\ page'.shows = "progress"
    BY <1>8 DEF OpenPage, TypeOK, Shown
  <2> QED
    BY <1>8, <2>1, <2>2 DEF OpenPage, TypeOK
<1>9. CASE LeavePage
  BY <1>9, <1>k DEF LeavePage, Show, TypeOK, Shown
<1>10. CASE PollStatus
  BY <1>10, <1>k, <1>s DEF PollStatus, MarkDone, Show, TypeOK
<1>11. CASE SendCancel
  BY <1>11, <1>e DEF SendCancel, Click, ClickPC, TypeOK
<1>12. CASE ReadForCancel
  BY <1>12, <1>e, <1>m DEF ReadForCancel, Click, ClickPC, TypeOK
<1>13. CASE MarkCancelled \/ ClearProgress
  <2>1. /\ row' \in Snapshot /\ Len(row'.progress) <= Cap
        /\ click' \in [at : ClickPC, progress : Seq(Event)]
        /\ Len(click'.progress) <= Cap
    <3>1. /\ click.progress \in Seq(Event) /\ Len(click.progress) <= Cap
          /\ "cancelled" \in Status /\ {"clear", "accepted"} \subseteq ClickPC
      BY DEF TypeOK, Status, Terminal, ClickPC
    <3>2. PICK p \in {<<>>, click.progress} :
            row' = [status |-> "cancelled", progress |-> p]
      BY <1>13 DEF MarkCancelled, ClearProgress
    <3>3. \E at \in {"clear", "accepted"} :
            click' = [at |-> at, progress |-> <<>>]
      BY <1>13 DEF MarkCancelled, ClearProgress, Click
    <3>4. row' \in Snapshot /\ Len(row'.progress) <= Cap
      <4>1. p \in Seq(Event) /\ Len(p) <= Cap
        BY <1>e, <3>1
      <4> QED
        BY <3>1, <3>2, <4>1 DEF Snapshot
    <3> QED
      BY <1>e, <3>1, <3>3, <3>4
  <2> QED
    BY <1>13, <2>1 DEF MarkCancelled, ClearProgress, TypeOK
<1>14. CASE CancelAnswered
  <2>1. /\ click' \in [at : ClickPC, progress : Seq(Event)]
        /\ Len(click'.progress) <= Cap
    BY <1>14, <1>e DEF CancelAnswered, Click, ClickPC
  <2>2. "cancelled" \in Terminal
    BY DEF Terminal
  <2>3. CASE Watching
    BY <1>14, <1>k, <1>s, <2>1, <2>2, <2>3
    DEF CancelAnswered, MarkDone, Show, TypeOK
  <2>4. CASE ~Watching
    BY <1>14, <2>1, <2>4 DEF CancelAnswered, TypeOK
  <2> QED
    BY <2>3, <2>4
<1>15. CASE Crash
  <2>1. /\ stream' \in Streams
        /\ stream'.at # "none" <=> page'.shows = "progress"
    BY <1>15, <1>c, <1>k DEF Crash, StreamPC, Watching
  <2>2. /\ click' \in [at : ClickPC, progress : Seq(Event)]
        /\ Len(click'.progress) <= Cap
    BY <1>15, <1>e DEF Crash, Click, ClickPC, TypeOK
  <2> QED
    BY <1>15, <1>e, <1>n, <2>1, <2>2 DEF Crash, TypeOK, EnginePC
<1>16. CASE Recover
  <2>1. row' \in Snapshot /\ row'.progress = row.progress
    BY <1>16 DEF Recover, TypeOK, Snapshot, Status, Terminal
  <2> QED
    BY <1>16, <2>1 DEF Recover, TypeOK
<1>17. CASE UNCHANGED vars
  BY <1>17 DEF vars, TypeOK
<1> QED
  BY <1>1, <1>2, <1>3, <1>4, <1>5, <1>6, <1>7, <1>8, <1>9, <1>10, <1>11,
     <1>12, <1>13, <1>14, <1>15, <1>16, <1>17

-----------------------------------------------------------------------------
(* The end of the assessment.                                              *)

\* A step that puts no end on the queue, decides nothing and takes no final
\* status back.
LEMMA EndsFrame ==
  ASSUME EndsFollow,
         Ends(ToSet(queue')) \subseteq Ends(ToSet(queue)),
         row.status \in Terminal => row'.status \in Terminal,
         mem.status \in Terminal => mem'.status \in Terminal,
         epc' \in {"queued", "noticed", "final", "notify", "announce",
                   "announced", "linger"} => epc' = epc
  PROVE  EndsFollow'
BY DEF EndsFollow

LEMMA EndsEngine ==
  ASSUME TypeOK, EndsFollow,
         \/ StartScan \/ ReportProgress \/ SaveProgress \/ NoticeCancel
         \/ LeaveLoops \/ SaveFinal \/ Notify \/ AnnounceEnd \/ Purge \/ DropQueue
  PROVE  EndsFollow'
<1> USE DEF engine, browser, history
<1>m. /\ mem.status \in Status /\ row.status \in Status
      /\ \A s : [mem EXCEPT !.status = s].status = s
      /\ [mem EXCEPT !.progress = <<>>].status = mem.status
  BY DEF TypeOK, Snapshot
<1>1. CASE StartScan
  BY <1>1, <1>m DEF StartScan, EndsFollow
<1>2. CASE ReportProgress
  <2>1. PICK n \in 1 .. NReports : Put(Report(n))
    BY <1>2 DEF ReportProgress
  <2>2. /\ ToSet(queue') \subseteq ToSet(queue) \cup {Report(n)}
        /\ mem'.status = mem.status
    BY <2>1, EventTypes, PutTypes, Trimmed DEF TypeOK
  <2>3. Ends(ToSet(queue')) \subseteq Ends(ToSet(queue))
    BY <2>2 DEF Ends, Report, End, Terminal
  <2> QED
    BY <1>2, <2>2, <2>3, EndsFrame DEF ReportProgress
<1>3. CASE SaveProgress
  BY <1>3 DEF SaveProgress, EndsFollow
<1>4. CASE NoticeCancel
  <2>1. row' = row /\ row.status = "cancelled"
    BY <1>4 DEF NoticeCancel
  <2>2. \/ mem' = [mem EXCEPT !.status = "cancelled"]
        \/ mem' = [status |-> "cancelled",
                   progress |-> Newest(Append(mem.progress, End("cancelled")))]
    BY <1>4 DEF NoticeCancel
  <2>3. mem'.status = "cancelled"
    <3>1. CASE mem' = [mem EXCEPT !.status = "cancelled"]
      BY <1>m, <3>1
    <3>2. CASE mem' = [status |-> "cancelled",
                       progress |-> Newest(Append(mem.progress, End("cancelled")))]
      BY <3>2
    <3> QED
      BY <2>2, <3>1, <3>2
  <2> QED
    BY <1>4, <2>1, <2>3 DEF NoticeCancel, EndsFollow, Terminal
<1>5. CASE LeaveLoops
  <2>1. mem'.status \in Terminal
    BY <1>5, <1>m DEF LeaveLoops, Terminal
  <2> QED
    BY <1>5, <2>1 DEF LeaveLoops, EndsFollow
<1>6. CASE SaveFinal
  BY <1>6 DEF SaveFinal, EndsFollow
<1>7. CASE Notify
  BY <1>7 DEF Notify, EndsFollow
<1>8. CASE AnnounceEnd
  <2>1. {row.status, mem.status} \subseteq Terminal
    BY <1>8 DEF AnnounceEnd, EndsFollow
  <2>2. mem'.status = mem.status /\ row' = row
    BY <1>8, <2>1, EventTypes, PutTypes DEF AnnounceEnd
  <2> QED
    BY <1>8, <2>1, <2>2 DEF AnnounceEnd, EndsFollow
<1>9. CASE Purge
  <2>1. {row.status, mem.status} \subseteq Terminal
    BY <1>9 DEF Purge, EndsFollow
  <2>2. {row'.status, mem'.status} \subseteq Terminal
    BY <1>9, <1>m, <2>1 DEF Purge
  <2> QED
    BY <1>9, <2>2 DEF Purge, EndsFollow
<1>10. CASE DropQueue
  BY <1>10, EndsFrame DEF DropQueue
<1> QED
  BY <1>1, <1>2, <1>3, <1>4, <1>5, <1>6, <1>7, <1>8, <1>9, <1>10

LEMMA EndsOthers ==
  ASSUME TypeOK, EndsFollow,
         \/ StreamReads \/ StreamReplays \/ StreamSends \/ StreamTimesOut
         \/ OtherStreamTakes \/ ConnectionBreaks \/ Reconnect
         \/ OpenPage \/ LeavePage \/ PollStatus \/ SendCancel
         \/ ReadForCancel \/ MarkCancelled \/ ClearProgress \/ CancelAnswered
         \/ Crash \/ Recover \/ UNCHANGED vars
  PROVE  EndsFollow'
<1> USE DEF engine, browser, history
<1>1. CASE \/ StreamReads \/ StreamReplays \/ StreamTimesOut \/ Reconnect
           \/ OpenPage \/ LeavePage \/ PollStatus \/ SendCancel
           \/ ReadForCancel \/ CancelAnswered \/ UNCHANGED vars
  <2>1. UNCHANGED <<row, mem, epc, queue>>
    BY <1>1
    DEF StreamReads, StreamReplays, StreamTimesOut, Reconnect, OpenPage,
        LeavePage, PollStatus, SendCancel, ReadForCancel, CancelAnswered, vars
  <2> QED
    BY <2>1, EndsFrame
<1>2. CASE StreamSends \/ OtherStreamTakes \/ ConnectionBreaks
  <2>1. /\ UNCHANGED <<row, mem, epc>>
        /\ queue' = queue \/ (queue # <<>> /\ queue' = Tail(queue))
    BY <1>2 DEF StreamSends, OtherStreamTakes, ConnectionBreaks
  <2>2. ToSet(queue') \subseteq ToSet(queue)
    BY <2>1, Taken DEF TypeOK
  <2> QED
    BY <2>1, <2>2, Unions, EndsFrame
<1>3. CASE MarkCancelled \/ ClearProgress
  <2>1. UNCHANGED <<mem, epc, queue>> /\ row'.status \in Terminal
    BY <1>3 DEF MarkCancelled, ClearProgress, Terminal
  <2> QED
    BY <2>1, EndsFrame
<1>4. CASE Crash
  <2>1. queue' = <<>> /\ epc' \in {"ended", "aborted", "dead"}
    BY <1>4 DEF Crash
  <2> QED
    BY <2>1, EmptySet, EndsOfOne DEF EndsFollow
<1>5. CASE Recover
  <2>1. UNCHANGED <<mem, epc, queue>>
    BY <1>5 DEF Recover
  <2>2. row.status \in Terminal => row' = row
    BY <1>5 DEF Recover, Terminal
  <2> QED
    BY <2>1, <2>2, EndsFrame
<1> QED
  BY <1>1, <1>2, <1>3, <1>4, <1>5

\* Both at once.
LEMMA EndsAlways == Spec => [](TypeOK /\ EndsFollow)
<1>1. Init => TypeOK /\ EndsFollow
  <2> SUFFICES ASSUME Init PROVE TypeOK /\ EndsFollow
    OBVIOUS
  <2>1. <<>> \in Seq(Event) /\ ToSet(<<>>) = {} /\ Len(<<>>) <= Cap
    BY StreamAssumption, EmptySet
  <2>2. NoSnapshot \in Snapshot
    BY <2>1 DEF NoSnapshot, Snapshot, Status
  <2>3. stream \in [at : StreamPC, snap : Snapshot, silence : 0 .. SilenceLimit]
    BY <2>2, StreamAssumption DEF Init, Closed, StreamPC
  <2>4. TypeOK
    <3>1. /\ row \in Snapshot /\ mem \in Snapshot
          /\ row.progress = <<>> /\ mem.progress = <<>>
      BY <2>2 DEF Init, NoSnapshot
    <3>2. /\ click \in [at : ClickPC, progress : Seq(Event)]
          /\ click.progress = <<>>
      BY <2>1 DEF Init, Click, ClickPC
    <3>3. /\ page \in [shows : Shown, seen : SUBSET (1 .. NReports)]
          /\ stream.at = "none" /\ page.shows = "nothing"
      BY DEF Init, Shown, Closed
    <3>4. 0 \in 0 .. MaxDrops
      BY StreamAssumption
    <3> QED
      BY <2>1, <2>3, <3>1, <3>2, <3>3, <3>4 DEF Init, TypeOK, EnginePC
  <2>5. EndsFollow
    BY <2>1, EndsOfOne DEF Init, EndsFollow
  <2> QED
    BY <2>4, <2>5
<1>2. TypeOK /\ EndsFollow /\ [Next]_vars => (TypeOK /\ EndsFollow)'
  BY StepCases, EngineTypes, OtherTypes, EndsEngine, EndsOthers
<1> QED
  BY <1>1, <1>2, PTL DEF Spec

\* Queue and records keep their bounds and hold events only, and a stream is
\* open exactly while its page shows progress.
THEOREM StreamTypeCorrect == Spec => []TypeOK
BY EndsAlways, PTL

\* No page hears of an end before the row has it, whatever saves, cancel
\* requests and crashes come between: _emit has awaited its own save, and no
\* save takes a final status back while its announcement is on the way.
THEOREM EndAlwaysStored == Spec => []EndIsStored
<1>1. EndsFollow => EndIsStored
  BY DEF EndsFollow, EndIsStored
<1> QED
  BY <1>1, EndsAlways, PTL

-----------------------------------------------------------------------------
(* The page that has the queue to itself.                                  *)

\* The queue holds the last events of the progress: both drop the oldest one
\* at the same length, and whoever takes an event takes the oldest.
Recent(q, progress) ==
  /\ Len(q) <= Len(progress)
  /\ \A i \in 1 .. Len(q) : q[i] = progress[Len(progress) - Len(q) + i]

QueueIsRecent ==
  epc \notin {"linger", "ended", "aborted", "dead"} => Recent(queue, mem.progress)

Reaches(more) ==
  Numbers(ToSet(mem.progress)) \subseteq
    page.seen \cup Numbers(ToSet(queue)) \cup missed \cup more

\* From the moment the stream read the row: what it is about to replay fills
\* the gap.
ViewerFollows ==
  alone =>
    /\ stream.at = "live" => Reaches({})
    /\ stream.at = "replay" => Reaches(Numbers(ToSet(stream.snap.progress)))

\* One more event: the queue is still recent, and it has dropped nothing that
\* the progress keeps.
LEMMA RecentPut ==
  ASSUME NEW q \in Seq(Event), NEW progress \in Seq(Event), NEW e \in Event,
         Len(progress) <= Cap, Recent(q, progress)
  PROVE  LET t == Newest(Append(q, e))
             u == Newest(Append(progress, e)) IN
         /\ Recent(t, u)
         /\ ToSet(u) \subseteq ToSet(progress) \cup {e}
         /\ \/ ToSet(t) = ToSet(u)
            \/ ToSet(t) = ToSet(q) \cup {e}
<1> DEFINE t == Newest(Append(q, e))
           u == Newest(Append(progress, e))
<1>1. /\ Len(q) \in Nat /\ Len(progress) \in Nat /\ Cap \in Nat /\ Cap >= 1
      /\ Len(q) <= Len(progress) /\ Len(q) <= Cap
      /\ \A i \in 1 .. Len(q) : q[i] = progress[Len(progress) - Len(q) + i]
  BY StreamAssumption DEF Recent
<1>2. /\ t \in Seq(Event) /\ u \in Seq(Event)
      /\ ToSet(u) \subseteq ToSet(progress) \cup {e}
      /\ Len(q) < Cap => t = Append(q, e) /\ ToSet(t) = ToSet(q) \cup {e}
      /\ Len(progress) < Cap => u = Append(progress, e)
      /\ Len(q) = Cap => /\ Len(t) = Cap
                         /\ \A i \in 1 .. Cap :
                              t[i] = IF i = Cap THEN e ELSE q[i + 1]
      /\ Len(progress) = Cap => /\ Len(u) = Cap
                                /\ \A i \in 1 .. Cap :
                                     u[i] = IF i = Cap THEN e ELSE progress[i + 1]
  BY <1>1, Trimmed
<1>3. CASE Len(progress) < Cap
  <2>1. /\ Len(t) = Len(q) + 1 /\ Len(u) = Len(progress) + 1
        /\ \A i \in 1 .. Len(q) : t[i] = q[i]
        /\ t[Len(q) + 1] = e
        /\ \A i \in 1 .. Len(progress) : u[i] = progress[i]
        /\ u[Len(progress) + 1] = e
    <3>1. t = Append(q, e) /\ u = Append(progress, e)
      BY <1>1, <1>2, <1>3
    <3> HIDE DEF t, u
    <3> QED
      BY <3>1
  <2> HIDE DEF t, u
  <2>2. ASSUME NEW i \in 1 .. Len(t) PROVE t[i] = u[Len(u) - Len(t) + i]
    <3>1. CASE i = Len(q) + 1
      BY <1>1, <2>1, <3>1
    <3>2. CASE i # Len(q) + 1
      <4>1. i \in 1 .. Len(q)
        BY <1>1, <2>1, <3>2
      <4>2. Len(progress) - Len(q) + i \in 1 .. Len(progress)
        BY <1>1, <4>1
      <4>3. Len(u) - Len(t) + i = Len(progress) - Len(q) + i
        BY <1>1, <2>1, <4>1
      <4> QED
        BY <1>1, <2>1, <4>1, <4>2, <4>3
    <3> QED
      BY <3>1, <3>2
  <2>3. Recent(t, u)
    BY <1>1, <2>1, <2>2 DEF Recent
  <2> QED
    BY <1>1, <1>2, <1>3, <2>3 DEF t, u
<1>4. CASE Len(progress) = Cap /\ Len(q) < Cap
  <2>1. /\ Len(t) = Len(q) + 1 /\ Len(u) = Cap
        /\ \A i \in 1 .. Len(q) : t[i] = q[i]
        /\ t[Len(q) + 1] = e
        /\ \A i \in 1 .. Cap : u[i] = IF i = Cap THEN e ELSE progress[i + 1]
    BY <1>1, <1>2, <1>4
  <2> HIDE DEF t, u
  <2>2. ASSUME NEW i \in 1 .. Len(t) PROVE t[i] = u[Len(u) - Len(t) + i]
    <3>1. CASE i = Len(q) + 1
      BY <1>1, <1>4, <2>1, <3>1
    <3>2. CASE i # Len(q) + 1
      <4>1. i \in 1 .. Len(q) /\ i \in Nat
        BY <1>1, <2>1, <3>2
      <4> DEFINE k == Len(u) - Len(t) + i
      <4>2. /\ k \in 1 .. Cap /\ k # Cap
            /\ k + 1 = Len(progress) - Len(q) + i
        BY <1>1, <1>4, <2>1, <4>1
      <4> HIDE DEF k
      <4>3. u[k] = progress[k + 1]
        BY <2>1, <4>2
      <4> QED
        BY <1>1, <2>1, <4>1, <4>2, <4>3 DEF k
    <3> QED
      BY <3>1, <3>2
  <2>3. Recent(t, u)
    BY <1>1, <1>4, <2>1, <2>2 DEF Recent
  <2> QED
    BY <1>2, <1>4, <2>3 DEF t, u
<1>5. CASE Len(progress) = Cap /\ Len(q) = Cap
  <2>1. \A i \in 1 .. Cap : q[i] = progress[i]
    BY <1>1, <1>5
  <2> HIDE DEF t, u
  <2>2. \A i \in 1 .. Cap : t[i] = u[i]
    <3> SUFFICES ASSUME NEW i \in 1 .. Cap PROVE t[i] = u[i]
      OBVIOUS
    <3>1. i = Cap \/ i + 1 \in 1 .. Cap
      BY <1>1
    <3> QED
      BY <1>2, <1>5, <2>1, <3>1
  <2>3. Len(t) = Cap /\ Len(u) = Cap
    BY <1>2, <1>5
  <2>4. Recent(t, u)
    BY <1>1, <2>2, <2>3 DEF Recent
  <2>5. ToSet(t) = ToSet(u)
    BY <1>2, <2>2, <2>3, SetOfSeq
  <2> QED
    BY <1>2, <2>4, <2>5 DEF t, u
<1> QED
  BY <1>1, <1>3, <1>4, <1>5

\* The oldest event is taken.
LEMMA RecentTake ==
  ASSUME NEW q \in Seq(Event), q # <<>>, NEW progress \in Seq(Event),
         Recent(q, progress)
  PROVE  Recent(Tail(q), progress)
<1> DEFINE t == Tail(q)
<1>1. /\ Len(t) = Len(q) - 1 /\ Len(q) \in Nat \ {0} /\ Len(progress) \in Nat
      /\ \A i \in 1 .. Len(q) - 1 : t[i] = q[i + 1]
  BY Taken
<1> HIDE DEF t
<1>2. ASSUME NEW i \in 1 .. Len(t)
      PROVE  t[i] = progress[Len(progress) - Len(t) + i]
  <2>1. i + 1 \in 1 .. Len(q)
    BY <1>1
  <2>2. Len(progress) - Len(q) + (i + 1) = Len(progress) - Len(t) + i
    BY <1>1
  <2> QED
    BY <1>1, <2>1, <2>2 DEF Recent
<1>3. Recent(t, progress)
  BY <1>1, <1>2 DEF Recent
<1> QED
  BY <1>3 DEF t

\* What a step that puts an event does to both.
LEMMA FollowsPut ==
  ASSUME TypeOK, QueueIsRecent, ViewerFollows, NEW e \in Event,
         epc \notin {"linger", "ended", "aborted", "dead"},
         queue' = Newest(Append(queue, e)),
         mem'.progress = Newest(Append(mem.progress, e)),
         UNCHANGED <<browser, history>>
  PROVE  QueueIsRecent' /\ ViewerFollows'
<1>1. /\ queue \in Seq(Event) /\ mem.progress \in Seq(Event)
      /\ Len(mem.progress) <= Cap
      /\ Recent(queue, mem.progress)
  BY DEF TypeOK, Snapshot, QueueIsRecent
<1>2. /\ Recent(queue', mem'.progress)
      /\ ToSet(mem'.progress) \subseteq ToSet(mem.progress) \cup {e}
      /\ \/ ToSet(queue') = ToSet(mem'.progress)
         \/ ToSet(queue') = ToSet(queue) \cup {e}
  BY <1>1, RecentPut
<1>3. \/ Numbers(ToSet(queue')) = Numbers(ToSet(mem'.progress))
      \/ /\ Numbers(ToSet(queue')) = Numbers(ToSet(queue)) \cup Numbers({e})
         /\ Numbers(ToSet(mem'.progress)) \subseteq
              Numbers(ToSet(mem.progress)) \cup Numbers({e})
  BY <1>2 DEF Numbers
<1>4. ASSUME NEW more, Reaches(more)
      PROVE  Numbers(ToSet(mem'.progress)) \subseteq
               page'.seen \cup Numbers(ToSet(queue')) \cup missed' \cup more
  BY <1>3, <1>4 DEF Reaches, browser, history
<1>5. ViewerFollows'
  BY <1>4 DEF ViewerFollows, Reaches, browser, history
<1> QED
  BY <1>2, <1>5 DEF QueueIsRecent

\* A step that leaves the queue, the progress (or empties it) and a stream
\* that reads it.
LEMMA FollowsFrame ==
  ASSUME TypeOK, QueueIsRecent, ViewerFollows,
         \/ mem'.progress = mem.progress
         \/ mem'.progress = <<>>,
         queue' = queue,
         epc' \notin {"linger", "ended", "aborted", "dead"} =>
           /\ mem'.progress = mem.progress
           /\ epc \notin {"linger", "ended", "aborted", "dead"},
         alone' => alone,
         stream'.at \in {"live", "replay"} =>
           UNCHANGED <<stream, page, missed>>
  PROVE  QueueIsRecent' /\ ViewerFollows'
<1>1. QueueIsRecent'
  BY DEF QueueIsRecent
<1>2. Numbers(ToSet(mem'.progress)) \subseteq Numbers(ToSet(mem.progress))
  BY EmptySet DEF Numbers
<1>3. ViewerFollows'
  BY <1>2 DEF ViewerFollows, Reaches
<1> QED
  BY <1>1, <1>3

LEMMA FollowsEngine ==
  ASSUME TypeOK, EndsFollow, QueueIsRecent, ViewerFollows,
         \/ StartScan \/ ReportProgress \/ SaveProgress \/ NoticeCancel
         \/ LeaveLoops \/ SaveFinal \/ Notify \/ AnnounceEnd \/ Purge \/ DropQueue
  PROVE  QueueIsRecent' /\ ViewerFollows'
<1>m. /\ \A s : [mem EXCEPT !.status = s].progress = mem.progress
      /\ [mem EXCEPT !.progress = <<>>].progress = <<>>
  BY DEF TypeOK, Snapshot
<1>b. UNCHANGED <<browser, history>>
  BY DEF StartScan, ReportProgress, SaveProgress, NoticeCancel, LeaveLoops,
         SaveFinal, Notify, AnnounceEnd, Purge, DropQueue
<1>f. ASSUME queue' = queue,
             mem'.progress = mem.progress \/ mem'.progress = <<>>,
             epc' \notin {"linger", "ended", "aborted", "dead"} =>
               /\ mem'.progress = mem.progress
               /\ epc \notin {"linger", "ended", "aborted", "dead"}
      PROVE  QueueIsRecent' /\ ViewerFollows'
  BY <1>b, <1>f, FollowsFrame DEF browser, history
<1>1. CASE \/ StartScan \/ SaveProgress \/ LeaveLoops \/ SaveFinal \/ Notify
           \/ DropQueue
  <2>1. /\ queue' = queue
        /\ mem'.progress = mem.progress
        /\ epc' \notin {"linger", "ended", "aborted", "dead"} =>
             epc \notin {"linger", "ended", "aborted", "dead"}
    BY <1>1, <1>m
    DEF StartScan, SaveProgress, LeaveLoops, SaveFinal, Notify, DropQueue
  <2> QED
    BY <2>1, <1>f
<1>2. CASE ReportProgress
  <2>1. PICK n \in 1 .. NReports : Put(Report(n))
    BY <1>2 DEF ReportProgress
  <2>2. Report(n) \in Event
    BY EventTypes
  <2>3. epc = "working"
    BY <1>2 DEF ReportProgress
  <2> QED
    BY <1>b, <2>1, <2>2, <2>3, PutTypes, FollowsPut
<1>3. CASE NoticeCancel
  <2>1. End("cancelled") \in Event
    BY EventTypes DEF Terminal
  <2>2. epc = "working" /\ epc' = "noticed"
    BY <1>3 DEF NoticeCancel
  <2>3. CASE mem' = [mem EXCEPT !.status = "cancelled"] /\ UNCHANGED <<queue, unsaved>>
    BY <1>m, <1>f, <2>2, <2>3
  <2>4. CASE /\ queue' = Newest(Append(queue, End("cancelled")))
             /\ mem' = [status |-> "cancelled",
                        progress |-> Newest(Append(mem.progress, End("cancelled")))]
    <3>1. mem'.progress = Newest(Append(mem.progress, End("cancelled")))
      BY <2>4
    <3> QED
      BY <1>b, <2>1, <2>2, <2>4, <3>1, FollowsPut
  <2> QED
    BY <1>3, <2>3, <2>4 DEF NoticeCancel
<1>4. CASE AnnounceEnd
  <2>1. /\ End(mem.status) \in Event /\ Put(End(mem.status))
        /\ epc = "announce"
    BY <1>4, EventTypes DEF AnnounceEnd, EndsFollow
  <2> QED
    BY <1>b, <2>1, PutTypes, FollowsPut
<1>5. CASE Purge
  BY <1>5, <1>m, <1>f DEF Purge
<1> QED
  BY <1>1, <1>2, <1>3, <1>4, <1>5

\* The stream sends the oldest event of the queue.
LEMMA FollowsSend ==
  ASSUME TypeOK, QueueIsRecent, ViewerFollows, StreamSends
  PROVE  QueueIsRecent' /\ ViewerFollows'
<1>1. /\ queue \in Seq(Event) /\ queue # <<>> /\ queue' = Tail(queue)
      /\ mem.progress \in Seq(Event)
      /\ UNCHANGED <<mem, epc, alone, missed>>
      /\ stream.at = "live"
      /\ Deliver({Head(queue)}, stream)
  BY DEF StreamSends, engine, history, TypeOK, Snapshot
<1>2. QueueIsRecent'
  BY <1>1, RecentTake DEF QueueIsRecent
<1>3. CASE Ends({Head(queue)}) # {}
  <2>1. stream' = Closed
    BY <1>1, <1>3 DEF Deliver, MarkDone, Show
  <2> QED
    BY <1>2, <2>1 DEF ViewerFollows, Closed
<1>4. CASE Ends({Head(queue)}) = {}
  <2>1. /\ stream' = stream
        /\ page'.seen = page.seen \cup Numbers({Head(queue)})
    BY <1>1, <1>4 DEF Deliver, TypeOK
  <2>2. Numbers(ToSet(queue)) = Numbers(ToSet(queue')) \cup Numbers({Head(queue)})
    BY <1>1, Taken DEF Numbers
  <2>3. Reaches({}) => Reaches({})'
    BY <1>1, <2>1, <2>2 DEF Reaches
  <2> QED
    BY <1>1, <1>2, <2>1, <2>3 DEF ViewerFollows
<1> QED
  BY <1>3, <1>4

\* The stream replays the row.
LEMMA FollowsReplay ==
  ASSUME TypeOK, QueueIsRecent, ViewerFollows, StreamReplays
  PROVE  QueueIsRecent' /\ ViewerFollows'
<1> DEFINE ends == IF stream.snap.status \in Terminal
                     THEN {End(stream.snap.status)} ELSE {}
           events == ToSet(stream.snap.progress) \cup ends
           next == [Closed EXCEPT !.at = IF epc = "ended" THEN "late" ELSE "live"]
<1>1. /\ UNCHANGED <<queue, mem, epc, alone, missed>>
      /\ stream.at = "replay"
      /\ Deliver(events, next)
  BY DEF StreamReplays, engine, history
<1>2. QueueIsRecent'
  BY <1>1 DEF QueueIsRecent
<1>n. next.at \in {"late", "live"}
  BY DEF Closed
<1>s. Numbers(ToSet(stream.snap.progress)) \subseteq Numbers(events)
  BY DEF Numbers
<1> HIDE DEF next, events
<1>3. CASE Ends(events) # {}
  <2>1. stream' = Closed
    BY <1>1, <1>3 DEF Deliver, MarkDone, Show
  <2> QED
    BY <1>2, <2>1 DEF ViewerFollows, Closed
<1>4. CASE Ends(events) = {}
  <2>1. /\ stream' = next
        /\ page'.seen = page.seen \cup Numbers(events)
    BY <1>1, <1>4 DEF Deliver, TypeOK
  <2>2. Reaches(Numbers(ToSet(stream.snap.progress))) => Reaches({})'
    BY <1>1, <1>s, <2>1 DEF Reaches
  <2> QED
    BY <1>1, <1>2, <1>n, <2>1, <2>2 DEF ViewerFollows
<1> QED
  BY <1>3, <1>4

LEMMA FollowsOthers ==
  ASSUME TypeOK, QueueIsRecent, ViewerFollows,
         \/ StreamReads \/ StreamReplays \/ StreamSends \/ StreamTimesOut
         \/ OtherStreamTakes \/ ConnectionBreaks \/ Reconnect
         \/ OpenPage \/ LeavePage \/ PollStatus \/ SendCancel
         \/ ReadForCancel \/ MarkCancelled \/ ClearProgress \/ CancelAnswered
         \/ Crash \/ Recover \/ UNCHANGED vars
  PROVE  QueueIsRecent' /\ ViewerFollows'
<1> USE DEF engine, browser, history
<1>c. /\ Closed.at = "none"
      /\ \A at : [Closed EXCEPT !.at = at].at = at
  BY DEF Closed
<1>1. CASE StreamReads
  <2>1. /\ UNCHANGED <<queue, mem, epc, alone, page>>
        /\ stream'.at = "replay" /\ stream'.snap = row
        /\ missed' = Numbers(ToSet(mem.progress)) \
             (page.seen \cup Numbers(ToSet(queue)) \cup Numbers(ToSet(row.progress)))
    BY <1>1 DEF StreamReads, TypeOK
  <2>2. QueueIsRecent'
    BY <2>1 DEF QueueIsRecent
  <2>3. Reaches(Numbers(ToSet(stream.snap.progress)))'
    BY <2>1 DEF Reaches
  <2> QED
    BY <2>1, <2>2, <2>3 DEF ViewerFollows
<1>2. CASE OtherStreamTakes \/ ConnectionBreaks
  <2>1. /\ UNCHANGED <<mem, epc>>
        /\ queue' = queue \/ (queue # <<>> /\ queue' = Tail(queue))
        /\ ~alone' \/ stream'.at = "cut"
    BY <1>2, <1>c DEF OtherStreamTakes, ConnectionBreaks
  <2>2. queue \in Seq(Event) /\ mem.progress \in Seq(Event)
    BY DEF TypeOK, Snapshot
  <2>3. QueueIsRecent'
    <3>1. CASE queue # <<>> /\ queue' = Tail(queue)
      BY <2>1, <2>2, <3>1, RecentTake DEF QueueIsRecent
    <3>2. CASE queue' = queue
      BY <2>1, <3>2 DEF QueueIsRecent
    <3> QED
      BY <2>1, <3>1, <3>2
  <2> QED
    BY <2>1, <2>3 DEF ViewerFollows
<1>3. CASE SendCancel \/ ReadForCancel \/ MarkCancelled \/ ClearProgress \/ Recover
           \/ UNCHANGED vars
  <2>1. UNCHANGED <<queue, mem, epc, alone, stream, page, missed>>
    BY <1>3 DEF SendCancel, ReadForCancel, MarkCancelled, ClearProgress, Recover, vars
  <2> QED
    BY <2>1, FollowsFrame
<1>4. CASE Reconnect \/ OpenPage \/ LeavePage \/ PollStatus
  <2>1. /\ UNCHANGED <<queue, mem, epc, alone>>
        /\ stream'.at \in {"none", "read"}
    BY <1>4, <1>c DEF Reconnect, OpenPage, LeavePage, PollStatus, MarkDone, Show
  <2> QED
    BY <2>1, FollowsFrame
<1>5. CASE CancelAnswered
  <2>1. /\ UNCHANGED <<queue, mem, epc, alone, missed>>
        /\ stream'.at = "none" \/ UNCHANGED <<stream, page>>
    BY <1>5, <1>c DEF CancelAnswered, MarkDone, Show
  <2> QED
    BY <2>1, FollowsFrame
<1>6. CASE StreamTimesOut
  <2>1. /\ UNCHANGED <<queue, mem, epc, alone, missed>>
        /\ Waits
    BY <1>6 DEF StreamTimesOut
  <2>2. CASE row.status \in Terminal
    <3>1. \E s \in Ends({End(row.status)}) : MarkDone(s)
      BY <1>6, <2>2, EndsOfOne DEF StreamTimesOut, Deliver
    <3>2. stream'.at = "none"
      BY <1>c, <3>1 DEF MarkDone, Show
    <3> QED
      BY <2>1, <3>2, FollowsFrame
  <2>3. CASE row.status \notin Terminal
    <3>1. /\ page' = page
          /\ \/ stream' = [Closed EXCEPT !.at = "cut"]
             \/ stream' = [stream EXCEPT !.silence = @ + 1]
      BY <1>6, <2>3 DEF StreamTimesOut, KeepWaiting
    <3>2. \/ stream'.at = "cut"
          \/ stream'.at = stream.at /\ stream'.at \in {"live", "late"}
      BY <1>c, <2>1, <3>1 DEF Waits, TypeOK
    <3>3. QueueIsRecent'
      BY <2>1 DEF QueueIsRecent
    <3>4. Reaches({}) => Reaches({})'
      BY <2>1, <3>1 DEF Reaches
    <3> QED
      BY <2>1, <3>2, <3>3, <3>4 DEF ViewerFollows
  <2> QED
    BY <2>2, <2>3
<1>7. CASE Crash
  <2>1. /\ epc' \in {"ended", "aborted", "dead"}
        /\ stream'.at \in {"cut", "none"}
    BY <1>7, <1>c DEF Crash
  <2> QED
    BY <2>1 DEF QueueIsRecent, ViewerFollows
<1> QED
  BY <1>1, <1>2, <1>3, <1>4, <1>5, <1>6, <1>7, FollowsSend, FollowsReplay

\* A page that shares the queue with nobody has been sent or will be sent
\* every recent report, apart from those that were neither saved nor queued
\* when it read the row: what the bounded queue drops, the bounded progress
\* has dropped too.
THEOREM LoneViewerAlwaysUpToDate == Spec => []LoneViewerIsUpToDate
<1>1. Init => QueueIsRecent /\ ViewerFollows
  <2> SUFFICES ASSUME Init PROVE QueueIsRecent /\ ViewerFollows
    OBVIOUS
  <2>1. /\ queue = <<>> /\ mem.progress = <<>> /\ stream.at = "none"
    BY DEF Init, NoSnapshot, Closed
  <2>2. Recent(<<>>, <<>>)
    BY DEF Recent
  <2> QED
    BY <2>1, <2>2 DEF QueueIsRecent, ViewerFollows
<1>2. TypeOK /\ EndsFollow /\ QueueIsRecent /\ ViewerFollows /\ [Next]_vars
        => (QueueIsRecent /\ ViewerFollows)'
  BY StepCases, FollowsEngine, FollowsOthers
<1>3. ViewerFollows => LoneViewerIsUpToDate
  BY DEF ViewerFollows, LoneViewerIsUpToDate, Reaches
<1> QED
  BY <1>1, <1>2, <1>3, EndsAlways, PTL DEF Spec

-----------------------------------------------------------------------------
(* What a page can find out.                                               *)

\* The safety side of StreamTellsTheEnd and CrashIsTold: what a stream's
\* timeout and the status poll find in the row, once run_scan is over or the
\* restart is done, is an end.
EndCanBeRead ==
  \/ epc \in {"ended", "aborted"}
  \/ server = "recovered" /\ row.status # "pending"
  => row.status \in Terminal

\* run_scan is over with its row final, and what is still unsaved is final
\* too; after a crash nothing of it is left to save.
EndKept ==
  /\ epc \in {"ended", "aborted"} =>
       row.status \in Terminal /\ (unsaved => mem.status \in Terminal)
  /\ server # "up" => epc \in {"ended", "aborted", "dead"} /\ ~unsaved
  /\ server = "recovered" => row.status # "running"

LEMMA EndKeptEngine ==
  ASSUME TypeOK, EndsFollow, EndKept, server # "down",
         \/ StartScan \/ ReportProgress \/ SaveProgress \/ NoticeCancel
         \/ LeaveLoops \/ SaveFinal \/ Notify \/ AnnounceEnd \/ Purge \/ DropQueue
  PROVE  EndKept'
<1> USE DEF EndKept, EndsFollow, Put, engine, browser, history
<1>1. CASE \/ StartScan \/ ReportProgress \/ NoticeCancel \/ LeaveLoops \/ SaveFinal
           \/ AnnounceEnd \/ Purge
  BY <1>1 DEF StartScan, ReportProgress, NoticeCancel, LeaveLoops, SaveFinal,
              AnnounceEnd, Purge
<1>2. CASE Notify \/ DropQueue
  BY <1>2 DEF Notify, DropQueue
<1>3. CASE SaveProgress
  BY <1>3 DEF SaveProgress
<1> QED
  BY <1>1, <1>2, <1>3

LEMMA EndKeptOthers ==
  ASSUME TypeOK, EndKept,
         \/ StreamReads \/ StreamReplays \/ StreamSends \/ StreamTimesOut
         \/ OtherStreamTakes \/ ConnectionBreaks \/ Reconnect
         \/ OpenPage \/ LeavePage \/ PollStatus \/ SendCancel
         \/ ReadForCancel \/ MarkCancelled \/ ClearProgress \/ CancelAnswered
         \/ Crash \/ Recover \/ UNCHANGED vars
  PROVE  EndKept'
<1> USE DEF EndKept, engine, browser, history
<1>1. CASE \/ StreamReads \/ StreamReplays \/ StreamSends \/ StreamTimesOut
           \/ OtherStreamTakes \/ ConnectionBreaks \/ Reconnect
           \/ OpenPage \/ LeavePage \/ PollStatus \/ SendCancel
           \/ ReadForCancel \/ CancelAnswered \/ UNCHANGED vars
  <2>1. UNCHANGED <<row, mem, unsaved, epc, server>>
    BY <1>1
    DEF StreamReads, StreamReplays, StreamSends, StreamTimesOut,
        OtherStreamTakes, ConnectionBreaks, Reconnect, OpenPage, LeavePage,
        PollStatus, SendCancel, ReadForCancel, CancelAnswered, vars
  <2> QED
    BY <2>1
<1>2. CASE MarkCancelled \/ ClearProgress
  <2>1. UNCHANGED <<mem, unsaved, epc, server>> /\ row'.status = "cancelled"
    BY <1>2 DEF MarkCancelled, ClearProgress
  <2> QED
    BY <2>1 DEF Terminal
<1>3. CASE Crash
  <2>1. /\ UNCHANGED row /\ server' = "down" /\ unsaved' = FALSE
        /\ epc' = IF epc \in {"ended", "aborted"} THEN epc ELSE "dead"
    BY <1>3 DEF Crash
  <2> QED
    BY <2>1
<1>4. CASE Recover
  <2>1. UNCHANGED <<mem, unsaved, epc>> /\ server = "down" /\ server' = "recovered"
    BY <1>4 DEF Recover
  <2>2. row.status \in Terminal => row' = row
    BY <1>4 DEF Recover, Terminal
  <2>3. row'.status # "running"
    BY <1>4 DEF Recover, TypeOK, Snapshot
  <2> QED
    BY <2>1, <2>2, <2>3
<1> QED
  BY <1>1, <1>2, <1>3, <1>4

\* While the process is down nothing of it takes a step.
LEMMA DownCases ==
  ASSUME [Next]_vars, server = "down"
  PROVE  OpenPage \/ LeavePage \/ ConnectionBreaks \/ Crash \/ Recover \/ UNCHANGED vars
BY DEF Next

\* A page that asks after the end of run_scan, or after a restart, finds the end
\* in the row: nobody who may still save it holds anything else.
THEOREM EndCanAlwaysBeRead == Spec => []EndCanBeRead
<1>1. Init => EndKept
  BY DEF Init, EndKept
<1>2. TypeOK /\ EndsFollow /\ EndKept /\ [Next]_vars => EndKept'
  BY StepCases, DownCases, EndKeptEngine, EndKeptOthers
<1>3. TypeOK /\ EndKept => EndCanBeRead
  BY DEF TypeOK, Snapshot, Status, EndKept, EndCanBeRead
<1> QED
  BY <1>1, <1>2, <1>3, EndsAlways, PTL DEF Spec
=============================================================================
