------------------------------ MODULE Findings ------------------------------
(***************************************************************************)
(* What becomes of an assessment's findings: the tail of run_scan          *)
(* (backend/scan_engine.py) saves the inventory, reopens what analysts had *)
(* marked as remediated (finding_workflow.py), completes the row and tells *)
(* the webhook channels what changed (notifications.py), while analysts    *)
(* triage (api/control.py) and the portfolio (api/portfolio.py) compares   *)
(* each program's last two snapshots.                                      *)
(*                                                                         *)
(* An assessment is its number in the order of created_at.  An inventory   *)
(* is the set of its findings: Inventory has how it is built.  A finding   *)
(* has one identity whatever program sees it, and there is one triage      *)
(* record for that identity.  Audit events, which nothing reads back, are  *)
(* left out.                                                               *)
(***************************************************************************)
EXTENDS Integers

CONSTANTS
  Programs, FindingIds, Channels,
  NAssessments,   \* bound: assessments created
  MaxEdits,       \* bound: decisions of analysts
  MaxOutages      \* bound: outages of the server

ASSUME FindingsAssumption == "none" \notin Programs

Assessments == 1 .. NAssessments

Dispositions == {"new", "confirmed", "remediated", "reopened"}

VARIABLES
  assessed,   \* the rows: program, status and saved inventory
  tail,       \* where run_scan is with each of them
  reopening,  \* records reopen_reappearing_findings still has to save
  triage,     \* the finding_state records
  channels,   \* the notification records
  posting,    \* channels notify_scan_completed has listed and not yet tried
  delivered,  \* the notification_delivery records
  told,       \* history: what a reader of the messages believes a program has
  lastDelta,  \* history: the last message of each program
  orderly,    \* history: programs assessed one at a time with every message built
  since,      \* history: findings edited since an assessment listed the records
  edits, outages

rowVars == <<assessed, tail>>
triageVars == <<reopening, triage, since, edits>>
messageVars == <<channels, posting, delivered, told, lastDelta, orderly>>

findingsVars == <<rowVars, triageVars, messageVars, outages>>

NoRow == [program |-> "none", status |-> "none", saved |-> FALSE, found |-> {}]

NoRecord == [program |-> "none", disposition |-> "new"]

NoDelta == [new |-> {}, resolved |-> {}]

FindingsInit ==
  /\ assessed = [s \in Assessments |-> NoRow]
  /\ tail = [s \in Assessments |-> "none"]
  /\ reopening = [s \in Assessments |-> {}]
  /\ triage = [f \in FindingIds |-> NoRecord]
  /\ channels = {}
  /\ posting = [s \in Assessments |-> {}]
  /\ delivered = {}
  /\ told = [p \in Programs |-> {}]
  /\ lastDelta = [p \in Programs |-> NoDelta]
  /\ orderly = Programs
  /\ since = [s \in Assessments |-> {}]
  /\ edits = 0
  /\ outages = 0

ProgramOf(s) == assessed[s].program

\* Assessments of p whose coroutine has not come to its last event.
Busy(p) == {s \in Assessments : ProgramOf(s) = p /\ tail[s] \notin {"ended", "aborted", "dead"}}

-----------------------------------------------------------------------------
(* run_scan, from the end of its phases.                                   *)

StartAssessment(s, p) ==
  /\ assessed[s] = NoRow
  /\ \A r \in 1 .. s - 1 : assessed[r] # NoRow
  /\ assessed' = [assessed EXCEPT ![s] = [NoRow EXCEPT !.program = p, !.status = "running"]]
  /\ tail' = [tail EXCEPT ![s] = "phases"]
  /\ orderly' = IF Busy(p) = {} THEN orderly ELSE orderly \ {p}
  /\ UNCHANGED <<triageVars, channels, posting, delivered, told, lastDelta, outages>>

\* build_inventory and save_inventory, with whatever the tools found.
SaveInventory(s) ==
  /\ tail[s] = "phases"
  /\ \E found \in SUBSET FindingIds :
       assessed' = [assessed EXCEPT ![s].saved = TRUE, ![s].found = found]
  /\ tail' = [tail EXCEPT ![s] = "built"]
  /\ UNCHANGED <<triageVars, messageVars, outages>>

\* The records of this program that say remediated.
Remediated(p) ==
  {f \in FindingIds : triage[f].program = p /\ triage[f].disposition = "remediated"}

\* Mutant: only findings the program's last snapshot did not have are reopened.
ReopenNew(s) ==
  (Remediated(ProgramOf(s)) \cap assessed[s].found)
    \ UNION {assessed[r].found : r \in 1 .. s - 1}

ToReopen(s) == Remediated(ProgramOf(s)) \cap assessed[s].found

\* reopen_reappearing_findings lists the records once ...
ListStates(s) ==
  /\ tail[s] = "built"
  /\ tail' = [tail EXCEPT ![s] = "listed"]
  /\ reopening' = [reopening EXCEPT ![s] = ToReopen(s)]
  /\ since' = [since EXCEPT ![s] = {}]
  /\ UNCHANGED <<assessed, triage, edits, messageVars, outages>>

\* ... and saves its copy of each, whatever the record says by now.
Reopen(s) ==
  /\ tail[s] = "listed"
  /\ \E f \in reopening[s] :
       /\ reopening' = [reopening EXCEPT ![s] = @ \ {f}]
       /\ triage' = [triage EXCEPT ![f] =
                       [program |-> ProgramOf(s), disposition |-> "reopened"]]
  /\ UNCHANGED <<rowVars, since, edits, messageVars, outages>>

\* The manifest is written and the row saved as completed.
Complete(s) ==
  /\ tail[s] = "listed"
  /\ reopening[s] = {}
  /\ assessed' = [assessed EXCEPT ![s].status = "completed"]
  /\ tail' = [tail EXCEPT ![s] = "completed"]
  /\ UNCHANGED <<triageVars, messageVars, outages>>

\* An exception: in a phase, in the inventory or, with the inventory already
\* saved, in what follows it.
Fail(s) ==
  /\ tail[s] \in {"phases", "built", "listed"}
  /\ assessed' = [assessed EXCEPT ![s].status = "failed"]
  /\ reopening' = [reopening EXCEPT ![s] = {}]
  /\ tail' = [tail EXCEPT ![s] = "ended"]
  /\ UNCHANGED <<triage, since, edits, messageVars, outages>>

-----------------------------------------------------------------------------
(* notify_scan_completed and the portfolio.                                *)

Completed(p) ==
  {s \in Assessments : ProgramOf(s) = p /\ assessed[s].status = "completed" /\ assessed[s].saved}

\* The newest of some assessments, if there is any, and what it found.
Newest(scans) == {s \in scans : \A r \in scans : r <= s}

FoundBy(scans) == UNION {assessed[s].found : s \in Newest(scans)}

\* compare_inventories, of the findings.
Compare(current, previous) == [new |-> current \ previous, resolved |-> previous \ current]

\* Mutant: the newest snapshot before this one, whatever became of its row.
AnySnapshotBefore(s) ==
  {r \in 1 .. s - 1 : ProgramOf(r) = ProgramOf(s) /\ assessed[r].saved}

\* Candidates for the previous snapshot, of which the newest is taken.
CompletedBefore(s) == Completed(ProgramOf(s)) \cap 1 .. s - 1

BuildMessage(s) ==
  LET p == ProgramOf(s)
      delta == Compare(assessed[s].found, FoundBy(CompletedBefore(s)))
  IN  /\ tail[s] = "completed"
      /\ tail' = [tail EXCEPT ![s] = "compared"]
      /\ told' = [told EXCEPT ![p] = (@ \ delta.resolved) \cup delta.new]
      /\ lastDelta' = [lastDelta EXCEPT ![p] = delta]
      /\ UNCHANGED <<assessed, triageVars, channels, posting, delivered, orderly, outages>>

\* The channels are listed once; disabled ones and delivered ones are skipped.
ListChannels(s) ==
  /\ tail[s] = "compared"
  /\ tail' = [tail EXCEPT ![s] = "posting"]
  /\ posting' = [posting EXCEPT ![s] = {c \in channels : <<c, s>> \notin delivered}]
  /\ UNCHANGED <<assessed, triageVars, channels, delivered, told, lastDelta, orderly, outages>>

Try(s, c) ==
  /\ tail[s] = "posting"
  /\ c \in posting[s]
  /\ posting' = [posting EXCEPT ![s] = @ \ {c}]
  /\ UNCHANGED <<assessed, triageVars, channels, told, lastDelta, orderly, outages>>

\* A 2xx answer is recorded.
Deliver(s, c) ==
  /\ Try(s, c)
  /\ delivered' = delivered \cup {<<c, s>>}
  /\ UNCHANGED tail

\* Another answer, or a ClientError, is logged.
GiveUp(s, c) ==
  /\ Try(s, c)
  /\ UNCHANGED <<tail, delivered>>

\* The session's total timeout raises asyncio.TimeoutError, which the loop does
\* not catch: it leaves notify_scan_completed and run_scan.
TimeOut(s, c) ==
  /\ Try(s, c)
  /\ tail' = [tail EXCEPT ![s] = "aborted"]
  /\ UNCHANGED delivered

Announce(s) ==
  /\ tail[s] = "posting"
  /\ posting[s] = {}
  /\ tail' = [tail EXCEPT ![s] = "ended"]
  /\ UNCHANGED <<assessed, triageVars, messageVars, outages>>

\* Mutant: of the last two snapshots, whatever became of their rows.
ChangeOfSaved(p) ==
  LET saved == {s \in Assessments : ProgramOf(s) = p /\ assessed[s].saved}
  IN  Compare(FoundBy(saved), FoundBy(saved \ Newest(saved)))

\* _latest_snapshots and the change the portfolio shows for a program.
PortfolioChange(p) ==
  Compare(FoundBy(Completed(p)), FoundBy(Completed(p) \ Newest(Completed(p))))

-----------------------------------------------------------------------------
(* Analysts, administrators and the server.                                *)

\* update_finding_state: the record is replaced, and belongs to the program
\* whose list of findings the analyst was on.
Triage(f, p) ==
  /\ edits < MaxEdits
  /\ f \in FoundBy(Completed(p))
  /\ \E d \in {"confirmed", "remediated"} :
       triage' = [triage EXCEPT ![f] = [program |-> p, disposition |-> d]]
  /\ since' = [s \in Assessments |-> since[s] \cup {f}]
  /\ edits' = edits + 1
  /\ UNCHANGED <<rowVars, reopening, messageVars, outages>>

AddChannel(c) ==
  /\ c \notin channels
  /\ channels' = channels \cup {c}
  /\ UNCHANGED <<rowVars, triageVars, posting, delivered, told, lastDelta, orderly, outages>>

RemoveChannel(c) ==
  /\ c \in channels
  /\ channels' = channels \ {c}
  /\ UNCHANGED <<rowVars, triageVars, posting, delivered, told, lastDelta, orderly, outages>>

\* The server dies; when it starts again, running rows are marked as failed and
\* nobody takes up a message that was not built.
Crash ==
  /\ outages < MaxOutages
  /\ outages' = outages + 1
  /\ assessed' = [s \in Assessments |->
       IF assessed[s].status = "running" THEN [assessed[s] EXCEPT !.status = "failed"]
       ELSE assessed[s]]
  /\ tail' = [s \in Assessments |-> IF assessed[s] = NoRow THEN "none" ELSE "dead"]
  /\ reopening' = [s \in Assessments |-> {}]
  /\ posting' = [s \in Assessments |-> {}]
  /\ orderly' = orderly \ {ProgramOf(s) : s \in {s \in Assessments : tail[s] = "completed"}}
  /\ UNCHANGED <<triage, since, edits, channels, delivered, told, lastDelta>>

FindingsNext ==
  \/ \E s \in Assessments :
       \/ \E p \in Programs : StartAssessment(s, p)
       \/ SaveInventory(s) \/ ListStates(s) \/ Reopen(s) \/ Complete(s) \/ Fail(s)
       \/ BuildMessage(s) \/ ListChannels(s) \/ Announce(s)
       \/ \E c \in Channels : Deliver(s, c) \/ GiveUp(s, c) \/ TimeOut(s, c)
  \/ \E f \in FindingIds, p \in Programs : Triage(f, p)
  \/ \E c \in Channels : AddChannel(c) \/ RemoveChannel(c)
  \/ Crash

FindingsSpec == FindingsInit /\ [][FindingsNext]_findingsVars

-----------------------------------------------------------------------------
(* Correctness.                                                            *)

FindingsTypeOK ==
  /\ \A s \in Assessments :
       /\ assessed[s].program \in Programs \cup {"none"}
       /\ assessed[s].status \in {"none", "running", "completed", "failed"}
       /\ assessed[s].saved \in BOOLEAN
       /\ assessed[s].found \subseteq FindingIds
       /\ tail[s] \in {"none", "phases", "built", "listed", "completed", "compared",
                       "posting", "ended", "aborted", "dead"}
  /\ reopening \in [Assessments -> SUBSET FindingIds]
  /\ \A f \in FindingIds : triage[f].disposition \in Dispositions
  /\ channels \subseteq Channels
  /\ posting \in [Assessments -> SUBSET Channels]
  /\ delivered \subseteq Channels \X Assessments
  /\ told \in [Programs -> SUBSET FindingIds]
  /\ orderly \subseteq Programs
  /\ since \in [Assessments -> SUBSET FindingIds]

\* A finding that a completed assessment has seen does not stay remediated in
\* its program, unless an analyst has decided so since that assessment listed
\* the records; overlapping assessments, failures after the inventory and a
\* crash between two saves included.
ReopenedOnRecurrence ==
  \A s \in Assessments : \A f \in assessed[s].found :
    assessed[s].status = "completed" /\ triage[f].program = ProgramOf(s)
      /\ triage[f].disposition = "remediated"
      => f \in since[s]

\* Who adds up the messages of a program that is assessed one at a time knows
\* exactly the findings of its last completed assessment: nothing is announced
\* twice, and failed assessments that saved an inventory do not count.
DeltasAddUp ==
  \A p \in orderly :
    (\A s \in Completed(p) : tail[s] # "completed") => told[p] = FoundBy(Completed(p))

\* The portfolio's change of such a program is the one the channels were told.
PortfolioAgrees ==
  \A p \in orderly :
    Completed(p) # {} /\ (\A s \in Completed(p) : tail[s] # "completed")
      => PortfolioChange(p) = lastDelta[p]
=============================================================================
