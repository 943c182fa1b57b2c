--------------------------- MODULE FindingsProofs ---------------------------
(***************************************************************************)
(* Proofs about Findings, for every set of programs, findings and channels *)
(* and any number of assessments: remediated findings that come back are   *)
(* reopened, and the messages of a program that is assessed one at a time  *)
(* add up to what its last completed assessment found.                     *)
(***************************************************************************)
EXTENDS Findings, TLAPS

Row == [program : Programs \cup {"none"}, status : {"none", "running", "completed", "failed"},
        saved : BOOLEAN, found : SUBSET FindingIds]

Tails == {"none", "phases", "built", "listed", "completed", "compared", "posting", "ended",
          "aborted", "dead"}

FindingsTypes ==
  /\ assessed \in [Assessments -> Row]
  /\ tail \in [Assessments -> Tails]
  /\ reopening \in [Assessments -> SUBSET FindingIds]
  /\ triage \in [FindingIds -> [program : Programs \cup {"none"}, disposition : Dispositions]]
  /\ told \in [Programs -> SUBSET FindingIds]
  /\ lastDelta \in [Programs -> [new : SUBSET FindingIds, resolved : SUBSET FindingIds]]
  /\ orderly \subseteq Programs
  /\ since \in [Assessments -> SUBSET FindingIds]

\* Where an assessment is, and what its row says.
TailFitsRow ==
  \A s \in Assessments :
    /\ tail[s] = "none" <=> ProgramOf(s) = "none"
    /\ ProgramOf(s) = "none" => assessed[s] = NoRow
    /\ tail[s] \in {"phases", "built", "listed"} => assessed[s].status = "running"
    /\ tail[s] \in {"built", "listed", "completed"} => assessed[s].saved
    /\ tail[s] = "completed" => assessed[s].status = "completed"
    /\ assessed[s].status = "running" => tail[s] \in {"phases", "built", "listed"}
    /\ assessed[s].status = "completed" => reopening[s] = {}

\* Assessments are numbered as they are created.
Numbered ==
  \A s \in Assessments : ProgramOf(s) = "none" =>
    \A r \in Assessments : r > s => ProgramOf(r) = "none"

\* A row changes one field, or two, at a time.
LEMMA RowStatus ==
  ASSUME NEW row \in Row, NEW status \in {"none", "running", "completed", "failed"}
  PROVE  /\ [row EXCEPT !.status = status] \in Row
         /\ [row EXCEPT !.status = status].program = row.program
         /\ [row EXCEPT !.status = status].status = status
         /\ [row EXCEPT !.status = status].saved = row.saved
         /\ [row EXCEPT !.status = status].found = row.found
  BY DEF Row

LEMMA RowInventory ==
  ASSUME NEW row \in Row, NEW found \in SUBSET FindingIds
  PROVE  /\ [row EXCEPT !.saved = TRUE, !.found = found] \in Row
         /\ [row EXCEPT !.saved = TRUE, !.found = found].program = row.program
         /\ [row EXCEPT !.saved = TRUE, !.found = found].status = row.status
         /\ [row EXCEPT !.saved = TRUE, !.found = found].saved
         /\ [row EXCEPT !.saved = TRUE, !.found = found].found = found
  BY DEF Row

LEMMA FoundByType ==
  ASSUME FindingsTypes, NEW scans \in SUBSET Assessments
  PROVE  FoundBy(scans) \in SUBSET FindingIds
  BY DEF FindingsTypes, FoundBy, Newest, Row

LEMMA CompareType ==
  ASSUME NEW current \in SUBSET FindingIds, NEW previous \in SUBSET FindingIds
  PROVE  Compare(current, previous) \in [new : SUBSET FindingIds, resolved : SUBSET FindingIds]
  BY DEF Compare

LEMMA FindingsTypesInit == FindingsInit => FindingsTypes /\ TailFitsRow /\ Numbered
  BY FindingsAssumption
     DEF FindingsInit, FindingsTypes, TailFitsRow, Numbered, ProgramOf, NoRow, NoRecord, NoDelta, Row, Tails,
         Dispositions

LEMMA FindingsTypesNext ==
  FindingsTypes /\ TailFitsRow /\ [FindingsNext]_findingsVars => FindingsTypes'
<1> SUFFICES ASSUME FindingsTypes, TailFitsRow, [FindingsNext]_findingsVars PROVE FindingsTypes'
  OBVIOUS
<1> USE DEF FindingsTypes, rowVars, triageVars, messageVars
<1>1. ASSUME NEW s \in Assessments, NEW p \in Programs, StartAssessment(s, p) PROVE FindingsTypes'
  BY <1>1 DEF StartAssessment, NoRow, Row, Tails
<1>2. ASSUME NEW s \in Assessments, SaveInventory(s) PROVE FindingsTypes'
  <2>1. PICK found \in SUBSET FindingIds :
          assessed' = [assessed EXCEPT ![s] = [assessed[s] EXCEPT !.saved = TRUE, !.found = found]]
    BY <1>2 DEF SaveInventory
  <2>2. assessed' \in [Assessments -> Row]
    BY <2>1, RowInventory
  <2> QED
    BY <1>2, <2>2 DEF SaveInventory, Tails
<1>3. ASSUME NEW s \in Assessments, ListStates(s) PROVE FindingsTypes'
  BY <1>3 DEF ListStates, ToReopen, Remediated, Tails
<1>4. ASSUME NEW s \in Assessments, Reopen(s) PROVE FindingsTypes'
  BY <1>4 DEF Reopen, ProgramOf, Row, Dispositions
<1>5. ASSUME NEW s \in Assessments, Complete(s) PROVE FindingsTypes'
  <2>1. assessed' = [assessed EXCEPT ![s] = [assessed[s] EXCEPT !.status = "completed"]]
    BY <1>5 DEF Complete
  <2>2. assessed' \in [Assessments -> Row]
    BY <2>1, RowStatus
  <2> QED
    BY <1>5, <2>2 DEF Complete, Tails
<1>6. ASSUME NEW s \in Assessments, Fail(s) PROVE FindingsTypes'
  <2>1. assessed' = [assessed EXCEPT ![s] = [assessed[s] EXCEPT !.status = "failed"]]
    BY <1>6 DEF Fail
  <2>2. assessed' \in [Assessments -> Row]
    BY <2>1, RowStatus
  <2> QED
    BY <1>6, <2>2 DEF Fail, Tails
<1>7. ASSUME NEW s \in Assessments, BuildMessage(s) PROVE FindingsTypes'
  <2> DEFINE p == ProgramOf(s)
             delta == Compare(assessed[s].found, FoundBy(CompletedBefore(s)))
  <2>1. p \in Programs
    BY <1>7 DEF BuildMessage, TailFitsRow, ProgramOf, Row
  <2>2. FoundBy(CompletedBefore(s)) \in SUBSET FindingIds /\ assessed[s].found \in SUBSET FindingIds
    BY FoundByType DEF CompletedBefore, Completed, Row
  <2>3. delta \in [new : SUBSET FindingIds, resolved : SUBSET FindingIds]
    BY <2>2, CompareType
  <2>4. /\ tail' = [tail EXCEPT ![s] = "compared"]
        /\ told' = [told EXCEPT ![p] = (@ \ delta.resolved) \cup delta.new]
        /\ lastDelta' = [lastDelta EXCEPT ![p] = delta]
        /\ UNCHANGED <<assessed, reopening, triage, orderly, since>>
    BY <1>7 DEF BuildMessage
  <2> HIDE DEF p, delta
  <2> QED
    BY <2>1, <2>3, <2>4 DEF Tails
<1>8. ASSUME NEW s \in Assessments, ListChannels(s) \/ Announce(s) PROVE FindingsTypes'
  BY <1>8 DEF ListChannels, Announce, Tails
<1>9. ASSUME NEW s \in Assessments, NEW c \in Channels, Deliver(s, c) \/ GiveUp(s, c) \/ TimeOut(s, c)
      PROVE  FindingsTypes'
  BY <1>9 DEF Deliver, GiveUp, TimeOut, Try, Tails
<1>10. ASSUME NEW f \in FindingIds, NEW p \in Programs, Triage(f, p) PROVE FindingsTypes'
  BY <1>10 DEF Triage, Dispositions
<1>11. ASSUME NEW c \in Channels, AddChannel(c) \/ RemoveChannel(c) PROVE FindingsTypes'
  BY <1>11 DEF AddChannel, RemoveChannel
<1>12. CASE Crash
  <2>1. assessed' = [s \in Assessments |->
          IF assessed[s].status = "running" THEN [assessed[s] EXCEPT !.status = "failed"]
          ELSE assessed[s]]
    BY <1>12 DEF Crash
  <2>2. assessed' \in [Assessments -> Row]
    BY <2>1, RowStatus
  <2> QED
    BY <1>12, <2>2 DEF Crash, Tails
<1>13. CASE UNCHANGED findingsVars
  BY <1>13 DEF findingsVars
<1> QED
  BY <1>1, <1>2, <1>3, <1>4, <1>5, <1>6, <1>7, <1>8, <1>9, <1>10, <1>11, <1>12, <1>13
     DEF FindingsNext

LEMMA TailFitsRowNext ==
  FindingsTypes /\ TailFitsRow /\ Numbered /\ [FindingsNext]_findingsVars => TailFitsRow' /\ Numbered'
<1> SUFFICES ASSUME FindingsTypes, TailFitsRow, Numbered, [FindingsNext]_findingsVars
             PROVE  TailFitsRow' /\ Numbered'
  OBVIOUS
<1>0. /\ assessed \in [Assessments -> Row]
      /\ tail \in [Assessments -> Tails]
      /\ reopening \in [Assessments -> SUBSET FindingIds]
      /\ Assessments \subseteq Int
  BY DEF FindingsTypes, Assessments
<1> USE DEF TailFitsRow, Numbered, ProgramOf
<1>1. ASSUME NEW s \in Assessments, NEW p \in Programs, StartAssessment(s, p)
      PROVE  TailFitsRow' /\ Numbered'
  <2>1. /\ assessed[s] = NoRow
        /\ \A r \in Assessments : r < s => assessed[r] # NoRow
        /\ assessed' = [assessed EXCEPT ![s] = [NoRow EXCEPT !.program = p, !.status = "running"]]
        /\ tail' = [tail EXCEPT ![s] = "phases"]
        /\ reopening' = reopening
    BY <1>1 DEF StartAssessment, Assessments, triageVars
  <2>2. assessed'[s].program = p /\ assessed'[s].status = "running" /\ p # "none"
    BY <1>0, <2>1, FindingsAssumption DEF NoRow
  <2>3. \A r \in Assessments \ {s} : assessed'[r] = assessed[r] /\ tail'[r] = tail[r]
    BY <1>0, <2>1
  <2>4. \A r \in Assessments : r < s => ProgramOf(r) # "none"
    BY <2>1
  <2>5. tail'[s] = "phases"
    BY <1>0, <2>1
  <2> QED
    BY <1>0, <2>1, <2>2, <2>3, <2>4, <2>5
<1>2. ASSUME NEW s \in Assessments, SaveInventory(s) PROVE TailFitsRow' /\ Numbered'
  <2>1. PICK found \in SUBSET FindingIds :
          assessed' = [assessed EXCEPT ![s] = [assessed[s] EXCEPT !.saved = TRUE, !.found = found]]
    BY <1>2 DEF SaveInventory
  <2>2. /\ assessed'[s].program = assessed[s].program
        /\ assessed'[s].status = assessed[s].status
        /\ assessed'[s].saved
        /\ \A r \in Assessments \ {s} : assessed'[r] = assessed[r]
    <3>1. assessed'[s] = [assessed[s] EXCEPT !.saved = TRUE, !.found = found] /\ assessed[s] \in Row
      BY <1>0, <2>1
    <3>2. \A r \in Assessments \ {s} : assessed'[r] = assessed[r]
      BY <1>0, <2>1
    <3> QED
      BY <3>1, <3>2 DEF Row
  <2>3. tail[s] = "phases" /\ tail' = [tail EXCEPT ![s] = "built"] /\ reopening' = reopening
    BY <1>2 DEF SaveInventory, triageVars
  <2> QED
    BY <1>0, <2>2, <2>3
<1>3. ASSUME NEW s \in Assessments, ListStates(s) PROVE TailFitsRow' /\ Numbered'
  BY <1>0, <1>3 DEF ListStates
<1>4. ASSUME NEW s \in Assessments, Reopen(s) PROVE TailFitsRow' /\ Numbered'
  BY <1>0, <1>4 DEF Reopen, rowVars
<1>5. ASSUME NEW s \in Assessments, Complete(s) PROVE TailFitsRow' /\ Numbered'
  <2>1. /\ assessed' = [assessed EXCEPT ![s] = [assessed[s] EXCEPT !.status = "completed"]]
        /\ tail[s] = "listed" /\ tail' = [tail EXCEPT ![s] = "completed"]
        /\ reopening[s] = {} /\ reopening' = reopening
    BY <1>5 DEF Complete, triageVars
  <2>2. /\ assessed'[s].program = assessed[s].program
        /\ assessed'[s].status = "completed"
        /\ assessed'[s].saved = assessed[s].saved
        /\ \A r \in Assessments \ {s} : assessed'[r] = assessed[r]
    BY <1>0, <2>1, RowStatus
  <2> QED
    BY <1>0, <2>1, <2>2
<1>6. ASSUME NEW s \in Assessments, Fail(s) PROVE TailFitsRow' /\ Numbered'
  <2>1. /\ assessed' = [assessed EXCEPT ![s] = [assessed[s] EXCEPT !.status = "failed"]]
        /\ tail[s] \in {"phases", "built", "listed"} /\ tail' = [tail EXCEPT ![s] = "ended"]
        /\ reopening' = [reopening EXCEPT ![s] = {}]
    BY <1>6 DEF Fail
  <2>2. /\ assessed'[s].program = assessed[s].program
        /\ assessed'[s].status = "failed"
        /\ \A r \in Assessments \ {s} : assessed'[r] = assessed[r]
    BY <1>0, <2>1, RowStatus
  <2> QED
    BY <1>0, <2>1, <2>2
<1>7. ASSUME NEW s \in Assessments, BuildMessage(s) \/ ListChannels(s) \/ Announce(s)
      PROVE  TailFitsRow' /\ Numbered'
  BY <1>0, <1>7 DEF BuildMessage, ListChannels, Announce, triageVars
<1>8. ASSUME NEW s \in Assessments, NEW c \in Channels, Deliver(s, c) \/ GiveUp(s, c) \/ TimeOut(s, c)
      PROVE  TailFitsRow' /\ Numbered'
  BY <1>0, <1>8 DEF Deliver, GiveUp, TimeOut, Try, triageVars
<1>9. ASSUME NEW f \in FindingIds, NEW p \in Programs, Triage(f, p) PROVE TailFitsRow' /\ Numbered'
  BY <1>0, <1>9 DEF Triage, rowVars
<1>10. ASSUME NEW c \in Channels, AddChannel(c) \/ RemoveChannel(c) PROVE TailFitsRow' /\ Numbered'
  BY <1>0, <1>10 DEF AddChannel, RemoveChannel, rowVars, triageVars
<1>11. CASE Crash
  <2>1. ASSUME NEW s \in Assessments
        PROVE  /\ assessed'[s] = IF assessed[s].status = "running"
                                 THEN [assessed[s] EXCEPT !.status = "failed"] ELSE assessed[s]
               /\ tail'[s] = IF assessed[s] = NoRow THEN "none" ELSE "dead"
               /\ reopening'[s] = {}
    BY <1>11 DEF Crash
  <2>2. ASSUME NEW s \in Assessments
        PROVE  /\ assessed'[s].program = assessed[s].program
               /\ assessed[s].status # "running" => assessed'[s] = assessed[s]
               /\ assessed[s].status = "running" => assessed'[s].status = "failed"
    <3>1. assessed[s] \in Row
      BY <1>0
    <3>2. CASE assessed[s].status = "running"
      BY <2>1, <3>1, <3>2 DEF Row
    <3>3. CASE assessed[s].status # "running"
      BY <2>1, <3>3
    <3> QED
      BY <3>2, <3>3
  <2>3. \A s \in Assessments : assessed[s] = NoRow <=> ProgramOf(s) = "none"
    BY DEF NoRow
  <2>4. ASSUME NEW s \in Assessments
        PROVE  /\ tail'[s] \in {"none", "dead"}
               /\ tail'[s] = "none" <=> assessed'[s].program = "none"
               /\ assessed'[s].program = "none" => assessed'[s] = NoRow
               /\ assessed'[s].status # "running"
    <3>1. tail'[s] \in {"none", "dead"} /\ (tail'[s] = "none" <=> assessed[s] = NoRow)
      BY <2>1
    <3>2. assessed[s] = NoRow => assessed[s].status # "running"
      BY DEF NoRow
    <3> QED
      BY <2>2, <2>3, <3>1, <3>2
  <2>5. \A s \in Assessments : assessed'[s].program = assessed[s].program /\ reopening'[s] = {}
    BY <2>1, <2>2
  <2> QED
    BY <1>0, <2>4, <2>5
<1>12. CASE UNCHANGED findingsVars
  BY <1>0, <1>12 DEF findingsVars, rowVars, triageVars
<1> QED
  BY <1>1, <1>2, <1>3, <1>4, <1>5, <1>6, <1>7, <1>8, <1>9, <1>10, <1>11, <1>12 DEF FindingsNext

FindingsBase == FindingsTypes /\ TailFitsRow /\ Numbered

LEMMA FindingsBaseAlways == FindingsSpec => []FindingsBase
<1>1. FindingsInit => FindingsBase
  BY FindingsTypesInit DEF FindingsBase
<1>2. FindingsBase /\ [FindingsNext]_findingsVars => FindingsBase'
  BY FindingsTypesNext, TailFitsRowNext DEF FindingsBase
<1> QED
  BY <1>1, <1>2, PTL DEF FindingsSpec

-----------------------------------------------------------------------------
(* Reopening.  Between the list of the records and the last save, what is  *)
(* left to save accounts for what still says remediated.                   *)

Reopening ==
  \A s \in Assessments : \A f \in assessed[s].found :
    /\ tail[s] = "listed" \/ assessed[s].status = "completed"
    /\ triage[f].program = ProgramOf(s)
    /\ triage[f].disposition = "remediated"
    => f \in since[s] \cup reopening[s]

LEMMA ReopeningNext ==
  FindingsBase /\ Reopening /\ [FindingsNext]_findingsVars => Reopening'
<1> SUFFICES ASSUME FindingsBase, Reopening, [FindingsNext]_findingsVars PROVE Reopening'
  OBVIOUS
<1>0. /\ assessed \in [Assessments -> Row]
      /\ tail \in [Assessments -> Tails]
      /\ reopening \in [Assessments -> SUBSET FindingIds]
      /\ since \in [Assessments -> SUBSET FindingIds]
      /\ triage \in [FindingIds -> [program : Programs \cup {"none"}, disposition : Dispositions]]
      /\ \A s \in Assessments : assessed[s].found \subseteq FindingIds
  BY DEF FindingsBase, FindingsTypes, Row
<1>00. TailFitsRow
  BY DEF FindingsBase
<1> USE DEF Reopening, ProgramOf
<1>1. ASSUME NEW s \in Assessments, NEW p \in Programs, StartAssessment(s, p) PROVE Reopening'
  <2>1. assessed'[s].status = "running" /\ \A r \in Assessments \ {s} : assessed'[r] = assessed[r]
    BY <1>0, <1>1 DEF StartAssessment, NoRow
  <2> QED
    BY <1>0, <1>1, <2>1 DEF StartAssessment, triageVars
<1>2. ASSUME NEW s \in Assessments, SaveInventory(s) PROVE Reopening'
  <2>1. assessed[s].status = "running"
    BY <1>00, <1>2 DEF SaveInventory, TailFitsRow
  <2>2. assessed'[s].status = "running" /\ \A r \in Assessments \ {s} : assessed'[r] = assessed[r]
    BY <1>0, <1>2, <2>1 DEF SaveInventory, Row
  <2> QED
    BY <1>0, <1>2, <2>2 DEF SaveInventory, triageVars
<1>3. ASSUME NEW s \in Assessments, ListStates(s) PROVE Reopening'
  BY <1>0, <1>3 DEF ListStates, ToReopen, Remediated
<1>4. ASSUME NEW s \in Assessments, Reopen(s) PROVE Reopening'
  BY <1>0, <1>4 DEF Reopen, rowVars
<1>5. ASSUME NEW s \in Assessments, Complete(s) PROVE Reopening'
  <2>1. /\ assessed'[s].found = assessed[s].found /\ assessed'[s].program = assessed[s].program
        /\ \A r \in Assessments \ {s} : assessed'[r] = assessed[r]
    BY <1>0, <1>5 DEF Complete, Row
  <2> QED
    BY <1>0, <1>5, <2>1 DEF Complete, triageVars
<1>6. ASSUME NEW s \in Assessments, Fail(s) PROVE Reopening'
  <2>1. assessed'[s].status = "failed" /\ \A r \in Assessments \ {s} : assessed'[r] = assessed[r]
    BY <1>0, <1>6 DEF Fail, Row
  <2> QED
    BY <1>0, <1>6, <2>1 DEF Fail
<1>7. ASSUME NEW s \in Assessments, BuildMessage(s) \/ ListChannels(s) \/ Announce(s)
      PROVE  Reopening'
  BY <1>0, <1>7 DEF BuildMessage, ListChannels, Announce, triageVars
<1>8. ASSUME NEW s \in Assessments, NEW c \in Channels, Deliver(s, c) \/ GiveUp(s, c) \/ TimeOut(s, c)
      PROVE  Reopening'
  BY <1>0, <1>8 DEF Deliver, GiveUp, TimeOut, Try, triageVars
<1>9. ASSUME NEW f \in FindingIds, NEW p \in Programs, Triage(f, p) PROVE Reopening'
  BY <1>0, <1>9 DEF Triage, rowVars
<1>10. ASSUME NEW c \in Channels, AddChannel(c) \/ RemoveChannel(c) PROVE Reopening'
  BY <1>0, <1>10 DEF AddChannel, RemoveChannel, rowVars, triageVars
<1>11. CASE Crash
  <2>1. ASSUME NEW s \in Assessments, assessed'[s].status = "completed"
        PROVE  assessed'[s] = assessed[s] /\ assessed[s].status = "completed"
    BY <1>0, <1>11, <2>1 DEF Crash, Row
  <2>2. \A s \in Assessments : tail'[s] # "listed"
    BY <1>11 DEF Crash
  <2>3. \A s \in Assessments : assessed[s].status = "completed" => reopening[s] = {}
    BY <1>00 DEF TailFitsRow
  <2>4. triage' = triage /\ since' = since
    BY <1>11 DEF Crash
  <2> QED
    BY <2>1, <2>2, <2>3, <2>4
<1>12. CASE UNCHANGED findingsVars
  BY <1>12 DEF findingsVars, rowVars, triageVars
<1> QED
  BY <1>1, <1>2, <1>3, <1>4, <1>5, <1>6, <1>7, <1>8, <1>9, <1>10, <1>11, <1>12 DEF FindingsNext

\* What a completed assessment found again does not stay remediated, unless an
\* analyst has decided so meanwhile.
THEOREM AlwaysReopenedOnRecurrence == FindingsSpec => []ReopenedOnRecurrence
<1>1. FindingsInit => Reopening
  BY DEF FindingsInit, Reopening, NoRow
<1>2. FindingsBase /\ Reopening => ReopenedOnRecurrence
  BY DEF FindingsBase, TailFitsRow, Reopening, ReopenedOnRecurrence
<1> QED
  BY <1>1, <1>2, FindingsBaseAlways, ReopeningNext, PTL DEF FindingsSpec

-----------------------------------------------------------------------------
(* Messages.  What a reader of a program's messages believes is what the   *)
(* newest assessment found whose message was built.                        *)

\* Operators of Findings, of given rows.
FoundIn(rows, scans) == UNION {rows[s].found : s \in Newest(scans)}

ChangeIn(rows, scans) == Compare(FoundIn(rows, scans), FoundIn(rows, scans \ Newest(scans)))

Announced(p) == {s \in Completed(p) : tail[s] # "completed"}

\* The assessment under way is the last one.
InOrder ==
  \A p \in orderly : \A s \in Busy(p) : \A r \in Assessments : ProgramOf(r) = p => r <= s

AddedUp ==
  \A p \in orderly :
    /\ told[p] = FoundIn(assessed, Announced(p))
    /\ Announced(p) # {} => lastDelta[p] = ChangeIn(assessed, Announced(p))

LEMMA InOrderNext == FindingsBase /\ InOrder /\ [FindingsNext]_findingsVars => InOrder'
<1> SUFFICES ASSUME FindingsBase, InOrder, [FindingsNext]_findingsVars PROVE InOrder'
  OBVIOUS
<1>0. /\ assessed \in [Assessments -> Row]
      /\ tail \in [Assessments -> Tails]
      /\ orderly \subseteq Programs
      /\ Assessments \subseteq Int
  BY DEF FindingsBase, FindingsTypes, Assessments
<1> DEFINE Over == {"ended", "aborted", "dead"}
<1>1. ASSUME orderly' \subseteq orderly,
             \A s \in Assessments : assessed'[s].program = assessed[s].program,
             \A s \in Assessments : tail'[s] \notin Over => tail[s] \notin Over
      PROVE  InOrder'
  BY <1>1 DEF InOrder, Busy, ProgramOf
<1>2. ASSUME NEW s \in Assessments, NEW p \in Programs, StartAssessment(s, p) PROVE InOrder'
  <2>1. /\ assessed'[s].program = p
        /\ \A r \in Assessments \ {s} : assessed'[r] = assessed[r] /\ tail'[r] = tail[r]
    BY <1>0, <1>2 DEF StartAssessment, NoRow
  <2>2. ProgramOf(s) = "none"
    BY <1>2 DEF StartAssessment, NoRow, ProgramOf
  <2>3. \A r \in Assessments : ProgramOf(r) # "none" => ~(r > s)
    BY <2>2 DEF FindingsBase, Numbered
  <2>4. orderly' \subseteq orderly /\ (p \in orderly' => Busy(p) = {})
    BY <1>2 DEF StartAssessment
  <2> SUFFICES ASSUME NEW q \in orderly', NEW b \in Assessments, NEW r \in Assessments,
                      assessed'[b].program = q, tail'[b] \notin Over, assessed'[r].program = q
               PROVE  r <= b
    BY DEF InOrder, Busy, ProgramOf
  <2>5. q # "none"
    BY <1>0, <2>4, FindingsAssumption
  <2>6. CASE b = s
    BY <1>0, <2>1, <2>3, <2>5, <2>6 DEF ProgramOf
  <2>7. CASE b # s
    <3>1. b \in Busy(q) /\ q \in orderly
      BY <2>1, <2>4, <2>7 DEF Busy, ProgramOf
    <3>2. q # p
      BY <2>4, <3>1
    <3> QED
      BY <2>1, <3>1, <3>2 DEF InOrder, ProgramOf
  <2> QED
    BY <2>6, <2>7
<1>3. ASSUME NEW s \in Assessments, SaveInventory(s) \/ Complete(s) \/ Fail(s) PROVE InOrder'
  BY <1>0, <1>1, <1>3 DEF SaveInventory, Complete, Fail, messageVars, Row
<1>4. ASSUME NEW s \in Assessments,
             ListStates(s) \/ Reopen(s) \/ BuildMessage(s) \/ ListChannels(s) \/ Announce(s)
      PROVE  InOrder'
  BY <1>0, <1>1, <1>4
     DEF ListStates, Reopen, BuildMessage, ListChannels, Announce, messageVars, rowVars
<1>5. ASSUME NEW s \in Assessments, NEW c \in Channels, Deliver(s, c) \/ GiveUp(s, c) \/ TimeOut(s, c)
      PROVE  InOrder'
  BY <1>0, <1>1, <1>5 DEF Deliver, GiveUp, TimeOut, Try
<1>6. ASSUME NEW f \in FindingIds, NEW p \in Programs, Triage(f, p) PROVE InOrder'
  BY <1>1, <1>6 DEF Triage, rowVars, messageVars
<1>7. ASSUME NEW c \in Channels, AddChannel(c) \/ RemoveChannel(c) PROVE InOrder'
  BY <1>1, <1>7 DEF AddChannel, RemoveChannel, rowVars
<1>8. CASE Crash
  <2>1. \A s \in Assessments : assessed'[s].program = assessed[s].program
    BY <1>0, <1>8 DEF Crash, Row
  <2>2. \A s \in Assessments : tail'[s] \notin Over => ProgramOf(s) = "none"
    BY <1>8 DEF Crash, NoRow, ProgramOf
  <2>3. orderly' \subseteq orderly
    BY <1>8 DEF Crash
  <2> QED
    BY <1>0, <2>1, <2>2, <2>3, FindingsAssumption DEF InOrder, Busy, ProgramOf
<1>9. CASE UNCHANGED findingsVars
  BY <1>1, <1>9 DEF findingsVars, rowVars, messageVars
<1> QED
  BY <1>2, <1>3, <1>4, <1>5, <1>6, <1>7, <1>8, <1>9 DEF FindingsNext

\* Only what was found counts.
LEMMA SameFindings ==
  ASSUME NEW rows, NEW later, NEW scans, \A s \in scans : later[s].found = rows[s].found
  PROVE  FoundIn(later, scans) = FoundIn(rows, scans) /\ ChangeIn(later, scans) = ChangeIn(rows, scans)
<1>1. FoundIn(later, scans) = FoundIn(rows, scans)
  BY DEF FoundIn, Newest
<1>2. FoundIn(later, scans \ Newest(scans)) = FoundIn(rows, scans \ Newest(scans))
  BY DEF FoundIn, Newest
<1> QED
  BY <1>1, <1>2 DEF ChangeIn

\* A message more, of an assessment after the others.
LEMMA OneMore ==
  ASSUME NEW rows, NEW scans \in SUBSET Int, NEW s \in Int, \A r \in scans : r < s
  PROVE  /\ FoundIn(rows, scans \cup {s}) = rows[s].found
         /\ ChangeIn(rows, scans \cup {s}) = Compare(rows[s].found, FoundIn(rows, scans))
<1>1. Newest(scans \cup {s}) = {s}
  <2>1. s \in Newest(scans \cup {s})
    BY DEF Newest
  <2>2. ASSUME NEW r \in Newest(scans \cup {s}) PROVE r = s
    <3>1. r \in scans \cup {s} /\ s <= r
      BY DEF Newest
    <3> QED
      BY <3>1
  <2> QED
    BY <2>1, <2>2
<1>2. (scans \cup {s}) \ {s} = scans
  OBVIOUS
<1>3. FoundIn(rows, scans \cup {s}) = rows[s].found
  BY <1>1 DEF FoundIn
<1> QED
  BY <1>1, <1>2, <1>3 DEF ChangeIn

\* Who knows the previous findings and hears of the change knows the present.
LEMMA CompareAddsUp ==
  ASSUME NEW current, NEW previous
  PROVE  (previous \ Compare(current, previous).resolved) \cup Compare(current, previous).new = current
  BY DEF Compare

LEMMA AddedUpNext ==
  FindingsBase /\ InOrder /\ AddedUp /\ [FindingsNext]_findingsVars => AddedUp'
<1> SUFFICES ASSUME FindingsBase, InOrder, AddedUp, [FindingsNext]_findingsVars PROVE AddedUp'
  OBVIOUS
<1>0. /\ assessed \in [Assessments -> Row]
      /\ tail \in [Assessments -> Tails]
      /\ told \in [Programs -> SUBSET FindingIds]
      /\ lastDelta \in [Programs -> [new : SUBSET FindingIds, resolved : SUBSET FindingIds]]
      /\ orderly \subseteq Programs
      /\ Assessments \subseteq Int
  BY DEF FindingsBase, FindingsTypes, Assessments
<1>00. TailFitsRow
  BY DEF FindingsBase
<1> DEFINE Out(p) == {s \in Assessments :
             /\ assessed[s].program = p /\ assessed[s].status = "completed" /\ assessed[s].saved
             /\ tail[s] # "completed"}
           OutNext(p) == {s \in Assessments :
             /\ assessed'[s].program = p /\ assessed'[s].status = "completed" /\ assessed'[s].saved
             /\ tail'[s] # "completed"}
<1>01. \A p : Announced(p) = Out(p) /\ Announced(p)' = OutNext(p)
  BY DEF Announced, Completed, ProgramOf
<1>1. ASSUME NEW p \in orderly, p \in orderly', OutNext(p) = Out(p),
             told'[p] = told[p], lastDelta'[p] = lastDelta[p],
             \A s \in Out(p) : assessed'[s].found = assessed[s].found
      PROVE  /\ told'[p] = FoundIn(assessed', OutNext(p))
             /\ OutNext(p) # {} => lastDelta'[p] = ChangeIn(assessed', OutNext(p))
  <2> HIDE DEF Out, OutNext
  <2>1. /\ FoundIn(assessed', Out(p)) = FoundIn(assessed, Out(p))
        /\ ChangeIn(assessed', Out(p)) = ChangeIn(assessed, Out(p))
    BY <1>1, SameFindings
  <2> QED
    BY <1>01, <1>1, <2>1 DEF AddedUp
<1>2. ASSUME orderly' \subseteq orderly, told' = told, lastDelta' = lastDelta,
             \A p \in orderly' : OutNext(p) = Out(p),
             \A p \in orderly' : \A s \in Out(p) : assessed'[s].found = assessed[s].found
      PROVE  AddedUp'
  <2> HIDE DEF Out, OutNext
  <2> QED
    BY <1>01, <1>1, <1>2 DEF AddedUp
<1>3. ASSUME NEW s \in Assessments, NEW p \in Programs, StartAssessment(s, p) PROVE AddedUp'
  <2>1. /\ assessed'[s].status = "running"
        /\ \A r \in Assessments \ {s} : assessed'[r] = assessed[r] /\ tail'[r] = tail[r]
        /\ assessed[s].status = "none"
    BY <1>0, <1>3 DEF StartAssessment, NoRow
  <2>2. orderly' \subseteq orderly /\ told' = told /\ lastDelta' = lastDelta
    BY <1>3 DEF StartAssessment
  <2> QED
    BY <1>2, <2>1, <2>2
<1>4. ASSUME NEW s \in Assessments, SaveInventory(s) \/ Complete(s) \/ Fail(s) PROVE AddedUp'
  <2>1. /\ assessed[s].status = "running"
        /\ assessed'[s].status = "completed" => tail'[s] = "completed"
        /\ \A r \in Assessments \ {s} : assessed'[r] = assessed[r] /\ tail'[r] = tail[r]
    BY <1>0, <1>00, <1>4 DEF SaveInventory, Complete, Fail, TailFitsRow, Row
  <2>2. orderly' = orderly /\ told' = told /\ lastDelta' = lastDelta
    BY <1>4 DEF SaveInventory, Complete, Fail, messageVars
  <2> QED
    BY <1>2, <2>1, <2>2
<1>5. ASSUME NEW s \in Assessments, BuildMessage(s) PROVE AddedUp'
  <2> DEFINE p == ProgramOf(s)
             delta == Compare(assessed[s].found, FoundBy(CompletedBefore(s)))
  <2>1. /\ tail[s] = "completed"
        /\ tail' = [tail EXCEPT ![s] = "compared"]
        /\ told' = [told EXCEPT ![p] = (@ \ delta.resolved) \cup delta.new]
        /\ lastDelta' = [lastDelta EXCEPT ![p] = delta]
        /\ assessed' = assessed /\ orderly' = orderly
    BY <1>5 DEF BuildMessage
  <2>2. assessed[s].status = "completed" /\ assessed[s].saved
    BY <1>00, <2>1 DEF TailFitsRow
  <2>3. ASSUME NEW q \in orderly, q # p PROVE OutNext(q) = Out(q) /\ told'[q] = told[q] /\ lastDelta'[q] = lastDelta[q]
    BY <1>0, <2>1, <2>3 DEF ProgramOf
  <2>4. ASSUME p \in orderly
        PROVE  /\ told'[p] = FoundIn(assessed', OutNext(p))
               /\ lastDelta'[p] = ChangeIn(assessed', OutNext(p))
    <3>1. s \in Busy(p)
      BY <2>1 DEF Busy
    <3>2. \A r \in Assessments : ProgramOf(r) = p => r <= s
      BY <2>4, <3>1 DEF InOrder
    <3>3. \A r \in Assessments : ProgramOf(r) = p /\ tail[r] = "completed" => r = s
      <4>1. \A r \in Assessments : ProgramOf(r) = p /\ tail[r] = "completed" => r \in Busy(p)
        BY DEF Busy
      <4> QED
        BY <1>0, <2>4, <3>2, <4>1 DEF InOrder
    <3>4. OutNext(p) = Out(p) \cup {s}
      BY <1>0, <2>1, <2>2, <3>3 DEF ProgramOf
    <3>5. Out(p) \subseteq Int /\ \A r \in Out(p) : r < s
      <4>1. \A r \in Out(p) : r \in Assessments /\ ProgramOf(r) = p /\ r # s
        BY <2>1 DEF ProgramOf
      <4> HIDE DEF Out, p
      <4>2. \A r \in Out(p) : r \in Int /\ r <= s /\ r # s
        BY <1>0, <3>2, <4>1
      <4>3. s \in Int
        BY <1>0
      <4> QED
        BY <4>2, <4>3
    <3>6. CompletedBefore(s) = Out(p)
      BY <1>0, <2>1, <3>2, <3>3 DEF CompletedBefore, Completed, ProgramOf, Assessments
    <3> HIDE DEF Out, OutNext
    <3>7. delta = Compare(assessed[s].found, FoundIn(assessed, Out(p)))
      BY <3>6 DEF FoundBy, FoundIn
    <3>8. told[p] = FoundIn(assessed, Out(p))
      BY <1>01, <2>4 DEF AddedUp
    <3> HIDE DEF delta, p
    <3>9. told'[p] = (told[p] \ delta.resolved) \cup delta.new /\ lastDelta'[p] = delta
      BY <1>0, <2>1, <2>4
    <3>10. told'[p] = assessed[s].found
      BY <3>7, <3>8, <3>9, CompareAddsUp
    <3>11. /\ FoundIn(assessed, Out(p) \cup {s}) = assessed[s].found
           /\ ChangeIn(assessed, Out(p) \cup {s}) = Compare(assessed[s].found, FoundIn(assessed, Out(p)))
      BY <1>0, <3>5, OneMore
    <3> QED
      BY <2>1, <3>4, <3>7, <3>9, <3>10, <3>11
  <2> HIDE DEF Out, OutNext, p, delta
  <2> SUFFICES ASSUME NEW q \in orderly
               PROVE  /\ told'[q] = FoundIn(assessed', OutNext(q))
                      /\ OutNext(q) # {} => lastDelta'[q] = ChangeIn(assessed', OutNext(q))
    BY <1>01, <2>1 DEF AddedUp
  <2>5. CASE q = p
    BY <2>4, <2>5
  <2>6. CASE q # p
    BY <1>1, <2>1, <2>3, <2>6
  <2> QED
    BY <2>5, <2>6
<1>6. ASSUME NEW s \in Assessments, ListStates(s) \/ Reopen(s) \/ ListChannels(s) \/ Announce(s)
      PROVE  AddedUp'
  <2>1. /\ assessed' = assessed /\ \A r \in Assessments : tail'[r] = "completed" <=> tail[r] = "completed"
        /\ orderly' = orderly /\ told' = told /\ lastDelta' = lastDelta
    BY <1>0, <1>6 DEF ListStates, Reopen, ListChannels, Announce, messageVars, rowVars
  <2> QED
    BY <1>2, <2>1
<1>7. ASSUME NEW s \in Assessments, NEW c \in Channels, Deliver(s, c) \/ GiveUp(s, c) \/ TimeOut(s, c)
      PROVE  AddedUp'
  <2>1. /\ assessed' = assessed /\ \A r \in Assessments : tail'[r] = "completed" <=> tail[r] = "completed"
        /\ orderly' = orderly /\ told' = told /\ lastDelta' = lastDelta
    BY <1>0, <1>7 DEF Deliver, GiveUp, TimeOut, Try
  <2> QED
    BY <1>2, <2>1
<1>8. ASSUME NEW f \in FindingIds, NEW p \in Programs, Triage(f, p) PROVE AddedUp'
  BY <1>2, <1>8 DEF Triage, rowVars, messageVars
<1>9. ASSUME NEW c \in Channels, AddChannel(c) \/ RemoveChannel(c) PROVE AddedUp'
  BY <1>2, <1>9 DEF AddChannel, RemoveChannel, rowVars
<1>10. CASE Crash
  <2>1. \A s \in Assessments : /\ assessed[s].status # "running" => assessed'[s] = assessed[s]
                               /\ assessed[s].status = "running" => assessed'[s].status = "failed"
                               /\ tail'[s] # "completed"
    BY <1>0, <1>10 DEF Crash, Row
  <2>2. \A p \in orderly' : \A s \in Assessments : ProgramOf(s) = p => tail[s] # "completed"
    BY <1>10 DEF Crash
  <2>3. orderly' \subseteq orderly /\ told' = told /\ lastDelta' = lastDelta
    BY <1>10 DEF Crash
  <2>4. \A p \in orderly' : OutNext(p) = Out(p)
    BY <2>1, <2>2 DEF ProgramOf
  <2>5. \A p \in orderly' : \A s \in Out(p) : assessed'[s].found = assessed[s].found
    BY <2>1
  <2> QED
    BY <1>2, <2>3, <2>4, <2>5
<1>11. CASE UNCHANGED findingsVars
  BY <1>2, <1>11 DEF findingsVars, rowVars, messageVars
<1> QED
  BY <1>3, <1>4, <1>5, <1>6, <1>7, <1>8, <1>9, <1>10, <1>11 DEF FindingsNext

LEMMA AddedUpAlways == FindingsSpec => [](FindingsBase /\ InOrder /\ AddedUp)
<1>1. FindingsInit => InOrder
  BY FindingsAssumption DEF FindingsInit, InOrder, Busy, ProgramOf, NoRow
<1>2. FindingsInit => AddedUp
  <2>1. FoundIn(assessed, {}) = {}
    BY DEF FoundIn, Newest
  <2>2. FindingsInit => orderly = Programs
    BY DEF FindingsInit
  <2> SUFFICES ASSUME FindingsInit, NEW p \in Programs
               PROVE  told[p] = {} /\ Announced(p) = {}
    BY <2>1, <2>2 DEF AddedUp
  <2> QED
    <3>1. told[p] = {}
      BY DEF FindingsInit
    <3>2. \A s \in Assessments : assessed[s].status = "none"
      BY DEF FindingsInit, NoRow
    <3> QED
      BY <3>1, <3>2 DEF Announced, Completed
<1> QED
  BY <1>1, <1>2, FindingsBaseAlways, InOrderNext, AddedUpNext, PTL DEF FindingsSpec

\* Who adds up the messages of a program that is assessed one at a time knows
\* what its last completed assessment found.
THEOREM DeltasAlwaysAddUp == FindingsSpec => []DeltasAddUp
<1>1. AddedUp => DeltasAddUp
  <2> SUFFICES ASSUME AddedUp, NEW p \in orderly, \A s \in Completed(p) : tail[s] # "completed"
               PROVE  told[p] = FoundBy(Completed(p))
    BY DEF DeltasAddUp
  <2>1. Announced(p) = Completed(p)
    BY DEF Announced
  <2> QED
    BY <2>1 DEF AddedUp, FoundIn, FoundBy
<1> QED
  BY <1>1, AddedUpAlways, PTL

\* The portfolio shows the change that the channels were told last.
THEOREM PortfolioAlwaysAgrees == FindingsSpec => []PortfolioAgrees
<1>1. AddedUp => PortfolioAgrees
  <2> SUFFICES ASSUME AddedUp, NEW p \in orderly, Completed(p) # {},
                      \A s \in Completed(p) : tail[s] # "completed"
               PROVE  PortfolioChange(p) = lastDelta[p]
    BY DEF PortfolioAgrees
  <2>1. Announced(p) = Completed(p)
    BY DEF Announced
  <2> QED
    BY <2>1 DEF AddedUp, ChangeIn, FoundIn, FoundBy, PortfolioChange
<1> QED
  BY <1>1, AddedUpAlways, PTL

-----------------------------------------------------------------------------
(* The type of every variable.                                             *)

ChannelTypes ==
  /\ channels \subseteq Channels
  /\ posting \in [Assessments -> SUBSET Channels]
  /\ delivered \subseteq Channels \X Assessments

LEMMA ChannelTypesNext == ChannelTypes /\ [FindingsNext]_findingsVars => ChannelTypes'
<1> SUFFICES ASSUME ChannelTypes, [FindingsNext]_findingsVars PROVE ChannelTypes'
  OBVIOUS
<1> USE DEF ChannelTypes, rowVars, triageVars, messageVars
<1>1. ASSUME NEW s \in Assessments, ListChannels(s) PROVE ChannelTypes'
  BY <1>1 DEF ListChannels
<1>2. ASSUME NEW s \in Assessments, NEW c \in Channels, Deliver(s, c) \/ GiveUp(s, c) \/ TimeOut(s, c)
      PROVE  ChannelTypes'
  BY <1>2 DEF Deliver, GiveUp, TimeOut, Try
<1>3. ASSUME NEW c \in Channels, AddChannel(c) \/ RemoveChannel(c) PROVE ChannelTypes'
  BY <1>3 DEF AddChannel, RemoveChannel
<1>4. CASE Crash
  BY <1>4 DEF Crash
<1>5. CASE UNCHANGED <<channels, posting, delivered>>
  BY <1>5
<1>6. ASSUME NEW s \in Assessments, NEW p \in Programs, StartAssessment(s, p)
      PROVE  UNCHANGED <<channels, posting, delivered>>
  BY <1>6 DEF StartAssessment
<1>7. ASSUME NEW s \in Assessments,
             \/ SaveInventory(s) \/ ListStates(s) \/ Reopen(s) \/ Complete(s) \/ Fail(s)
             \/ BuildMessage(s) \/ Announce(s)
      PROVE  UNCHANGED <<channels, posting, delivered>>
  BY <1>7 DEF SaveInventory, ListStates, Reopen, Complete, Fail, BuildMessage, Announce
<1>8. ASSUME NEW f \in FindingIds, NEW p \in Programs, Triage(f, p)
      PROVE  UNCHANGED <<channels, posting, delivered>>
  BY <1>8 DEF Triage
<1>9. CASE UNCHANGED findingsVars
  BY <1>9 DEF findingsVars
<1> QED
  BY <1>1, <1>2, <1>3, <1>4, <1>5, <1>6, <1>7, <1>8, <1>9 DEF FindingsNext

\* Rows, triage records, channels and deliveries keep their types.
THEOREM FindingsTypeCorrect == FindingsSpec => []FindingsTypeOK
<1>1. FindingsInit => ChannelTypes
  BY DEF FindingsInit, ChannelTypes
<1>2. FindingsBase /\ ChannelTypes => FindingsTypeOK
  BY DEF FindingsBase, FindingsTypes, ChannelTypes, FindingsTypeOK, Row, Tails
<1> QED
  BY <1>1, <1>2, ChannelTypesNext, FindingsBaseAlways, PTL DEF FindingsSpec
=============================================================================
