------------------------------ MODULE Evidence ------------------------------
(***************************************************************************)
(* Screenshots and the workspaces they are taken in.  gowitness leaves     *)
(* images in the assessment's own directory; persist_result_evidence       *)
(* (backend/evidence.py) copies them to BLOBs of that assessment and       *)
(* annotates its row; a later assessment of the same scope may copy the    *)
(* directory and the rows of the last one (_build_reuse_map); and the raw  *)
(* directory may be deleted when the assessment is over                    *)
(* (api/results.py).                                                       *)
(*                                                                         *)
(* One program, one root and two tools: gowitness, and one that stands for *)
(* every tool whose rows are plain data.  An image is its name; a row for  *)
(* it has the BLOB it was annotated with, or None.  The first assessment   *)
(* is from before there were BLOBs.                                        *)
(***************************************************************************)
EXTENDS Optional, Integers

CONSTANTS
  Images,
  NScans,     \* bound: assessments, the legacy one included
  Deleters,   \* requests to delete raw output that may be under way
  MaxDeaths   \* bound: crashes of the server

ASSUME EvidenceAssumption ==
  /\ NScans \in Nat \ {0}
  /\ MaxDeaths \in Nat
  /\ \A images \in SUBSET Images : images # None

ScanIds == 1 .. NScans

VARIABLES
  scanStatus,  \* the rows' status
  toolsDone,   \* tools of each assessment that have stored their result
  workspace,   \* images in each directory, or None when there is none
  shots,       \* gowitness's stored row: image -> BLOB or None
  capture,     \* gowitness's row while it is being annotated
  reusable,    \* _reuse_maps: gowitness's row of the assessment reused from
  blobs,       \* evidence_blobs, identified by assessment and content
  deleting,    \* the requests
  accepting,   \* whether the server has started and takes requests
  deaths

evidenceVars ==
  <<scanStatus, toolsDone, workspace, shots, capture, reusable, blobs, deleting, accepting,
    deaths>>

NoRows == [i \in {} |-> None]

Unannotated(images) == [i \in images |-> None]

NoRequest == [at |-> "none", scan |-> 0, rows |-> NoRows, left |-> {}, stored |-> FALSE]

Tools == {"gowitness", "other"}

\* The server has yet to start; the legacy assessment has its images and a row
\* without BLOBs.
EvidenceInit ==
  /\ scanStatus = [s \in ScanIds |-> IF s = 1 THEN "completed" ELSE "none"]
  /\ toolsDone = [s \in ScanIds |-> IF s = 1 THEN Tools ELSE {}]
  /\ workspace = [s \in ScanIds |-> IF s = 1 THEN Images ELSE None]
  /\ shots = [s \in ScanIds |-> IF s = 1 THEN Unannotated(Images) ELSE NoRows]
  /\ capture = [s \in ScanIds |-> None]
  /\ reusable = [s \in ScanIds |-> NoRows]
  /\ blobs = {}
  /\ deleting = [d \in Deleters |-> NoRequest]
  /\ accepting = FALSE
  /\ deaths = 0

\* save_evidence_blob: one per content and assessment.
Blob(s, image) == [scan |-> s, content |-> image]

Present(s) == IF workspace[s] = None THEN {} ELSE workspace[s]

-----------------------------------------------------------------------------
(* The engine.                                                             *)

\* The newest completed assessment of the same scope, if there is one.
ReuseSource(s) ==
  LET prior == {r \in ScanIds \ {s} : scanStatus[r] = "completed"}
  IN  {r \in prior : \A q \in prior : q <= r}

\* run_scan makes the directory and, when asked, builds the reuse map and
\* copies the source's directory: both in one go, for copytree does not await.
StartScan(s) ==
  /\ accepting
  /\ scanStatus[s] = "none"
  /\ \A r \in 1 .. s - 1 : scanStatus[r] # "none"
  /\ scanStatus' = [scanStatus EXCEPT ![s] = "running"]
  /\ \E from \in {0} \cup ReuseSource(s) :
       /\ workspace' = [workspace EXCEPT ![s] = IF from = 0 THEN {} ELSE Present(from)]
       /\ reusable' = [reusable EXCEPT ![s] = IF from = 0 THEN NoRows ELSE shots[from]]
  /\ UNCHANGED <<toolsDone, shots, capture, blobs, deleting, accepting, deaths>>

\* The rest of _run_tool, for rows without binary evidence: reused or run.
RunOther(s) ==
  /\ accepting
  /\ scanStatus[s] \in {"running", "unwinding"}
  /\ "other" \notin toolsDone[s]
  /\ toolsDone' = [toolsDone EXCEPT ![s] = @ \cup {"other"}]
  /\ UNCHANGED <<scanStatus, workspace, shots, capture, reusable, blobs, deleting, accepting, deaths>>

\* Mutant: rows of gowitness are reused like any other tool's.
ReuseAnyRows(s) == reusable[s]

\* Only rows that own no BLOB are copied forward, which gowitness's may.
ReusedRows(s) == NoRows

\* gowitness captures what it can; its parser takes every image there is in the
\* directory, the copied ones included.
Capture(s) ==
  /\ accepting
  /\ scanStatus[s] = "running"
  /\ "gowitness" \notin toolsDone[s]
  /\ capture[s] = None
  /\ IF ReusedRows(s) # NoRows
     THEN /\ shots' = [shots EXCEPT ![s] = ReusedRows(s)]
          /\ toolsDone' = [toolsDone EXCEPT ![s] = @ \cup {"gowitness"}]
          /\ UNCHANGED <<workspace, capture>>
     ELSE /\ \E taken \in SUBSET Images :
               /\ workspace' = [workspace EXCEPT ![s] = Present(s) \cup taken]
               /\ capture' = [capture EXCEPT ![s] = Unannotated(workspace'[s])]
          /\ UNCHANGED <<shots, toolsDone>>
  /\ UNCHANGED <<scanStatus, reusable, blobs, deleting, accepting, deaths>>

\* persist_result_evidence for one row; a row whose file is gone stays as it is.
Annotate(s, rows, image) ==
  IF image \in Present(s) THEN [rows EXCEPT ![image] = Blob(s, image)] ELSE rows

\* Mutant: content that some assessment has stored is not stored again.
NewToAll(s, image) ==
  IF image \in Present(s) /\ (\A b \in blobs : b.content # image) THEN {Blob(s, image)} ELSE {}

NewBlobs(s, image) == IF image \in Present(s) THEN {Blob(s, image)} ELSE {}

PersistCapture(s) ==
  /\ capture[s] # None
  /\ \E i \in DOMAIN capture[s] :
       /\ capture[s][i] = None
       /\ i \in Present(s)
       /\ capture' = [capture EXCEPT ![s] = Annotate(s, @, i)]
       /\ blobs' = blobs \cup NewBlobs(s, i)
  /\ UNCHANGED <<scanStatus, toolsDone, workspace, shots, reusable, deleting, accepting, deaths>>

\* save_result, once no row is left to annotate.
SaveCapture(s) ==
  /\ capture[s] # None
  /\ \A i \in DOMAIN capture[s] \cap Present(s) : capture[s][i] # None
  /\ shots' = [shots EXCEPT ![s] = capture[s]]
  /\ capture' = [capture EXCEPT ![s] = None]
  /\ toolsDone' = [toolsDone EXCEPT ![s] = @ \cup {"gowitness"}]
  /\ UNCHANGED <<scanStatus, workspace, reusable, blobs, deleting, accepting, deaths>>

CompleteScan(s) ==
  /\ accepting
  /\ scanStatus[s] = "running"
  /\ toolsDone[s] = Tools
  /\ scanStatus' = [scanStatus EXCEPT ![s] = "completed"]
  /\ reusable' = [reusable EXCEPT ![s] = NoRows]
  /\ UNCHANGED <<toolsDone, workspace, shots, capture, blobs, deleting, accepting, deaths>>

\* One tool's exception ends the assessment while its sibling goes on.
FailScan(s) ==
  /\ accepting
  /\ scanStatus[s] = "running"
  /\ scanStatus' = [scanStatus EXCEPT ![s] = "failed"]
  /\ reusable' = [reusable EXCEPT ![s] = NoRows]
  /\ UNCHANGED <<toolsDone, workspace, shots, capture, blobs, deleting, accepting, deaths>>

\* The row says cancelled at once; the tools return before the purge.
CancelScan(s) ==
  /\ accepting
  /\ scanStatus[s] = "running"
  /\ scanStatus' = [scanStatus EXCEPT ![s] = "unwinding"]
  /\ UNCHANGED <<toolsDone, workspace, shots, capture, reusable, blobs, deleting, accepting, deaths>>

\* delete_results drops rows and BLOBs in one transaction, then the directory goes.
Purge(s) ==
  /\ accepting
  /\ scanStatus[s] = "unwinding"
  /\ capture[s] = None
  /\ scanStatus' = [scanStatus EXCEPT ![s] = "cancelled"]
  /\ shots' = [shots EXCEPT ![s] = NoRows]
  /\ toolsDone' = [toolsDone EXCEPT ![s] = {}]
  /\ blobs' = {b \in blobs : b.scan # s}
  /\ workspace' = [workspace EXCEPT ![s] = None]
  /\ reusable' = [reusable EXCEPT ![s] = NoRows]
  /\ UNCHANGED <<capture, deleting, accepting, deaths>>

-----------------------------------------------------------------------------
(* delete_raw_artifacts.                                                   *)

\* Active assessments are refused; a cancelled one counts as over at once.
DeleteLists(d, s) ==
  /\ accepting
  /\ deleting[d] = NoRequest
  /\ scanStatus[s] \notin {"none", "running"}
  /\ deleting' = [deleting EXCEPT ![d] =
       [at |-> "rows", scan |-> s, rows |-> shots[s],
        left |-> {i \in DOMAIN shots[s] : shots[s][i] = None}, stored |-> FALSE]]
  /\ UNCHANGED <<scanStatus, toolsDone, workspace, shots, capture, reusable, blobs, accepting, deaths>>

DeletePersists(d) ==
  LET s == deleting[d].scan
  IN  /\ deleting[d].at = "rows"
      /\ \E i \in deleting[d].left :
           /\ deleting' = [deleting EXCEPT ![d].left = @ \ {i},
                                           ![d].rows = Annotate(s, @, i),
                                           ![d].stored = @ \/ i \in Present(s)]
           /\ blobs' = blobs \cup NewBlobs(s, i)
      /\ UNCHANGED <<scanStatus, toolsDone, workspace, shots, capture, reusable, accepting, deaths>>

\* The row is saved when something was annotated ...
DeleteSaves(d) ==
  LET s == deleting[d].scan
  IN  /\ deleting[d].at = "rows"
      /\ deleting[d].left = {}
      /\ deleting' = [deleting EXCEPT ![d].at = "saved"]
      /\ shots' = IF deleting[d].stored THEN [shots EXCEPT ![s] = deleting[d].rows] ELSE shots
      /\ UNCHANGED <<scanStatus, toolsDone, workspace, capture, reusable, blobs, accepting, deaths>>

\* ... and then the directory is removed and the assessment's row saved.
DeleteRemoves(d) ==
  /\ deleting[d].at = "saved"
  /\ workspace' = [workspace EXCEPT ![deleting[d].scan] = None]
  /\ deleting' = [deleting EXCEPT ![d] = NoRequest]
  /\ UNCHANGED <<scanStatus, toolsDone, shots, capture, reusable, blobs, accepting, deaths>>

-----------------------------------------------------------------------------
(* The server dies and starts again.                                       *)

Die ==
  /\ accepting
  /\ deaths < MaxDeaths
  /\ deaths' = deaths + 1
  /\ accepting' = FALSE
  /\ capture' = [s \in ScanIds |-> None]
  /\ reusable' = [s \in ScanIds |-> NoRows]
  /\ deleting' = [d \in Deleters |-> NoRequest]
  /\ UNCHANGED <<scanStatus, toolsDone, workspace, shots, blobs>>

\* Before the first request, running rows are marked as failed, and
\* backfill_screenshot_evidence annotates every row whose file is still there.
StartAgain ==
  /\ ~accepting
  /\ accepting' = TRUE
  /\ scanStatus' = [s \in ScanIds |->
       CASE scanStatus[s] = "running" -> "failed"
         [] scanStatus[s] = "unwinding" -> "cancelled"
         [] OTHER -> scanStatus[s]]
  /\ shots' = [s \in ScanIds |-> [i \in DOMAIN shots[s] |->
       IF shots[s][i] = None /\ i \in Present(s) THEN Blob(s, i) ELSE shots[s][i]]]
  /\ blobs' = blobs \cup UNION {NewBlobs(row[1], row[2]) : row \in
       {x \in ScanIds \X Images : x[2] \in DOMAIN shots[x[1]] /\ shots[x[1]][x[2]] = None}}
  /\ UNCHANGED <<toolsDone, workspace, capture, reusable, deleting, deaths>>

EvidenceNext ==
  \/ \E s \in ScanIds :
       \/ StartScan(s) \/ RunOther(s) \/ Capture(s) \/ PersistCapture(s) \/ SaveCapture(s)
       \/ CompleteScan(s) \/ FailScan(s) \/ CancelScan(s) \/ Purge(s)
       \/ \E d \in Deleters : DeleteLists(d, s)
  \/ \E d \in Deleters : DeletePersists(d) \/ DeleteSaves(d) \/ DeleteRemoves(d)
  \/ Die \/ StartAgain

EvidenceSpec == EvidenceInit /\ [][EvidenceNext]_evidenceVars

-----------------------------------------------------------------------------
(* Correctness.                                                            *)

EvidenceTypeOK ==
  /\ \A s \in ScanIds :
       /\ scanStatus[s] \in {"none", "running", "completed", "failed", "unwinding", "cancelled"}
       /\ toolsDone[s] \subseteq Tools
       /\ Present(s) \subseteq Images
       /\ DOMAIN shots[s] \subseteq Images
  /\ blobs \subseteq [scan : ScanIds, content : Images]
  /\ \A d \in Deleters : deleting[d].at \in {"none", "rows", "saved"}

\* No image of a completed assessment is lost: its row has a BLOB that is
\* stored, or its file is still in the directory, whoever deletes the directory
\* and whatever crashes between the BLOBs, the row and the files.
ScreenshotsKept ==
  \A s \in ScanIds : \A i \in DOMAIN shots[s] :
    scanStatus[s] = "completed" => shots[s][i] \in blobs \/ i \in Present(s)

\* The BLOB of a row belongs to the row's own assessment, since it is only ever
\* looked up there (get_evidence_blob), and a purge takes one with the other.
RowsOwnTheirBlobs ==
  \A s \in ScanIds : \A i \in DOMAIN shots[s] : shots[s][i] # None => shots[s][i].scan = s
=============================================================================
