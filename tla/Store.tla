------------------------------- MODULE Store -------------------------------
(***************************************************************************)
(* The tables of backend/storage/sql_storage.py that one assessment        *)
(* touches, as a value: the project row, the scan row, the result rows     *)
(* (with their evidence blobs, which are written and deleted together) and *)
(* the inventory row.  Every storage call is one SQLite transaction under  *)
(* the write lock, so each is one operator from a database to a database.  *)
(*                                                                         *)
(* Two facts of the schema shape everything built on this module:          *)
(*   - every save_* is an upsert of the WHOLE record: the last writer's    *)
(*     copy wins, and saving a record that was deleted inserts it again;   *)
(*   - foreign keys are on: a row whose parent is gone is rejected, and    *)
(*     deleting a parent deletes its children.                             *)
(***************************************************************************)
EXTENDS FiniteSets

CONSTANTS
  Jobs        \* the (domain, tool) pairs of the assessment

ScanStatus == {"pending", "running", "completed", "failed", "cancelled"}

TerminalStatus == {"completed", "failed", "cancelled"}

\* A scan record: its status and whether its progress list is non-empty.
ScanRecord == [status : ScanStatus, progress : BOOLEAN]

NoScan == [status |-> "absent", progress |-> FALSE]

\* scan.progress = [] on a loaded record.
WithoutProgress(s) == [status |-> s.status, progress |-> FALSE]

\* inventory is {} or the singleton of the result set the snapshot was built
\* from.
Database ==
  [project   : BOOLEAN,
   scan      : ScanRecord \cup {NoScan},
   results   : SUBSET Jobs,
   inventory : SUBSET (SUBSET Jobs)]

HasScan(d) == d.scan # NoScan

(***************************************************************************)
(* A foreign key violation leaves the table as it was; the caller sees the *)
(* exception (AcceptsScan, HasScan say when there is none).                *)
(***************************************************************************)
AcceptsScan(d) == d.project

\* Mutant: foreign keys are off.
SaveScanUnchecked(d, s) == [d EXCEPT !.scan = s]

SaveScan(d, s) == IF AcceptsScan(d) THEN [d EXCEPT !.scan = s] ELSE d

SaveResult(d, j) ==
  IF HasScan(d) THEN [d EXCEPT !.results = @ \cup {j}] ELSE d

SaveInventory(d, rs) ==
  IF HasScan(d) THEN [d EXCEPT !.inventory = {rs}] ELSE d

\* delete_results removes results and evidence blobs; inventories stay.
DeleteResults(d) == [d EXCEPT !.results = {}]

DeleteScan(d) ==
  [d EXCEPT !.scan = NoScan, !.results = {}, !.inventory = {}]

SaveProject(d) == [d EXCEPT !.project = TRUE]

DeleteProject(d) == [DeleteScan(d) EXCEPT !.project = FALSE]

=============================================================================
