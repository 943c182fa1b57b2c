------------------------------ MODULE StagedRun ------------------------------
(***************************************************************************)
(* What an assessment promises about the order of its tools, without       *)
(* phases, domains, permits, subprocesses or a database: a tool starts     *)
(* only when every tool it depends on has finished.                        *)
(***************************************************************************)
CONSTANTS
  Jobs,
  Order      \* <<k, j>> \in Order: j consumes what k leaves behind

VARIABLES
  started,   \* jobs that were ever started
  finished   \* jobs that ran to done, error or skipped

vars == <<started, finished>>

Init ==
  /\ started = {}
  /\ finished = {}

\* Several jobs may be started together, each with its inputs complete.
Start(S) ==
  /\ \A j \in S, k \in Jobs : <<k, j>> \in Order => k \in finished
  /\ started' = started \cup S
  /\ UNCHANGED finished

Finish(j) ==
  /\ j \in started
  /\ finished' = finished \cup {j}
  /\ UNCHANGED started

Next ==
  \/ \E S \in SUBSET Jobs : Start(S)
  \/ \E j \in Jobs : Finish(j)

Spec == Init /\ [][Next]_vars

=============================================================================
