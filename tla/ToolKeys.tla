------------------------------ MODULE ToolKeys ------------------------------
(***************************************************************************)
(* Where a tool's API key comes from: the variables exported to the        *)
(* process, the credential file (backend/env_file.py), and the keys stored *)
(* by the Settings page (api/settings.py) and applied to the environment   *)
(* (tool_secrets.py) when the server starts (main.py), when an assessment  *)
(* starts (scan_engine.py) and when the tools are listed (api/tools.py).   *)
(* The command line (recon.py) is one such start and one assessment.       *)
(*                                                                         *)
(* The tools see the environment only.  A reader loads the stored keys and *)
(* applies them after an await, so another request may come in between.    *)
(***************************************************************************)
EXTENDS Integers

CONSTANTS
  Keys, Values, Blank,
  Exports,    \* what the shell may export for a key
  InFile,     \* what the credential file may say of it
  Mask,       \* what the page shows of, and sends back for, a stored key
  Clear,      \* what it sends to remove one
  Readers,    \* starts of assessments and lists of tools that may be under way
  Savers,     \* saves that may be under way
  MaxStarts,  \* bound: starts of the server
  MaxSaves    \* bound: saves

ASSUME KeysAssumption ==
  /\ Blank \notin Values
  /\ Exports \cup InFile \subseteq Values \cup {Blank}
  /\ {Mask, Clear} \cap (Values \cup {Blank}) = {}

Setting == Values \cup {Blank}

VARIABLES
  exported,  \* what the shell or the container gives the process
  file,      \* the credential file
  stored,    \* the tool_api_keys configuration
  environ,   \* os.environ of the server
  locked,    \* _locked_env_keys
  reading,   \* what each reader has loaded, or nothing
  saving,    \* where each saver is, and what it stores
  raced,     \* history: keys a reader or saver had loaded when one was saved
  starts, saves

keysVars ==
  <<exported, file, stored, environ, locked, reading, saving, raced, starts, saves>>

Nothing == [k \in {} |-> Blank]

NoKeys == [k \in Keys |-> Blank]

NotSaving == [at |-> "none", config |-> NoKeys]

KeysInit ==
  /\ exported = NoKeys
  /\ file = NoKeys
  /\ stored = NoKeys
  /\ environ = NoKeys
  /\ locked = {}
  /\ reading = [r \in Readers |-> Nothing]
  /\ saving = [s \in Savers |-> NotSaving]
  /\ raced = {}
  /\ starts = 0
  /\ saves = 0

Serving == starts > 0

-----------------------------------------------------------------------------
(* tool_secrets.py.                                                        *)

\* Mutant: stored keys fill the gaps only.
ApplyToGaps(config, env, locks, respect) ==
  [k \in Keys |-> IF env[k] = Blank THEN config[k] ELSE env[k]]

\* apply_tool_api_keys: a blank key changes nothing, and a locked one does not
\* either when locks are respected.
Apply(config, env, locks, respect) ==
  [k \in Keys |->
     IF config[k] # Blank /\ ~(respect /\ k \in locks) THEN config[k] ELSE env[k]]

\* merge_tool_api_keys: blank and masked fields keep what is stored.
Merge(current, payload) ==
  [k \in Keys |-> IF payload[k] \in {Blank, Mask} THEN current[k]
                  ELSE IF payload[k] = Clear THEN Blank ELSE payload[k]]

-----------------------------------------------------------------------------
(* The server starts: load_env_file, then lifespan.                        *)

\* apply_values: an exported variable overrides the file, an empty one does not.
FromFile(env, values) == {k \in Keys : values[k] # Blank /\ env[k] = Blank}

\* The operator may have changed either before a start.
StartServer ==
  /\ starts < MaxStarts
  /\ starts' = starts + 1
  /\ exported' \in [Keys -> Exports]
  /\ file' \in [Keys -> InFile]
  /\ locked' = FromFile(exported', file')
  /\ environ' = Apply(stored, [k \in Keys |-> IF k \in locked' THEN file'[k] ELSE exported'[k]],
                      locked', TRUE)
  /\ reading' = [r \in Readers |-> Nothing]
  /\ saving' = [s \in Savers |-> NotSaving]
  /\ raced' = {}
  /\ UNCHANGED <<stored, saves>>

-----------------------------------------------------------------------------
(* Readers: run_scan and list_tools.                                       *)

ReaderLoads(r) ==
  /\ Serving
  /\ reading[r] = Nothing
  /\ reading' = [reading EXCEPT ![r] = stored]
  /\ UNCHANGED <<exported, file, stored, environ, locked, saving, raced, starts, saves>>

ReaderApplies(r) ==
  /\ reading[r] # Nothing
  /\ environ' = Apply(reading[r], environ, locked, TRUE)
  /\ reading' = [reading EXCEPT ![r] = Nothing]
  /\ UNCHANGED <<exported, file, stored, locked, saving, raced, starts, saves>>

-----------------------------------------------------------------------------
(* save_tool_api_keys.                                                     *)

SaverLoads(s) ==
  /\ Serving
  /\ saving[s] = NotSaving
  /\ saves < MaxSaves
  /\ saves' = saves + 1
  /\ \E payload \in [Keys -> Setting \cup {Mask, Clear}] :
       saving' = [saving EXCEPT ![s] = [at |-> "loaded", config |-> Merge(stored, payload)]]
  /\ UNCHANGED <<exported, file, stored, environ, locked, reading, raced, starts>>

SaverSaves(s) ==
  /\ saving[s].at = "loaded"
  /\ stored' = saving[s].config
  /\ saving' = [saving EXCEPT ![s].at = "saved"]
  /\ raced' = IF (\E r \in Readers : reading[r] # Nothing)
                 \/ (\E o \in Savers \ {s} : saving[o] # NotSaving)
              THEN Keys ELSE raced
  /\ UNCHANGED <<exported, file, environ, locked, reading, starts, saves>>

\* Mutant: a save leaves the locks alone.
LocksStay(config) == locked

\* Every stored key is applied, the ones this save did not touch included, and
\* is no longer protected.
LocksLeft(config) == {k \in locked : config[k] = Blank}

SaverApplies(s) ==
  /\ saving[s].at = "saved"
  /\ environ' = Apply(saving[s].config, environ, locked, FALSE)
  /\ locked' = LocksLeft(saving[s].config)
  /\ saving' = [saving EXCEPT ![s] = NotSaving]
  /\ UNCHANGED <<exported, file, stored, reading, raced, starts, saves>>

KeysNext ==
  \/ StartServer
  \/ \E r \in Readers : ReaderLoads(r) \/ ReaderApplies(r)
  \/ \E s \in Savers : SaverLoads(s) \/ SaverSaves(s) \/ SaverApplies(s)

KeysSpec == KeysInit /\ [][KeysNext]_keysVars

-----------------------------------------------------------------------------
(* Correctness.                                                            *)

KeysTypeOK ==
  /\ {exported, file, stored, environ} \subseteq [Keys -> Setting]
  /\ locked \subseteq Keys
  /\ reading \in [Readers -> {Nothing} \cup [Keys -> Setting]]
  /\ saving \in [Savers -> [at : {"none", "loaded", "saved"}, config : [Keys -> Setting]]]
  /\ raced \subseteq Keys
  /\ {starts, saves} \subseteq Nat

\* A variable the file supplied keeps the file's value until an operator saves
\* a key for it, whatever is stored and however many assessments apply it.
LockedStays == \A k \in locked : environ[k] = file[k]

\* Once every request is over, each stored key is what the tools see, unless
\* the file protects it, or a request that had loaded the keys before a save
\* finished after it.
NewestTakesEffect ==
  Serving /\ (\A r \in Readers : reading[r] = Nothing) /\ (\A s \in Savers : saving[s] = NotSaving) =>
    \A k \in Keys \ (locked \cup raced) : stored[k] # Blank => environ[k] = stored[k]

\* "Variables already exported in your shell" come before "Keys saved in the
\* database through the Settings UI" (README.md:402-406, backend/env_file.py:9-17):
\* a start of the server leaves them as they are.
ExportedWins ==
  [][\A k \in Keys :
       starts' # starts /\ exported'[k] # Blank => environ'[k] = exported'[k]]_keysVars
=============================================================================
