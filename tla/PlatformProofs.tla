--------------------------- MODULE PlatformProofs ---------------------------
(***************************************************************************)
(* The components beside the assessment engine share no variable, so every *)
(* behaviour of MCPlatform is, seen from each of them, a behaviour of that *)
(* component: its steps, or stuttering.  What is proved of a component     *)
(* therefore holds of the specification that the runs check, whatever      *)
(* parts a run looks at and whatever its constants are.                    *)
(***************************************************************************)
EXTENDS MCPlatform, InventoryProofs, FindingsProofs, RecordsProofs, HandoffsProofs

PlatformStep == [PlatformNext /\ UNCHANGED part]_platformVars

LEMMA InventoryPart ==
  /\ PlatformInit => InventoryInit
  /\ PlatformStep => [InventoryNext]_inventoryVars
  BY DEF PlatformInit, PlatformStep, PlatformNext, platformVars

LEMMA FindingsPart ==
  /\ PlatformInit => FindingsInit
  /\ PlatformStep => [FindingsNext]_findingsVars
  BY DEF PlatformInit, PlatformStep, PlatformNext, platformVars

LEMMA AccountsPart ==
  /\ PlatformInit => AccountsInit
  /\ PlatformStep => [AccountsNext]_accountsVars
  BY DEF PlatformInit, PlatformStep, PlatformNext, platformVars

LEMMA KeysPart ==
  /\ PlatformInit => KeysInit
  /\ PlatformStep => [KeysNext]_keysVars
  BY DEF PlatformInit, PlatformStep, PlatformNext, platformVars

LEMMA EvidencePart ==
  /\ PlatformInit => EvidenceInit
  /\ PlatformStep => [EvidenceNext]_evidenceVars
  BY DEF PlatformInit, PlatformStep, PlatformNext, platformVars

LEMMA HandoffsPart ==
  /\ PlatformInit => HandoffsInit
  /\ PlatformStep => [HandoffsNext]_handoffVars
  BY DEF PlatformInit, PlatformStep, PlatformNext, platformVars

\* The platform implements the specification of every component.
THEOREM PlatformRunsComponents ==
  PlatformSpec =>
    /\ InventorySpec /\ FindingsSpec /\ AccountsSpec
    /\ KeysSpec /\ EvidenceSpec /\ HandoffsSpec
<1>1. PlatformSpec => InventorySpec
  BY InventoryPart, PTL DEF PlatformSpec, InventorySpec, PlatformStep
<1>2. PlatformSpec => FindingsSpec
  BY FindingsPart, PTL DEF PlatformSpec, FindingsSpec, PlatformStep
<1>3. PlatformSpec => AccountsSpec
  BY AccountsPart, PTL DEF PlatformSpec, AccountsSpec, PlatformStep
<1>4. PlatformSpec => KeysSpec
  BY KeysPart, PTL DEF PlatformSpec, KeysSpec, PlatformStep
<1>5. PlatformSpec => EvidenceSpec
  BY EvidencePart, PTL DEF PlatformSpec, EvidenceSpec, PlatformStep
<1>6. PlatformSpec => HandoffsSpec
  BY HandoffsPart, PTL DEF PlatformSpec, HandoffsSpec, PlatformStep
<1> QED
  BY <1>1, <1>2, <1>3, <1>4, <1>5, <1>6

\* The state of every component has the form its module gives it, and snapshots
\* refer to assets of their own only.
THEOREM PlatformTypeCorrect == PlatformSpec => []PlatformTypeOK
<1>1. /\ SnapshotIsClosed /\ FindingsTypeOK /\ AccountsTypeOK
      /\ KeysTypeOK /\ EvidenceTypeOK /\ HandoffsTypeOK
      => PlatformTypeOK
  BY DEF PlatformTypeOK
<1> QED
  BY <1>1, PlatformRunsComponents, SnapshotsAlwaysClosed, FindingsTypeCorrect, AccountsTypeCorrect,
     KeysTypeCorrect, EvidenceTypeCorrect, HandoffsTypeCorrect, PTL
=============================================================================
