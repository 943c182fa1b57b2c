--------------------------- MODULE InventoryProofs ---------------------------
(***************************************************************************)
(* Proofs about Inventory, for every program, set of rows and order of     *)
(* them, and any number of assessments: snapshots refer to assets of their *)
(* own, nothing is confirmed that no tool validated, and a repeated        *)
(* assessment changes nothing but details.                                 *)
(*                                                                         *)
(* The first two rest on what one row adds, the third on the sets that the *)
(* rows of a build add up to, in whatever order they come.                 *)
(***************************************************************************)
EXTENDS Inventory, FiniteSetTheorems, SequenceTheorems, TLAPS

(* Sequences that grow by one.                                             *)

IsSequence(s) == \E n \in Nat : s = [i \in 1 .. n |-> s[i]]

LEMMA EmptySequence == IsSequence(<<>>) /\ Len(<<>>) = 0 /\ DOMAIN <<>> = {}
<1>1. <<>> = [i \in 1 .. 0 |-> <<>>[i]]
  OBVIOUS
<1> QED
  BY <1>1 DEF IsSequence

LEMMA SequenceLength ==
  ASSUME NEW s, IsSequence(s)
  PROVE  Len(s) \in Nat /\ DOMAIN s = 1 .. Len(s)
<1>1. PICK n \in Nat : s = [i \in 1 .. n |-> s[i]]
  BY DEF IsSequence
<1>2. s \in [1 .. n -> {s[i] : i \in 1 .. n}]
  BY <1>1
<1>3. s \in Seq({s[i] : i \in 1 .. n})
  BY <1>2
<1> QED
  BY <1>3

LEMMA AppendGrows ==
  ASSUME NEW s, IsSequence(s), NEW e
  PROVE  /\ IsSequence(Append(s, e))
         /\ Len(Append(s, e)) = Len(s) + 1
         /\ \A i \in 1 .. Len(s) : Append(s, e)[i] = s[i]
         /\ Append(s, e)[Len(s) + 1] = e
<1>1. PICK n \in Nat : s = [i \in 1 .. n |-> s[i]]
  BY DEF IsSequence
<1> DEFINE S == {s[i] : i \in 1 .. n} \cup {e}
<1>2. s \in [1 .. n -> S]
  BY <1>1
<1>3. s \in Seq(S) /\ Len(s) = n
  BY <1>2
<1>4. Append(s, e) \in Seq(S) /\ Len(Append(s, e)) = n + 1
  BY <1>3
<1>5. \A i \in 1 .. n : Append(s, e)[i] = s[i]
  BY <1>3
<1>6. Append(s, e)[n + 1] = e
  BY <1>3
<1>7. IsSequence(Append(s, e))
  <2>1. Append(s, e) \in [1 .. Len(Append(s, e)) -> S]
    BY <1>4, LenProperties
  <2>2. Append(s, e) \in [1 .. n + 1 -> S] /\ n + 1 \in Nat
    BY <1>4, <2>1
  <2> HIDE DEF S
  <2> QED
    BY <2>2 DEF IsSequence
<1> QED
  BY <1>3, <1>4, <1>5, <1>6, <1>7

-----------------------------------------------------------------------------
(* One row: what it relates and finds is about what it mentions, or a root. *)

Known(b) == {m.asset : m \in b.mentions}

RootAssets == {StableId("domain", r) : r \in Roots}

MentionedBy(row) == {m.asset : m \in Mentions(row)}

LEMMA RowMentions ==
  ASSUME NEW row
  PROVE  /\ Host(row) \cup Url(row) \cup UrlHost(row) \cup Service(row) \subseteq MentionedBy(row)
         /\ Endpoint(row) \cup EndpointHost(row) \cup Email(row) \subseteq MentionedBy(row)
         /\ Ip(row) \cup Parameters(row) \cup Technologies(row) \subseteq MentionedBy(row)
<1> DEFINE upsert(assets, state) == {[asset |-> a, tool |-> row.tool, state |-> state] : a \in assets}
<1>1. ASSUME NEW assets, NEW state, upsert(assets, state) \subseteq Mentions(row)
      PROVE  assets \subseteq MentionedBy(row)
  <2> SUFFICES ASSUME NEW a \in assets PROVE a \in MentionedBy(row)
    OBVIOUS
  <2>1. [asset |-> a, tool |-> row.tool, state |-> state] \in Mentions(row)
    BY <1>1
  <2> QED
    BY <2>1 DEF MentionedBy
<1>2. /\ upsert(Host(row) \cup Url(row) \cup UrlHost(row) \cup Service(row), StateOf(row))
           \subseteq Mentions(row)
      /\ upsert(Endpoint(row) \cup EndpointHost(row) \cup Email(row), StateOf(row))
           \subseteq Mentions(row)
      /\ upsert(Ip(row), "ip_observed") \subseteq Mentions(row)
      /\ upsert(Parameters(row), "parameter_observed") \subseteq Mentions(row)
      /\ upsert(Technologies(row), "detected") \subseteq Mentions(row)
  BY DEF Mentions
<1> HIDE DEF upsert
<1> QED
  BY <1>1, <1>2

LEMMA RowHosts ==
  ASSUME NEW row
  PROVE  HostOrUrlHost(row) \subseteq MentionedBy(row) /\ AnyHost(row) \subseteq MentionedBy(row)
  BY RowMentions DEF HostOrUrlHost, AnyHost

LEMMA RowRoot == ASSUME NEW row PROVE Root(row) \subseteq RootAssets
  BY DEF Root, RootAssets

LEMMA RowRelations ==
  ASSUME NEW row, NEW r \in Relations(row)
  PROVE  {r.source, r.target} \subseteq MentionedBy(row) \cup RootAssets
<1> DEFINE About == MentionedBy(row) \cup RootAssets
           relate(from, type, to) ==
             {[source |-> s, target |-> t, type |-> type] : s \in from, t \in to}
<1>1. ASSUME NEW from \in SUBSET About, NEW to \in SUBSET About, NEW type, r \in relate(from, type, to)
      PROVE  {r.source, r.target} \subseteq About
  <2>1. PICK s \in from, t \in to : r = [source |-> s, target |-> t, type |-> type]
    BY <1>1
  <2> QED
    BY <2>1
<1>2. /\ {Host(row), Url(row), UrlHost(row), Service(row), Endpoint(row)} \subseteq SUBSET About
      /\ {EndpointHost(row), Email(row), Ip(row), Parameters(row)} \subseteq SUBSET About
      /\ {Technologies(row), HostOrUrlHost(row), AnyHost(row), Root(row)} \subseteq SUBSET About
  <2>1. /\ Host(row) \subseteq About /\ Url(row) \subseteq About /\ UrlHost(row) \subseteq About
        /\ Service(row) \subseteq About /\ Endpoint(row) \subseteq About
        /\ EndpointHost(row) \subseteq About /\ Email(row) \subseteq About /\ Ip(row) \subseteq About
        /\ Parameters(row) \subseteq About /\ Technologies(row) \subseteq About
    BY RowMentions
  <2>2. HostOrUrlHost(row) \subseteq About /\ AnyHost(row) \subseteq About /\ Root(row) \subseteq About
    BY RowHosts, RowRoot
  <2> HIDE DEF About
  <2> QED
    BY <2>1, <2>2
<1>3. \/ r \in relate(Root(row), "contains_hostname", Host(row))
      \/ r \in relate(Host(row), "resolves_to", Ip(row))
      \/ r \in relate(Url(row), "served_by", UrlHost(row))
      \/ r \in relate(Service(row), "runs_on", HostOrUrlHost(row))
      \/ r \in relate(Endpoint(row), "served_by", EndpointHost(row))
      \/ r \in relate(Url(row), "instance_of", Endpoint(row))
      \/ r \in relate(Endpoint(row), "accepts_parameter", Parameters(row))
      \/ r \in relate(AnyHost(row), "uses_technology", Technologies(row))
      \/ r \in relate(Root(row), "has_email_contact", Email(row))
  BY DEF Relations
<1> HIDE DEF About, relate
<1>4. {r.source, r.target} \subseteq About
  BY <1>1, <1>2, <1>3
<1> QED
  BY <1>4 DEF About

\* The affected asset is one of the candidates.
LEMMA AffectedOfThree ==
  ASSUME NEW A, NEW B, NEW C
  PROVE  Affected(<<A, B, C>>) \subseteq A \cup B \cup C
<1> DEFINE candidates == <<A, B, C>>
           present == {i \in DOMAIN candidates : candidates[i] # {}}
           first == CHOOSE i \in present : \A j \in present : i <= j
<1>1. DOMAIN candidates = {1, 2, 3}
  OBVIOUS
<1>2. present \subseteq {1, 2, 3}
  BY <1>1
<1>3. CASE present = {}
  BY <1>3 DEF Affected
<1>4. CASE present # {}
  <2> HIDE DEF present
  <2>1. \E i \in present : \A j \in present : i <= j
    <3>1. 1 \in present \/ (1 \notin present /\ 2 \in present) \/ present = {3}
      BY <1>2, <1>4
    <3>2. CASE 1 \in present
      BY <1>2, <3>2
    <3>3. CASE 1 \notin present /\ 2 \in present
      BY <1>2, <3>3
    <3>4. CASE present = {3}
      BY <3>4
    <3> QED
      BY <3>1, <3>2, <3>3, <3>4
  <2>2. first \in present
    BY <2>1
  <2> HIDE DEF first
  <2>3. first \in {1, 2, 3}
    BY <1>2, <2>2
  <2>4. candidates[first] \subseteq A \cup B \cup C
    BY <2>3
  <2>5. Affected(candidates) = candidates[first]
    BY <1>4 DEF Affected, present, first
  <2> QED
    BY <2>4, <2>5
<1> QED
  BY <1>3, <1>4

LEMMA AffectedOfFour ==
  ASSUME NEW A, NEW B, NEW C, NEW D
  PROVE  Affected(<<A, B, C, D>>) \subseteq A \cup B \cup C \cup D
<1> DEFINE candidates == <<A, B, C, D>>
           present == {i \in DOMAIN candidates : candidates[i] # {}}
           first == CHOOSE i \in present : \A j \in present : i <= j
<1>1. DOMAIN candidates = {1, 2, 3, 4}
  OBVIOUS
<1>2. present \subseteq {1, 2, 3, 4}
  BY <1>1
<1>3. CASE present = {}
  BY <1>3 DEF Affected
<1>4. CASE present # {}
  <2> HIDE DEF present
  <2>1. \E i \in present : \A j \in present : i <= j
    <3>1. \/ 1 \in present
          \/ 1 \notin present /\ 2 \in present
          \/ 1 \notin present /\ 2 \notin present /\ 3 \in present
          \/ present = {4}
      BY <1>2, <1>4
    <3>2. CASE 1 \in present
      BY <1>2, <3>2
    <3>3. CASE 1 \notin present /\ 2 \in present
      BY <1>2, <3>3
    <3>4. CASE 1 \notin present /\ 2 \notin present /\ 3 \in present
      BY <1>2, <3>4
    <3>5. CASE present = {4}
      BY <3>5
    <3> QED
      BY <3>1, <3>2, <3>3, <3>4, <3>5
  <2>2. first \in present
    BY <2>1
  <2> HIDE DEF first
  <2>3. first \in {1, 2, 3, 4}
    BY <1>2, <2>2
  <2>4. candidates[first] \subseteq A \cup B \cup C \cup D
    BY <2>3
  <2>5. Affected(candidates) = candidates[first]
    BY <1>4 DEF Affected, present, first
  <2> QED
    BY <2>4, <2>5
<1> QED
  BY <1>3, <1>4

LEMMA RowFindings ==
  ASSUME NEW row, NEW f \in FindingsOf(row)
  PROVE  f.asset \in MentionedBy(row) \cup RootAssets
<1> DEFINE three == Affected(<<Service(row), AnyHost(row), Root(row)>>)
           four == Affected(<<Url(row), Endpoint(row), AnyHost(row), Root(row)>>)
<1>1. three \subseteq MentionedBy(row) \cup RootAssets
  <2>1. three \subseteq Service(row) \cup AnyHost(row) \cup Root(row)
    BY AffectedOfThree
  <2> HIDE DEF three
  <2> QED
    BY <2>1, RowMentions, RowHosts, RowRoot
<1>2. four \subseteq MentionedBy(row) \cup RootAssets
  <2>1. four \subseteq Url(row) \cup Endpoint(row) \cup AnyHost(row) \cup Root(row)
    BY AffectedOfFour
  <2> HIDE DEF four
  <2> QED
    BY <2>1, RowMentions, RowHosts, RowRoot
<1>3. \E a \in three \cup four : \E identity : f = Finding(a, row, identity)
  <2>1. CASE f \in {Finding(a, row, cve) : a \in three, cve \in row.vulnerabilities}
    BY <2>1
  <2>2. CASE f \in {Finding(a, row, row.identity) :
                      a \in {a \in four : row.category \in {"vuln", "wordpress"}}}
    BY <2>2
  <2> QED
    BY <2>1, <2>2 DEF FindingsOf
<1> HIDE DEF three, four
<1>4. PICK a \in three \cup four : \E identity : f = Finding(a, row, identity)
  BY <1>3
<1>5. f.asset = a
  BY <1>4 DEF Finding
<1> QED
  BY <1>1, <1>2, <1>5

-----------------------------------------------------------------------------
(* A build: what it refers to is known, and the tools it has are finitely  *)
(* many, because every row adds one.                                       *)

ToolsSeen(b) == {m.tool : m \in b.mentions}

Sound(b) ==
  /\ IsFiniteSet(ToolsSeen(b))
  /\ RootAssets \subseteq Known(b)
  /\ \A r \in b.relations : {r.source, r.target} \subseteq Known(b)
  /\ \A id \in DOMAIN b.findings : b.findings[id].asset \in Known(b)

LEMMA EmptyIsSound == Sound(EmptyBuild)
<1>1. ToolsSeen(EmptyBuild) \subseteq {"scope"}
  BY DEF ToolsSeen, EmptyBuild
<1>2. IsFiniteSet({"scope"})
  BY FS_Singleton
<1>3. RootAssets \subseteq Known(EmptyBuild)
  <2> SUFFICES ASSUME NEW r \in Roots PROVE StableId("domain", r) \in Known(EmptyBuild)
    BY DEF RootAssets
  <2>1. [asset |-> StableId("domain", r), tool |-> "scope", state |-> "authorized"]
          \in EmptyBuild.mentions
    BY DEF EmptyBuild
  <2> QED
    BY <2>1 DEF Known
<1>4. EmptyBuild.relations = {} /\ DOMAIN EmptyBuild.findings = {}
  BY DEF EmptyBuild
<1> QED
  BY <1>1, <1>2, <1>3, <1>4, FS_Subset DEF Sound

\* A row's findings: the last row that has one decides what it says.
LEMMA NormalisedFindings ==
  ASSUME NEW b, NEW row
  PROVE  LET ids == {f.id : f \in FindingsOf(row)}
             findings == Normalise(b, row).findings
         IN  /\ DOMAIN findings = ids \cup DOMAIN b.findings
             /\ \A id \in ids : findings[id] \in FindingsOf(row)
             /\ \A id \in DOMAIN b.findings \ ids : findings[id] = b.findings[id]
<1> DEFINE ids == {f.id : f \in FindingsOf(row)}
           new == [id \in ids |-> CHOOSE f \in FindingsOf(row) : f.id = id]
<1>1. Normalise(b, row).findings = Written(b.findings, new)
  BY DEF Normalise
<1>2. \A id \in ids : new[id] \in FindingsOf(row)
  OBVIOUS
<1>3. DOMAIN new = ids
  OBVIOUS
<1> HIDE DEF ids, new
<1>4. /\ DOMAIN Written(b.findings, new) = ids \cup DOMAIN b.findings
      /\ \A id \in ids : Written(b.findings, new)[id] = new[id]
      /\ \A id \in DOMAIN b.findings \ ids : Written(b.findings, new)[id] = b.findings[id]
  BY <1>3 DEF Written
<1> QED
  BY <1>1, <1>2, <1>4 DEF ids

LEMMA NormaliseIsSound ==
  ASSUME NEW b, Sound(b), NEW row
  PROVE  Sound(Normalise(b, row))
<1> DEFINE next == Normalise(b, row)
<1>1. next.mentions = b.mentions \cup Mentions(row) /\ next.relations = b.relations \cup Relations(row)
  BY DEF Normalise
<1>2. Known(next) = Known(b) \cup MentionedBy(row)
  BY <1>1 DEF Known, MentionedBy
<1>3. ToolsSeen(next) \subseteq ToolsSeen(b) \cup {row.tool}
  <2>1. \A m \in Mentions(row) : m.tool = row.tool
    BY DEF Mentions
  <2> QED
    BY <1>1, <2>1 DEF ToolsSeen
<1>4. IsFiniteSet(ToolsSeen(next))
  <2>1. IsFiniteSet(ToolsSeen(b) \cup {row.tool})
    BY FS_Singleton, FS_Union DEF Sound
  <2> QED
    BY <1>3, <2>1, FS_Subset
<1>5. \A r \in next.relations : {r.source, r.target} \subseteq Known(next)
  <2> SUFFICES ASSUME NEW r \in next.relations PROVE {r.source, r.target} \subseteq Known(next)
    OBVIOUS
  <2>1. CASE r \in b.relations
    BY <1>2, <2>1 DEF Sound
  <2>2. CASE r \in Relations(row)
    BY <1>2, <2>2, RowRelations DEF Sound
  <2> QED
    BY <1>1, <2>1, <2>2
<1>6. \A id \in DOMAIN next.findings : next.findings[id].asset \in Known(next)
  <2> SUFFICES ASSUME NEW id \in DOMAIN next.findings PROVE next.findings[id].asset \in Known(next)
    OBVIOUS
  <2>1. CASE next.findings[id] \in FindingsOf(row)
    BY <1>2, <2>1, RowFindings DEF Sound
  <2>2. CASE id \in DOMAIN b.findings /\ next.findings[id] = b.findings[id]
    BY <1>2, <2>2 DEF Sound
  <2> QED
    BY <2>1, <2>2, NormalisedFindings
<1>7. RootAssets \subseteq Known(next)
  BY <1>2 DEF Sound
<1> QED
  BY <1>4, <1>5, <1>6, <1>7 DEF Sound

-----------------------------------------------------------------------------
(* A snapshot of a sound build.                                            *)

Closed(snapshot) ==
  LET known == DOMAIN snapshot.assets
  IN  /\ \A r \in snapshot.relations : {r.source, r.target} \subseteq known
      /\ \A id \in DOMAIN snapshot.findings : snapshot.findings[id].asset \in known

ConfirmedOnlyIfValidated(snapshot) ==
  \A a \in DOMAIN snapshot.assets :
    snapshot.assets[a].owner = "confirmed" =>
      snapshot.assets[a].states \cap (Validated \cup {"authorized"}) # {}

\* Sources and relations together are worth 60 at most.
LEMMA UnvalidatedScore ==
  ASSUME NEW b, IsFiniteSet(ToolsSeen(b)), NEW a,
         "authorized" \notin States(b, a), States(b, a) \cap Validated = {}
  PROVE  Ownership(Score(b, a)) # "confirmed"
<1> DEFINE seen == 15 * Cardinality(ToolsOf(b, a))
<1>1. ToolsOf(b, a) \subseteq ToolsSeen(b)
  BY DEF ToolsOf, ToolsSeen
<1>2. Cardinality(ToolsOf(b, a)) \in Nat
  BY <1>1, FS_Subset, FS_CardinalityType
<1>3. seen \in Nat
  BY <1>2
<1> HIDE DEF seen
<1>4. Score(b, a) = (IF seen < 45 THEN seen ELSE 45) + 0 + (IF Related(b, a) THEN 15 ELSE 0)
  BY DEF Score, seen
<1>5. Score(b, a) \in Nat /\ Score(b, a) <= 60
  <2>1. CASE Related(b, a)
    BY <1>3, <1>4, <2>1
  <2>2. CASE ~Related(b, a)
    BY <1>3, <1>4, <2>2
  <2> QED
    BY <2>1, <2>2
<1>6. ~(Score(b, a) >= 75)
  BY <1>5
<1> HIDE DEF Score
<1> QED
  BY <1>6 DEF Ownership

LEMMA SnapshotOfSound ==
  ASSUME NEW b, Sound(b)
  PROVE  Closed(SnapshotOf(b)) /\ ConfirmedOnlyIfValidated(SnapshotOf(b))
<1> DEFINE snapshot == SnapshotOf(b)
<1>1. /\ snapshot.assets = [a \in Known(b) |-> AssetOf(b, a)]
      /\ snapshot.relations = b.relations
      /\ snapshot.findings = b.findings
  BY DEF SnapshotOf, Known
<1>2. Closed(snapshot)
  BY <1>1 DEF Closed, Sound
<1>3. ASSUME NEW a \in Known(b), AssetOf(b, a).owner = "confirmed"
      PROVE  AssetOf(b, a).states \cap (Validated \cup {"authorized"}) # {}
  <2>1. AssetOf(b, a).owner = Ownership(Score(b, a)) /\ AssetOf(b, a).states = States(b, a)
    BY DEF AssetOf
  <2>2. "authorized" \in States(b, a) \/ States(b, a) \cap Validated # {}
    BY <1>3, <2>1, UnvalidatedScore DEF Sound
  <2> QED
    BY <2>1, <2>2
<1>4. ConfirmedOnlyIfValidated(snapshot)
  BY <1>1, <1>3 DEF ConfirmedOnlyIfValidated
<1> QED
  BY <1>2, <1>4

-----------------------------------------------------------------------------
(* The steps: every build is sound, so is every snapshot.                  *)

SequencesGrow ==
  /\ IsSequence(sources)
  /\ IsSequence(snapshots)

SoundInv ==
  /\ SequencesGrow
  /\ Sound(build)
  /\ \A i \in DOMAIN snapshots : Closed(snapshots[i]) /\ ConfirmedOnlyIfValidated(snapshots[i])

LEMMA SoundNext == SoundInv /\ [InventoryNext]_inventoryVars => SoundInv'
<1> SUFFICES ASSUME SoundInv, [InventoryNext]_inventoryVars PROVE SoundInv'
  OBVIOUS
<1> USE DEF SoundInv, SequencesGrow
<1>1. CASE StartBuild
  BY <1>1, EmptyIsSound, AppendGrows DEF StartBuild
<1>2. CASE NormaliseRow
  BY <1>2, NormaliseIsSound DEF NormaliseRow
<1>3. CASE TakeSnapshot
  <2>1. snapshots' = Append(snapshots, SnapshotOf(build)) /\ UNCHANGED <<build, sources>>
    BY <1>3 DEF TakeSnapshot
  <2>2. IsSequence(snapshots') /\ DOMAIN snapshots' = 1 .. Len(snapshots) + 1 /\ Len(snapshots) \in Nat
    BY <2>1, AppendGrows, SequenceLength
  <2>3. ASSUME NEW i \in DOMAIN snapshots'
        PROVE  Closed(snapshots'[i]) /\ ConfirmedOnlyIfValidated(snapshots'[i])
    <3>1. CASE i \in DOMAIN snapshots
      BY <2>1, <3>1, AppendGrows, SequenceLength
    <3>2. CASE i = Len(snapshots) + 1
      BY <2>1, <3>2, AppendGrows, SnapshotOfSound
    <3> QED
      BY <2>2, <2>3, <3>1, <3>2, SequenceLength
  <2> QED
    BY <2>1, <2>2, <2>3
<1>4. CASE UNCHANGED inventoryVars
  BY <1>4 DEF inventoryVars
<1> QED
  BY <1>1, <1>2, <1>3, <1>4 DEF InventoryNext

LEMMA SoundAlways == InventorySpec => []SoundInv
<1>1. InventoryInit => SoundInv
  BY EmptyIsSound, EmptySequence DEF InventoryInit, SoundInv, SequencesGrow
<1> QED
  BY <1>1, SoundNext, PTL DEF InventorySpec

\* The portfolio finds every asset that a relation or a finding of a snapshot
\* names in that snapshot.
THEOREM SnapshotsAlwaysClosed == InventorySpec => []SnapshotIsClosed
<1>1. SoundInv => SnapshotIsClosed
  BY DEF SoundInv, SnapshotIsClosed, Closed
<1> QED
  BY <1>1, SoundAlways, PTL

\* No number of sources and no relation confirms an asset: a tool that reached
\* it does, or the scope list.
THEOREM ConfirmedAlwaysValidated == InventorySpec => []ConfirmedWasValidated
<1>1. SoundInv => ConfirmedWasValidated
  BY DEF SoundInv, ConfirmedWasValidated, ConfirmedOnlyIfValidated
<1> QED
  BY <1>1, SoundAlways, PTL

-----------------------------------------------------------------------------
(* What a build has collected depends on the set of rows it has seen, and  *)
(* on nothing else but for the details and the finding each identity has.  *)

Collected(b, rows) ==
  /\ \A m : m \in b.mentions <=> m \in EmptyBuild.mentions \/ \E row \in rows : m \in Mentions(row)
  /\ \A r : r \in b.relations <=> \E row \in rows : r \in Relations(row)
  /\ \A id : id \in DOMAIN b.findings <=> \E row \in rows : \E f \in FindingsOf(row) : f.id = id

Reflects(snapshot, rows) == \E b : Collected(b, rows) /\ snapshot = SnapshotOf(b)

LEMMA EmptyIsCollected == Collected(EmptyBuild, {})
  BY DEF Collected, EmptyBuild

LEMMA NormaliseCollects ==
  ASSUME NEW b, NEW rows, Collected(b, rows), NEW row
  PROVE  Collected(Normalise(b, row), rows \cup {row})
<1> DEFINE next == Normalise(b, row)
<1>1. next.mentions = b.mentions \cup Mentions(row) /\ next.relations = b.relations \cup Relations(row)
  BY DEF Normalise
<1>2. DOMAIN next.findings = {f.id : f \in FindingsOf(row)} \cup DOMAIN b.findings
  BY NormalisedFindings
<1> HIDE DEF next
<1>3. \A m : m \in next.mentions
        <=> m \in EmptyBuild.mentions \/ \E r \in rows \cup {row} : m \in Mentions(r)
  BY <1>1 DEF Collected
<1>4. \A t : t \in next.relations <=> \E r \in rows \cup {row} : t \in Relations(r)
  BY <1>1 DEF Collected
<1>5. \A id : id \in DOMAIN next.findings
        <=> \E r \in rows \cup {row} : \E f \in FindingsOf(r) : f.id = id
  BY <1>2 DEF Collected
<1> QED
  BY <1>3, <1>4, <1>5 DEF Collected, next

\* Two snapshots of the same rows differ in details, and in those only.
LEMMA SameRows ==
  ASSUME NEW rows, NEW current, NEW previous, Reflects(current, rows), Reflects(previous, rows)
  PROVE  LET d == Delta(current, previous)
         IN  /\ d.added \cup d.removed \cup d.new \cup d.resolved = {}
             /\ \A a \in d.changed : current.assets[a].detail # previous.assets[a].detail
<1>1. PICK b : Collected(b, rows) /\ current = SnapshotOf(b)
  BY DEF Reflects
<1>2. PICK c : Collected(c, rows) /\ previous = SnapshotOf(c)
  BY DEF Reflects
<1>3. b.mentions = c.mentions /\ b.relations = c.relations /\ DOMAIN b.findings = DOMAIN c.findings
  <2>1. \A m : m \in b.mentions <=> m \in c.mentions
    BY <1>1, <1>2 DEF Collected
  <2>2. \A r : r \in b.relations <=> r \in c.relations
    BY <1>1, <1>2 DEF Collected
  <2>3. \A id : id \in DOMAIN b.findings <=> id \in DOMAIN c.findings
    BY <1>1, <1>2 DEF Collected
  <2>4. b.mentions = c.mentions
    BY <2>1 DEF Collected
  <2> QED
    BY <2>2, <2>3, <2>4
<1>4. /\ current.assets = [a \in Known(b) |-> AssetOf(b, a)]
      /\ previous.assets = [a \in Known(b) |-> AssetOf(c, a)]
      /\ DOMAIN current.findings = DOMAIN previous.findings
  <2>1. Known(b) = Known(c)
    BY <1>3 DEF Known
  <2> QED
    BY <1>1, <1>2, <1>3, <2>1 DEF SnapshotOf, Known
<1>5. ASSUME NEW a, AssetOf(b, a).detail = AssetOf(c, a).detail PROVE AssetOf(b, a) = AssetOf(c, a)
  <2>1. States(b, a) = States(c, a) /\ ToolsOf(b, a) = ToolsOf(c, a) /\ Related(b, a) = Related(c, a)
    BY <1>3 DEF States, ToolsOf, Related
  <2>2. Score(b, a) = Score(c, a)
    BY <2>1 DEF Score
  <2> QED
    BY <1>5, <2>1, <2>2 DEF AssetOf
<1>6. DOMAIN current.assets = Known(b) /\ DOMAIN previous.assets = Known(b)
  BY <1>4
<1> DEFINE d == Delta(current, previous)
<1>7. d.added = {} /\ d.removed = {} /\ d.new = {} /\ d.resolved = {}
  BY <1>4, <1>6 DEF Delta
<1>8. d.changed = {a \in Known(b) : AssetOf(b, a) # AssetOf(c, a)}
  BY <1>4, <1>6 DEF Delta
<1>9. ASSUME NEW a \in d.changed PROVE current.assets[a].detail # previous.assets[a].detail
  BY <1>4, <1>5, <1>8, <1>9
<1> QED
  BY <1>7, <1>9

\* At most one build is under way, and it takes the rows of the last list.
OneBuild ==
  /\ Len(sources) = Len(snapshots) \/ Len(sources) = Len(snapshots) + 1
  /\ ~Building => left = {}

BuildCollects ==
  Building => /\ left \subseteq sources[Len(sources)]
              /\ Collected(build, sources[Len(sources)] \ left)

SnapshotsReflect == \A i \in DOMAIN snapshots : Reflects(snapshots[i], sources[i])

RepeatInv == SequencesGrow /\ OneBuild /\ BuildCollects /\ SnapshotsReflect

\* Counting lists and snapshots.
LEMMA OneAhead ==
  ASSUME NEW m \in Nat, NEW n \in Nat, m = n \/ m = n + 1
  PROVE  /\ m > n => m = n + 1
         /\ ~(m > n) => m = n
  OBVIOUS

LEMMA UpToNext ==
  ASSUME NEW n \in Nat, NEW i \in 1 .. n + 1
  PROVE  i \in 1 .. n \/ i = n + 1
  OBVIOUS

LEMMA Lengths ==
  ASSUME SequencesGrow, OneBuild
  PROVE  /\ Len(sources) \in Nat /\ DOMAIN sources = 1 .. Len(sources)
         /\ Len(snapshots) \in Nat /\ DOMAIN snapshots = 1 .. Len(snapshots)
         /\ ~Building => Len(sources) = Len(snapshots)
         /\ Building => Len(sources) = Len(snapshots) + 1
<1>1. /\ Len(sources) \in Nat /\ DOMAIN sources = 1 .. Len(sources)
      /\ Len(snapshots) \in Nat /\ DOMAIN snapshots = 1 .. Len(snapshots)
  BY SequenceLength DEF SequencesGrow
<1>2. Len(sources) = Len(snapshots) \/ Len(sources) = Len(snapshots) + 1
  BY DEF OneBuild
<1> QED
  BY <1>1, <1>2, OneAhead DEF Building

LEMMA RepeatNext == RepeatInv /\ [InventoryNext]_inventoryVars => RepeatInv'
<1> SUFFICES ASSUME RepeatInv, [InventoryNext]_inventoryVars PROVE RepeatInv'
  OBVIOUS
<1>0. /\ Len(sources) \in Nat /\ DOMAIN sources = 1 .. Len(sources)
      /\ Len(snapshots) \in Nat /\ DOMAIN snapshots = 1 .. Len(snapshots)
      /\ ~Building => Len(sources) = Len(snapshots)
      /\ Building => Len(sources) = Len(snapshots) + 1
  BY Lengths DEF RepeatInv
<1>00. IsSequence(sources) /\ IsSequence(snapshots) /\ OneBuild /\ BuildCollects /\ SnapshotsReflect
  BY DEF RepeatInv, SequencesGrow
<1>1. CASE StartBuild
  <2>1. PICK rows \in Batches : left' = rows /\ sources' = Append(sources, rows)
    BY <1>1 DEF StartBuild
  <2>2. build' = EmptyBuild /\ snapshots' = snapshots /\ Len(sources) = Len(snapshots)
    BY <1>0, <1>1 DEF StartBuild
  <2>3. /\ IsSequence(sources')
        /\ Len(sources') = Len(snapshots) + 1
        /\ sources'[Len(sources')] = rows
        /\ \A i \in 1 .. Len(snapshots) : sources'[i] = sources[i]
    BY <1>00, <2>1, <2>2, AppendGrows
  <2>4. SequencesGrow'
    BY <1>00, <2>2, <2>3 DEF SequencesGrow
  <2>5. OneBuild'
    <3>1. \A n \in Nat : n + 1 > n
      OBVIOUS
    <3>2. Len(sources') = Len(snapshots) + 1 /\ Len(snapshots') = Len(snapshots)
      BY <2>2, <2>3
    <3>3. Len(sources') > Len(snapshots')
      BY <1>0, <3>1, <3>2
    <3> QED
      BY <3>2, <3>3 DEF OneBuild, Building
  <2>6. BuildCollects'
    <3>1. rows \ rows = {}
      OBVIOUS
    <3> QED
      BY <2>1, <2>2, <2>3, <3>1, EmptyIsCollected DEF BuildCollects
  <2>7. SnapshotsReflect'
    BY <1>0, <1>00, <2>2, <2>3 DEF SnapshotsReflect
  <2> QED
    BY <2>4, <2>5, <2>6, <2>7 DEF RepeatInv
<1>2. CASE NormaliseRow
  <2>1. PICK row \in left : build' = Normalise(build, row) /\ left' = left \ {row}
    BY <1>2 DEF NormaliseRow
  <2>2. sources' = sources /\ snapshots' = snapshots
    BY <1>2 DEF NormaliseRow
  <2>3. Building /\ Building'
    BY <1>00, <2>1, <2>2 DEF OneBuild, Building
  <2> DEFINE rows == sources[Len(sources)]
  <2>4. left \subseteq rows /\ Collected(build, rows \ left)
    BY <1>00, <2>3 DEF BuildCollects
  <2>5. rows \ left' = (rows \ left) \cup {row} /\ left' \subseteq rows
    BY <2>1, <2>4
  <2> HIDE DEF rows
  <2>6. Collected(build', rows \ left')
    BY <2>1, <2>4, <2>5, NormaliseCollects
  <2>7. BuildCollects'
    BY <2>2, <2>5, <2>6 DEF BuildCollects, rows
  <2>8. SequencesGrow' /\ SnapshotsReflect'
    BY <1>00, <2>2 DEF SequencesGrow, SnapshotsReflect
  <2>9. OneBuild'
    BY <1>00, <2>2, <2>3 DEF OneBuild
  <2> QED
    BY <2>7, <2>8, <2>9 DEF RepeatInv
<1>3. CASE TakeSnapshot
  <2>1. /\ Building /\ left = {} /\ left' = left /\ sources' = sources
        /\ snapshots' = Append(snapshots, SnapshotOf(build))
    BY <1>3 DEF TakeSnapshot
  <2>2. /\ IsSequence(snapshots')
        /\ Len(snapshots') = Len(snapshots) + 1
        /\ snapshots'[Len(snapshots) + 1] = SnapshotOf(build)
        /\ \A i \in 1 .. Len(snapshots) : snapshots'[i] = snapshots[i]
    BY <1>00, <2>1, AppendGrows
  <2>3. DOMAIN snapshots' = 1 .. Len(snapshots) + 1
    BY <2>2, SequenceLength
  <2>4. Reflects(SnapshotOf(build), sources[Len(sources)])
    <3>1. sources[Len(sources)] \ left = sources[Len(sources)]
      BY <2>1
    <3>2. Collected(build, sources[Len(sources)])
      BY <1>00, <2>1, <3>1 DEF BuildCollects
    <3> QED
      BY <3>2 DEF Reflects
  <2>5. SnapshotsReflect'
    <3> SUFFICES ASSUME NEW i \in DOMAIN snapshots' PROVE Reflects(snapshots'[i], sources'[i])
      BY DEF SnapshotsReflect
    <3>1. CASE i \in DOMAIN snapshots
      BY <1>0, <1>00, <2>1, <2>2, <3>1 DEF SnapshotsReflect
    <3>2. CASE i = Len(snapshots) + 1
      BY <1>0, <2>1, <2>2, <2>4, <3>2
    <3> QED
      BY <1>0, <2>3, <3>1, <3>2, UpToNext
  <2>6. SequencesGrow'
    BY <1>00, <2>1, <2>2 DEF SequencesGrow
  <2>7. ~Building' /\ OneBuild'
    <3>1. Len(sources') = Len(snapshots') /\ Len(snapshots') \in Nat
      BY <1>0, <2>1, <2>2
    <3> QED
      BY <2>1, <3>1 DEF OneBuild, Building
  <2>8. BuildCollects'
    BY <2>7 DEF BuildCollects
  <2> QED
    BY <2>5, <2>6, <2>7, <2>8 DEF RepeatInv
<1>4. CASE UNCHANGED inventoryVars
  BY <1>00, <1>4
     DEF inventoryVars, RepeatInv, SequencesGrow, OneBuild, BuildCollects, SnapshotsReflect, Building
<1> QED
  BY <1>1, <1>2, <1>3, <1>4 DEF InventoryNext

\* An assessment with the rows of the one before changes nothing but details,
\* whatever the orders in which the two builds took them.
THEOREM RepeatAlwaysQuiet == InventorySpec => []RepeatIsQuiet
<1>1. InventoryInit => RepeatInv
  BY EmptySequence
     DEF InventoryInit, RepeatInv, SequencesGrow, OneBuild, BuildCollects, SnapshotsReflect, Building
<1>2. RepeatInv => RepeatIsQuiet
  <2> SUFFICES ASSUME RepeatInv, NEW i \in DOMAIN snapshots \ {1}, sources[i] = sources[i - 1]
               PROVE  LET d == Delta(snapshots[i], snapshots[i - 1])
                      IN  /\ d.added \cup d.removed \cup d.new \cup d.resolved = {}
                          /\ \A a \in d.changed :
                               snapshots[i].assets[a].detail # snapshots[i - 1].assets[a].detail
    BY DEF RepeatIsQuiet
  <2>1. i \in 1 .. Len(snapshots) /\ i # 1 /\ Len(snapshots) \in Nat
    BY SequenceLength DEF RepeatInv, SequencesGrow
  <2>2. i - 1 \in DOMAIN snapshots
    BY <2>1, SequenceLength DEF RepeatInv, SequencesGrow
  <2>3. Reflects(snapshots[i], sources[i]) /\ Reflects(snapshots[i - 1], sources[i])
    BY <2>2 DEF RepeatInv, SnapshotsReflect
  <2> QED
    BY <2>3, SameRows
<1> QED
  BY <1>1, <1>2, RepeatNext, PTL DEF InventorySpec
=============================================================================
