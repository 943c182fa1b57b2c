------------------------------ MODULE Inventory ------------------------------
(***************************************************************************)
(* build_inventory and compare_inventories (backend/inventory.py): the     *)
(* rows the tools stored become assets, relations and findings, every      *)
(* asset is scored, and two snapshots are compared.                        *)
(*                                                                         *)
(* The rows come in the order of their results' random identifiers, so one *)
(* action takes any row that is left.  A row has every field the function  *)
(* looks at, None where it is absent; what a row has at most one of is a   *)
(* set of at most one asset.  Timestamps, evidence hashes and the spelling *)
(* of a value, which identifiers ignore, are left out.                     *)
(***************************************************************************)
EXTENDS Optional, Integers, Sequences, FiniteSets

CONSTANTS
  Roots,      \* the program's in-scope names, canonical
  Canonical,  \* canonical host name, or None, of every spelling in a row
  Batches,    \* the sets of rows the tools of one assessment may store
  MaxBuilds   \* bound: assessments of the program

VARIABLES
  left,       \* rows of this build that are still to be normalised
  build,      \* the dictionaries that the last call of build_inventory fills
  sources,    \* the rows each snapshot was built from, the newest last
  snapshots   \* the snapshots, the newest last

inventoryVars == <<left, build, sources, snapshots>>

-----------------------------------------------------------------------------
(* The assets of one row.                                                  *)

\* Mutant: like an observation's, the identity has the scan in it.
StableIdInScan(type, name) == <<type, name, Len(snapshots)>>

\* _stable_id of an asset: nothing of the scan is part of it.
StableId(type, name) == <<type, name>>

\* _canonical_host: what has no canonical name is no host.
CanonicalHost(raw) == IF raw = None THEN None ELSE Canonical[raw]

Hostnames(raws) == {StableId("hostname", h) : h \in {CanonicalHost(r) : r \in raws} \ {None}}

DefaultState ==
  [subdomain |-> "discovered", dns |-> "dns_observed", http |-> "http_observed",
   port |-> "tcp_observed", url |-> "url_observed", tech |-> "technology_observed",
   vuln |-> "finding_observed"]

StateOf(row) ==
  IF row.state # None THEN row.state
  ELSE IF row.category \in DOMAIN DefaultState THEN DefaultState[row.category]
  ELSE "observed"

Host(row) == Hostnames({row.host})

Ip(row) == {StableId("ip_address", i) : i \in Opt(row.ip)}

Url(row) == {StableId("url", u) : u \in Opt(row.url)}

UrlHost(row) == Hostnames({u.host : u \in Opt(row.url)})

\* host_asset after the URL: the row's own host comes first.
HostOrUrlHost(row) == IF Host(row) # {} THEN Host(row) ELSE UrlHost(row)

Service(row) ==
  {StableId("service", <<h[2], row.port>>) :
     h \in {h \in HostOrUrlHost(row) : row.port \in 1 .. 65535}}

Endpoint(row) == {StableId("endpoint", e) : e \in Opt(row.endpoint)}

EndpointHost(row) == Hostnames({e.host : e \in Opt(row.endpoint)})

\* host_asset after the endpoint.
AnyHost(row) == IF HostOrUrlHost(row) # {} THEN HostOrUrlHost(row) ELSE EndpointHost(row)

Parameters(row) ==
  {StableId("parameter", <<e[2], p>>) : e \in Endpoint(row), p \in row.params}

Technologies(row) ==
  {StableId("technology", t) : t \in {t \in row.tech : AnyHost(row) # {}}}

Email(row) ==
  {StableId("email", e) : e \in {e \in Opt(row.email) : row.category = "email"}}

\* Mutant: a result may be about a domain that was never in the scope list.
RootOfAnyDomain(row) == {StableId("domain", r) : r \in Opt(CanonicalHost(row.domain))}

\* root_assets.get.
Root(row) == {StableId("domain", r) : r \in Roots \cap {CanonicalHost(row.domain)}}

\* upsert_asset, for every asset the row mentions and every host it names.
Mentions(row) ==
  LET upsert(assets, state) == {[asset |-> a, tool |-> row.tool, state |-> state] : a \in assets}
  IN  upsert(Host(row) \cup Url(row) \cup UrlHost(row) \cup Service(row), StateOf(row))
      \cup upsert(Endpoint(row) \cup EndpointHost(row) \cup Email(row), StateOf(row))
      \cup upsert(Ip(row), "ip_observed")
      \cup upsert(Parameters(row), "parameter_observed")
      \cup upsert(Technologies(row), "detected")

\* relate.  A root is a domain and a host a hostname, so the two never have
\* one identity and a root contains the hostname of its own name.
Relations(row) ==
  LET relate(from, type, to) ==
        {[source |-> s, target |-> t, type |-> type] : s \in from, t \in to}
  IN  relate(Root(row), "contains_hostname", Host(row))
      \cup relate(Host(row), "resolves_to", Ip(row))
      \cup relate(Url(row), "served_by", UrlHost(row))
      \cup relate(Service(row), "runs_on", HostOrUrlHost(row))
      \cup relate(Endpoint(row), "served_by", EndpointHost(row))
      \cup relate(Url(row), "instance_of", Endpoint(row))
      \cup relate(Endpoint(row), "accepts_parameter", Parameters(row))
      \cup relate(AnyHost(row), "uses_technology", Technologies(row))
      \cup relate(Root(row), "has_email_contact", Email(row))

\* The asset a finding is about: the most specific one the row has.
Affected(candidates) ==
  LET present == {i \in DOMAIN candidates : candidates[i] # {}}
  IN  IF present = {} THEN {}
      ELSE candidates[CHOOSE i \in present : \A j \in present : i <= j]

Finding(asset, row, identity) ==
  [id |-> StableId("finding", <<asset, row.tool, identity>>), asset |-> asset, data |-> row]

FindingsOf(row) ==
  {Finding(a, row, cve) :
     a \in Affected(<<Service(row), AnyHost(row), Root(row)>>), cve \in row.vulnerabilities}
  \cup {Finding(a, row, row.identity) :
     a \in {a \in Affected(<<Url(row), Endpoint(row), AnyHost(row), Root(row)>>) :
              row.category \in {"vuln", "wordpress"}}}

-----------------------------------------------------------------------------
(* The build.                                                              *)

\* The roots are there before the first row.
EmptyBuild ==
  [mentions |-> {[asset |-> StableId("domain", r), tool |-> "scope", state |-> "authorized"] :
                   r \in Roots},
   relations |-> {}, details |-> <<>>, findings |-> <<>>]

\* A dictionary after some of its keys are written.
Written(dict, new) ==
  [k \in DOMAIN dict \cup DOMAIN new |-> IF k \in DOMAIN new THEN new[k] ELSE dict[k]]

\* One row of the loop.  Details and findings are dictionaries that the last
\* row to write them wins; an empty detail writes nothing.
Normalise(b, row) ==
  [mentions |-> b.mentions \cup Mentions(row),
   relations |-> b.relations \cup Relations(row),
   details |-> Written(b.details,
     [a \in {a \in Service(row) \cup Endpoint(row) \cup Email(row) : row.detail # None} |->
        row.detail]),
   findings |-> Written(b.findings,
     [id \in {f.id : f \in FindingsOf(row)} |-> CHOOSE f \in FindingsOf(row) : f.id = id])]

States(b, a) == {m.state : m \in {m \in b.mentions : m.asset = a}}

ToolsOf(b, a) == {m.tool : m \in {m \in b.mentions : m.asset = a}}

\* States that count as an active validation.
Validated == {"dns_observed", "http_responding", "tcp_observed"}

Related(b, a) == \E r \in b.relations : a \in {r.source, r.target}

\* Mutant: every source counts, however many there are.
ScoreOfAllSources(b, a) ==
  IF "authorized" \in States(b, a) THEN 100
  ELSE 15 * Cardinality(ToolsOf(b, a))
       + (IF States(b, a) \cap Validated # {} THEN 30 ELSE 0)
       + (IF Related(b, a) THEN 15 ELSE 0)

Score(b, a) ==
  LET seen == 15 * Cardinality(ToolsOf(b, a))
  IN  IF "authorized" \in States(b, a) THEN 100
      ELSE (IF seen < 45 THEN seen ELSE 45)
           + (IF States(b, a) \cap Validated # {} THEN 30 ELSE 0)
           + (IF Related(b, a) THEN 15 ELSE 0)

Ownership(score) ==
  IF score >= 75 THEN "confirmed" ELSE IF score >= 45 THEN "probable" ELSE "unverified"

\* An asset of the snapshot: what compare_inventories looks at.
AssetOf(b, a) ==
  [states |-> States(b, a),
   detail |-> IF a \in DOMAIN b.details THEN b.details[a] ELSE None,
   evidence |-> IF "authorized" \in States(b, a) THEN <<>>
                ELSE <<Cardinality(ToolsOf(b, a)), States(b, a) \cap Validated # {}, Related(b, a)>>,
   score |-> Score(b, a),
   owner |-> Ownership(Score(b, a))]

SnapshotOf(b) ==
  [assets |-> [a \in {m.asset : m \in b.mentions} |-> AssetOf(b, a)],
   relations |-> b.relations,
   findings |-> b.findings]

\* compare_inventories.
Delta(current, previous) ==
  LET is == DOMAIN current.assets
      was == DOMAIN previous.assets
  IN  [added |-> is \ was,
       removed |-> was \ is,
       changed |-> {a \in is \cap was : current.assets[a] # previous.assets[a]},
       new |-> DOMAIN current.findings \ DOMAIN previous.findings,
       resolved |-> DOMAIN previous.findings \ DOMAIN current.findings]

-----------------------------------------------------------------------------
(* The steps.                                                              *)

\* build_inventory is at work on the newest rows.
Building == Len(sources) > Len(snapshots)

InventoryInit ==
  /\ left = {}
  /\ sources = <<>>
  /\ snapshots = <<>>
  /\ build = EmptyBuild

\* run_scan lists the results of one assessment.
StartBuild ==
  /\ ~Building
  /\ Len(snapshots) < MaxBuilds
  /\ \E rows \in Batches : left' = rows /\ sources' = Append(sources, rows)
  /\ build' = EmptyBuild
  /\ UNCHANGED snapshots

NormaliseRow ==
  /\ \E row \in left :
       /\ build' = Normalise(build, row)
       /\ left' = left \ {row}
  /\ UNCHANGED <<sources, snapshots>>

TakeSnapshot ==
  /\ Building
  /\ left = {}
  /\ snapshots' = Append(snapshots, SnapshotOf(build))
  /\ UNCHANGED <<left, build, sources>>

InventoryNext == StartBuild \/ NormaliseRow \/ TakeSnapshot

InventorySpec == InventoryInit /\ [][InventoryNext]_inventoryVars

-----------------------------------------------------------------------------
(* Correctness.                                                            *)

\* Every reference of a snapshot, from a relation or a finding, is to one of
\* its assets: the portfolio looks both up by identifier.
SnapshotIsClosed ==
  \A i \in DOMAIN snapshots :
    LET known == DOMAIN snapshots[i].assets
    IN  /\ \A r \in snapshots[i].relations : {r.source, r.target} \subseteq known
        /\ \A id \in DOMAIN snapshots[i].findings : snapshots[i].findings[id].asset \in known

\* An asset outside the scope list is "confirmed" only if some tool validated
\* it actively, however many tools merely mention it and however it is related.
ConfirmedWasValidated ==
  \A i \in DOMAIN snapshots : \A a \in DOMAIN snapshots[i].assets :
    LET asset == snapshots[i].assets[a]
    IN  asset.owner = "confirmed" => asset.states \cap (Validated \cup {"authorized"}) # {}

\* An assessment that stores the rows of the one before has nothing new,
\* nothing removed and nothing resolved, in whatever orders the rows came; only
\* details, which the last row wins, may count as changed.
RepeatIsQuiet ==
  \A i \in DOMAIN snapshots \ {1} :
    sources[i] = sources[i - 1] =>
      LET d == Delta(snapshots[i], snapshots[i - 1])
      IN  /\ d.added \cup d.removed \cup d.new \cup d.resolved = {}
          /\ \A a \in d.changed :
               snapshots[i].assets[a].detail # snapshots[i - 1].assets[a].detail
=============================================================================
