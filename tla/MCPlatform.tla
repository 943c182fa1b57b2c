----------------------------- MODULE MCPlatform -----------------------------
(***************************************************************************)
(* One instance of each component beside the assessment engine.  They      *)
(* share no variable, so a behaviour is one of one component, the part     *)
(* that the first state names, and the others stay as they start.          *)
(***************************************************************************)
EXTENDS TLC, Inventory, Findings, Accounts, ToolKeys, Evidence, Handoffs

CONSTANT Parts  \* the components that a run looks at

VARIABLE part

-----------------------------------------------------------------------------
(* The rows of the inventory.                                              *)

MCCanonical ==
  ("app" :> "app") @@ ("APP" :> "app") @@ ("dev" :> "dev") @@ ("root" :> "root")
  @@ ("elsewhere" :> "elsewhere") @@ ("10.0.0.1" :> None)

MCRow(tool, category, domain) ==
  [tool |-> tool, category |-> category, domain |-> domain, state |-> None, host |-> None,
   ip |-> None, url |-> None, port |-> None, endpoint |-> None, params |-> {}, tech |-> {},
   email |-> None, vulnerabilities |-> {}, identity |-> tool, detail |-> None]

MCSeenBy(tool) == [MCRow(tool, "subdomain", "root") EXCEPT !.host = "dev"]

MCWebRows ==
  { [MCRow("httpx", "http", "root") EXCEPT
       !.state = "http_responding", !.host = "APP", !.ip = "10.0.0.1", !.tech = {"nginx"},
       !.url = [host |-> "app", path |-> "/"]],
    [MCRow("naabu", "port", "root") EXCEPT
       !.state = "tcp_reachable", !.host = "app", !.port = 443, !.detail = "HTTPS"],
    [MCRow("shodan", "asset", "root") EXCEPT
       !.state = "shodan_observed", !.host = "app", !.port = 443, !.detail = "nginx",
       !.vulnerabilities = {"cve"}],
    [MCRow("nuclei", "vuln", "root") EXCEPT !.url = [host |-> "10.0.0.1", path |-> "/"]],
    [MCRow("api_spec", "url", "root") EXCEPT
       !.state = "endpoint_documented", !.endpoint = [method |-> "GET", host |-> "app", path |-> "/a"],
       !.params = {"id"}, !.detail = "documented"] }

MCDevRows ==
  {MCSeenBy(t) : t \in {"crtsh", "amass", "subfinder"}} \cup
  { [MCRow("gau", "url", "root") EXCEPT !.url = [host |-> "dev", path |-> "/"]],
    [MCRow("email_finder", "email", "elsewhere") EXCEPT !.email = "a@root"],
    [MCRow("wpscan", "wordpress", "root") EXCEPT !.port = 70000] }

MCBatches == {MCWebRows, MCDevRows}

-----------------------------------------------------------------------------
(* The hosts and the choices of tools.                                     *)

MCInDomain == {"www", "internal", "old"}

MCElsewhere == {"cdn", "address"}

MCFinds == {{}, {"www", "internal"}, MCInDomain \cup MCElsewhere}

\* Every two tools together, and the chains of three that hand on URLs.
MCSelections ==
  {{t, w} : t, w \in DOMAIN Registry} \cup
  { {"httpx", "katana", "secret_exposure"}, {"waybackurls", "param_miner", "nuclei_dast"},
    {"httpx", "whatweb", "wpscan"} }

-----------------------------------------------------------------------------
PlatformInit ==
  /\ part \in Parts
  /\ InventoryInit
  /\ FindingsInit
  /\ AccountsInit
  /\ KeysInit
  /\ EvidenceInit
  /\ HandoffsInit


PlatformNext ==
  \/ /\ part = "inventory"
     /\ InventoryNext
     /\ UNCHANGED <<findingsVars, accountsVars, keysVars, evidenceVars, handoffVars>>
  \/ /\ part = "findings"
     /\ FindingsNext
     /\ UNCHANGED <<inventoryVars, accountsVars, keysVars, evidenceVars, handoffVars>>
  \/ /\ part = "accounts"
     /\ AccountsNext
     /\ UNCHANGED <<inventoryVars, findingsVars, keysVars, evidenceVars, handoffVars>>
  \/ /\ part = "keys"
     /\ KeysNext
     /\ UNCHANGED <<inventoryVars, findingsVars, accountsVars, evidenceVars, handoffVars>>
  \/ /\ part = "evidence"
     /\ EvidenceNext
     /\ UNCHANGED <<inventoryVars, findingsVars, accountsVars, keysVars, handoffVars>>
  \/ /\ part = "handoffs"
     /\ HandoffsNext
     /\ UNCHANGED <<inventoryVars, findingsVars, accountsVars, keysVars, evidenceVars>>

platformVars ==
  <<part, inventoryVars, findingsVars, accountsVars, keysVars, evidenceVars, handoffVars>>

PlatformSpec == PlatformInit /\ [][PlatformNext /\ UNCHANGED part]_platformVars

\* The state of every component has the form its module gives it, and a
\* snapshot of the inventory refers to assets of its own only.
PlatformTypeOK ==
  /\ SnapshotIsClosed
  /\ FindingsTypeOK
  /\ AccountsTypeOK
  /\ KeysTypeOK
  /\ EvidenceTypeOK
  /\ HandoffsTypeOK
=============================================================================
