------------------------------ MODULE Handoffs ------------------------------
(***************************************************************************)
(* The tools of one assessment and the files they hand to one another in   *)
(* the workspace of one root domain: the adapters under tools/, what they  *)
(* share (tools/base.py), the hand-off files that the engine writes        *)
(* between two phases (scan_engine.py) and the hosts that may be sent      *)
(* credentials (request_config.py).                                        *)
(*                                                                         *)
(* A host stands for the rows, lines and URLs that are about it.  What is  *)
(* kept of a file is the hosts in it, when tools take their targets from   *)
(* it, and else its name.  Errors, cancellation and progress are those of  *)
(* ScanEngine.                                                             *)
(***************************************************************************)
EXTENDS Integers, FiniteSets

CONSTANTS
  Apex,        \* the root domain
  InDomain,    \* it and its subdomains
  Elsewhere,   \* hosts that tools come across all the same
  Addresses,   \* those that are addresses of others
  Excluded,    \* hosts that an out-of-scope pattern matches
  Answering,   \* hosts whose URLs answer ...
  Gone,        \* ... or answer with 404 or 410; the others stay silent
  Allowed,     \* hosts that credential_hosts covers
  Selections,  \* the sets of tools that assessments select
  Finds        \* bound: what a tool may come up with

Hosts == InDomain \cup Elsewhere

ASSUME HandoffsAssumption ==
  /\ Apex \in InDomain
  /\ Addresses \subseteq Elsewhere
  /\ Excluded \cup Answering \cup Gone \cup Allowed \subseteq Hosts
  /\ Answering \cap Gone = {}
  /\ Finds \subseteq SUBSET Hosts

VARIABLES
  selected,    \* the assessment's tools
  copied,      \* whether it reuses an earlier one's results and files
  phaseNow,    \* index of the phase, 0 before the first
  toolState,   \* waiting, running, done, reused or skipped
  files,       \* hosts in each file that tools take targets from
  targets,     \* hosts each tool was pointed at
  authed,      \* hosts that requests with credential headers were made for
  strayed,     \* others that such requests ended up at
  discovered,  \* URLs each tool had before their validation
  rowHosts     \* hosts each tool's stored rows are about

handoffVars ==
  <<selected, copied, phaseNow, toolState, files, targets, authed, strayed, discovered, rowHosts>>

-----------------------------------------------------------------------------
(* The adapters.  root: whether the root domain is a target of its own.    *)
(* asks: whether requests go to the targets.  headers: credentials go to   *)
(* all targets or none, to each that is allowed, or to none.  finds: what  *)
(* rows may be about.  validates: found URLs are probed.  internal: there  *)
(* is no binary or key that may be missing.  leads: where a request may    *)
(* end up, anywhere by a redirect or a crawled link, or at the address of  *)
(* the host, asked directly in its name.                                   *)

Adapter(reads, writes) ==
  [reads |-> reads, writes |-> writes, root |-> "never", asks |-> FALSE, headers |-> "none",
   finds |-> "nothing", validates |-> FALSE, internal |-> FALSE, leads |-> "nowhere"]

\* Asks some third party about the root domain.
Lookup(writes, finds) == [Adapter({}, writes) EXCEPT !.root = "always", !.finds = finds]

\* Sends requests to the hosts of a file and reports about those.  Redirects are
\* followed, on request (allow_redirects, -follow-redirects) or by the binary's
\* own lights, and katana crawls.
Probe(reads, writes, headers) ==
  [Adapter(reads, writes) EXCEPT
     !.asks = TRUE, !.headers = headers, !.finds = "targets", !.leads = "anywhere"]

\* Asks an archive for the URLs of every subdomain (_target_hosts).
Archive(writes) ==
  [Adapter({"subdomains_merged"}, writes) EXCEPT
     !.root = "always", !.finds = "anything", !.validates = TRUE]

Whois == Lookup({"whois"}, "root")
Asnmap == Lookup({"asn_ranges"}, "nothing")
Shodan == Lookup({"shodan_results"}, "domain")
EmailFinder == Lookup({"hunter_emails"}, "root")

CrtSh == [Lookup({}, "domain") EXCEPT !.internal = TRUE]
Assetfinder == Lookup({}, "domain")
Subfinder == Lookup({"subfinder"}, "domain")
Amass == Lookup({"amass"}, "domain")
ShuffleDNS == Lookup({"shuffledns"}, "domain")

Dnsx == [Adapter({"subdomains_merged"}, {"dnsx"}) EXCEPT !.finds = "targets"]
DnsRecords == Lookup({"dns_records"}, "root")
ZoneTransfer == Lookup({"zone_transfer"}, "root")

Httpx == Probe({"probe_candidates"}, {"httpx"}, "all")
Tlsx == Probe({"probe_candidates"}, {"tlsx"}, "none")
Naabu == Probe({"probe_candidates"}, {"naabu"}, "none")

WaybackUrls == Archive({"waybackurls"})
Gau == Archive({"gau"})
UrlFinder == Archive({"urlfinder"})
Katana ==
  [Probe({"alive_urls"}, {"katana"}, "all") EXCEPT !.finds = "anything", !.validates = TRUE]
Ffuf == Probe({"alive_urls"}, {"ffuf_results"}, "each")
\* The addresses httpx saw; the names that it guesses are of the root domain.
Vhost == [Probe({"httpx"}, {"vhost_results"}, "none") EXCEPT !.finds = "domain"]

ApiSpec ==
  [Probe({"alive_urls"}, {"api_spec", "api_endpoints"}, "each") EXCEPT !.internal = TRUE]
ParamMiner ==
  [Adapter({"katana", "gau", "waybackurls", "urlfinder", "alive_urls"},
           {"params", "urls_deduped", "param_names", "param_miner"}) EXCEPT
     !.finds = "targets", !.internal = TRUE]

GoogleDorks ==
  [Adapter({"subdomains_merged"}, {"google_dorks"}) EXCEPT
     !.root = "otherwise", !.finds = "anything", !.internal = TRUE]
Nuclei == Probe({"alive_urls"}, {"nuclei_results"}, "all")
NucleiDast == Probe({"params"}, {"nuclei_dast"}, "all")
CveCheck == Probe({"alive_urls"}, {"cve_results"}, "all")
SubdomainTakeover ==
  [Probe({"subdomains_merged", "alive_subdomains"}, {"takeover_nuclei"}, "none") EXCEPT
     !.root = "otherwise"]
Wpscan == Probe({"alive_urls", "httpx", "whatweb"}, {"wpscan"}, "each")
Gowitness ==
  [Probe({"alive_urls"}, {"screenshots"}, "none") EXCEPT !.finds = "nothing"]
Whatweb == Probe({"alive_urls"}, {"whatweb"}, "all")
Wafw00f == Probe({"alive_urls"}, {"wafw00f_results"}, "each")
\* The row is about where redirects ended.
SecretExposure ==
  [Probe({"alive_urls", "katana", "urls_deduped", "gau", "waybackurls", "urlfinder"},
         {"secret_exposure"}, "each") EXCEPT !.finds = "anything", !.internal = TRUE]
WebPosture ==
  [Probe({"alive_urls"}, {"web_posture"}, "each") EXCEPT
     !.finds = "anything", !.internal = TRUE]
OriginExposure ==
  [Probe({"httpx"}, {"origin_exposure"}, "each") EXCEPT !.internal = TRUE, !.leads = "address"]

\* _build_context: every artifact it samples, and the screenshots.
ArtifactSources ==
  {"params", "param_names", "param_miner", "api_endpoints", "api_spec", "nuclei_results",
   "nuclei_dast", "cve_results", "secret_exposure", "web_posture", "takeover_nuclei",
   "origin_exposure", "wpscan", "vhost_results", "alive_urls", "httpx", "whatweb", "tlsx",
   "naabu", "subdomains_merged", "dnsx", "urls_deduped", "katana", "google_dorks", "gau",
   "waybackurls", "urlfinder", "screenshots"}

AIAnalysis == [Adapter(ArtifactSources, {"ai_analysis"}) EXCEPT !.finds = "root"]

\* REGISTRY.
Registry ==
  [whois |-> Whois, asnmap |-> Asnmap, shodan |-> Shodan, email_finder |-> EmailFinder,
   crtsh |-> CrtSh, assetfinder |-> Assetfinder, subfinder |-> Subfinder, amass |-> Amass,
   shuffledns |-> ShuffleDNS, dnsx |-> Dnsx, dns_records |-> DnsRecords,
   zone_transfer |-> ZoneTransfer, httpx |-> Httpx, tlsx |-> Tlsx, naabu |-> Naabu,
   waybackurls |-> WaybackUrls, gau |-> Gau, katana |-> Katana, urlfinder |-> UrlFinder,
   ffuf |-> Ffuf, vhost |-> Vhost, api_spec |-> ApiSpec, param_miner |-> ParamMiner,
   google_dorks |-> GoogleDorks, nuclei |-> Nuclei, nuclei_dast |-> NucleiDast,
   cve_check |-> CveCheck, subdomain_takeover |-> SubdomainTakeover, wpscan |-> Wpscan,
   gowitness |-> Gowitness, whatweb |-> Whatweb, wafw00f |-> Wafw00f,
   secret_exposure |-> SecretExposure, web_posture |-> WebPosture,
   origin_exposure |-> OriginExposure, ai_analysis |-> AIAnalysis]

ASSUME SelectionsAssumption == Selections \subseteq SUBSET DOMAIN Registry

\* Mutant: parameters are analysed while URLs are discovered.
PhasesMerged ==
  << {"whois", "asnmap", "shodan", "email_finder"},
     {"crtsh", "assetfinder", "subfinder", "amass", "shuffledns"},
     {"dnsx", "dns_records", "zone_transfer"},
     {"httpx", "tlsx", "naabu"},
     {"waybackurls", "gau", "katana", "urlfinder", "ffuf", "vhost", "api_spec", "param_miner"},
     {},
     {"google_dorks", "nuclei", "nuclei_dast", "cve_check", "subdomain_takeover", "wpscan",
      "gowitness", "whatweb", "wafw00f", "secret_exposure", "web_posture", "origin_exposure",
      "ai_analysis"} >>

\* PHASES.
Phases ==
  << {"whois", "asnmap", "shodan", "email_finder"},
     {"crtsh", "assetfinder", "subfinder", "amass", "shuffledns"},
     {"dnsx", "dns_records", "zone_transfer"},
     {"httpx", "tlsx", "naabu"},
     {"waybackurls", "gau", "katana", "urlfinder", "ffuf", "vhost"},
     {"api_spec", "param_miner"},
     {"google_dorks", "nuclei", "nuclei_dast", "cve_check", "subdomain_takeover", "wpscan",
      "gowitness", "whatweb", "wafw00f", "secret_exposure", "web_posture", "origin_exposure",
      "ai_analysis"} >>

\* SUBDOMAIN_FILES, of which the tools write three.
SubdomainFiles == {"subfinder", "amass", "shuffledns"}

\* The files that the engine writes between two phases.
Gates == {"subdomains_merged", "alive_subdomains", "probe_candidates", "alive_urls"}

\* The files that some tool or gate takes hosts from.
HostFiles ==
  Gates \cup SubdomainFiles \cup
  {"dnsx", "naabu", "httpx", "whatweb", "katana", "gau", "waybackurls", "urlfinder", "params", "urls_deduped"}

-----------------------------------------------------------------------------
(* What a tool is pointed at, and what comes of it.                        *)

PhaseOf(t) == CHOOSE i \in DOMAIN Phases : t \in Phases[i]

Ended(t) == toolState[t] \in {"done", "reused", "skipped"}

\* _unique_sorted_hosts: out-of-scope patterns and other domains are dropped.
InScope(hosts) == (hosts \cap InDomain) \ Excluded

Listed(t) == UNION {files[f] : f \in Registry[t].reads \cap HostFiles}

TargetsOf(t) ==
  CASE Registry[t].root = "always" -> (Listed(t) \cap InDomain) \cup {Apex}
    [] Registry[t].root = "otherwise" /\ Listed(t) = {} -> {Apex}
    [] OTHER -> Listed(t)

\* Mutant: one allowed host lets the credentials through to the whole list.
CredentialsForAny(headers, hosts) ==
  CASE headers = "all" -> IF hosts \cap Allowed # {} THEN hosts ELSE {}
    [] headers = "each" -> hosts \cap Allowed
    [] OTHER -> {}

\* _header_args: one header set for a whole list; _headers_for_host: one host.
CredentialsFor(headers, hosts) ==
  CASE headers = "all" -> IF hosts \subseteq Allowed THEN hosts ELSE {}
    [] headers = "each" -> hosts \cap Allowed
    [] OTHER -> {}

\* Where its requests that carry credentials end up: headers are those of the
\* host that is asked for, and stay on the request wherever it goes.
LedTo(t, carried) ==
  CASE carried # {} /\ Registry[t].leads = "anywhere" -> {{}} \cup Finds
    [] carried # {} /\ Registry[t].leads = "address" -> SUBSET Addresses
    [] OTHER -> {{}}

\* What the tool's own file holds: one that writes nothing anew reports that.
OwnFile(t) == UNION {files[f] : f \in Registry[t].writes \cap HostFiles}

\* What it can come up with: without targets, nothing new.
Findable(t, pointed) ==
  {OwnFile(t)} \cup
  (IF Registry[t].finds = "targets" THEN {hosts \cap pointed : hosts \in Finds}
   ELSE IF pointed = {} THEN {{}} ELSE Finds)

Reports(t, hosts) ==
  CASE Registry[t].finds = "nothing" -> {}
    [] Registry[t].finds = "root" -> IF hosts = {} THEN {} ELSE {Apex}
    [] Registry[t].finds = "domain" -> hosts \cap InDomain
    [] Registry[t].finds \in {"targets", "anything"} -> hosts

\* execute: rows are filtered (_filter_oos), and a tool that raised has none;
\* files are not filtered, whatever the rows are.
RowsOf(t, hosts) == {{}, Reports(t, hosts) \ Excluded}

\* Mutant: silence is taken for death although the prober was cut off.
KeptByAnyProbe(urls, answered, completed) ==
  IF answered = {} THEN urls ELSE answered \ Gone

\* _validate_urls: a prober without any answer keeps all URLs, one that was cut
\* off drops those that it saw gone, and a complete one the silent ones too.
KeptUrls(urls, answered, completed) ==
  IF answered = {} THEN urls
  ELSE {u \in urls : u \notin answered \cap Gone /\ (completed => u \in answered)}

\* Its outcomes: there is no prober, it was cut off, or it completed.
Validations(t, urls) ==
  LET answers == urls \cap (Answering \cup Gone)
      cutOff == {[kept |-> KeptUrls(urls, a, FALSE), probed |-> urls] : a \in SUBSET answers}
      whole == {[kept |-> KeptUrls(urls, answers, TRUE), probed |-> urls]}
      unprobed == {[kept |-> urls, probed |-> {}]}
  IN  IF Registry[t].validates THEN unprobed \cup cutOff \cup whole ELSE unprobed

-----------------------------------------------------------------------------
(* The phases of run_scan for one root domain.                             *)

\* What an earlier assessment of the same scope may have left behind.
EarlierFiles ==
  [f \in HostFiles |-> IF f \in Gates \cup {"dnsx", "naabu", "httpx", "whatweb"} THEN InScope(Hosts) ELSE Hosts]

NoFiles == [f \in HostFiles |-> {}]

HandoffsInit ==
  /\ selected = {}
  /\ copied = FALSE
  /\ phaseNow = 0
  /\ toolState = [t \in selected |-> "waiting"]
  /\ files = NoFiles
  /\ targets = [t \in selected |-> {}]
  /\ authed = {}
  /\ strayed = {}
  /\ discovered = [t \in selected |-> {}]
  /\ rowHosts = [t \in selected |-> {}]

\* A resumed assessment copies the workspace of the last one.
ChooseTools ==
  /\ phaseNow = 0
  /\ phaseNow' = 1
  /\ selected' \in Selections
  /\ copied' \in BOOLEAN
  /\ files' = IF copied' THEN EarlierFiles ELSE NoFiles
  /\ toolState' = [t \in selected' |-> "waiting"]
  /\ targets' = [t \in selected' |-> {}]
  /\ discovered' = [t \in selected' |-> {}]
  /\ rowHosts' = [t \in selected' |-> {}]
  /\ UNCHANGED <<authed, strayed>>

\* _run_phase: the tools of a phase run side by side, ai_analysis after them.
Due(t) ==
  /\ phaseNow = PhaseOf(t)
  /\ toolState[t] = "waiting"
  /\ t = "ai_analysis" => \A w \in (selected \cap Phases[7]) \ {t} : Ended(w)

\* _run_tool: an earlier result comes before the question of availability, and
\* screenshots are taken anew.
ReuseTool(t) ==
  /\ Due(t)
  /\ copied
  /\ t # "gowitness"
  /\ toolState' = [toolState EXCEPT ![t] = "reused"]
  /\ \E found \in Findable(t, InScope(TargetsOf(t))) : \E rows \in RowsOf(t, found) :
       rowHosts' = [rowHosts EXCEPT ![t] = rows]
  /\ UNCHANGED <<selected, copied, phaseNow, files, targets, authed, strayed, discovered>>

\* availability_error: a binary or a key is missing.
SkipTool(t) ==
  /\ Due(t)
  /\ ~Registry[t].internal
  /\ toolState' = [toolState EXCEPT ![t] = "skipped"]
  /\ UNCHANGED <<selected, copied, phaseNow, files, targets, authed, strayed, discovered, rowHosts>>

\* run: the target list is read, and the requests go out with their headers.
StartTool(t) ==
  LET asked == IF Registry[t].asks THEN TargetsOf(t) ELSE {}
      carried == CredentialsFor(Registry[t].headers, asked)
  IN  /\ Due(t)
      /\ toolState' = [toolState EXCEPT ![t] = "running"]
      /\ targets' = [targets EXCEPT ![t] = TargetsOf(t)]
      /\ authed' = authed \cup carried
      /\ \E further \in LedTo(t, carried) : strayed' = strayed \cup further
      /\ UNCHANGED <<selected, copied, phaseNow, files, discovered, rowHosts>>

\* The rest of run, its validation with it, then parse.
EndTool(t) ==
  /\ toolState[t] = "running"
  /\ toolState' = [toolState EXCEPT ![t] = "done"]
  /\ \E found \in Findable(t, targets[t]) : \E result \in Validations(t, found) :
       /\ discovered' = [discovered EXCEPT ![t] = found]
       /\ authed' = authed \cup CredentialsFor("all", result.probed)
       /\ files' = [f \in HostFiles |->
            IF f \in Registry[t].writes THEN result.kept ELSE files[f]]
       /\ \E rows \in RowsOf(t, result.kept) :
            rowHosts' = [rowHosts EXCEPT ![t] = rows]
  /\ UNCHANGED <<selected, copied, phaseNow, targets, strayed>>

RowsAbout(tools) == UNION {rowHosts[t] : t \in tools \cap selected}

\* Mutant: out-of-scope patterns are left to the tools' rows.
MergedByDomain ==
  InDomain \cap (RowsAbout(Phases[2]) \cup UNION {files[f] : f \in SubdomainFiles})

\* _write_merged_subdomains, from the rows and, copied ones included, the files.
MergedSubdomains ==
  InScope(RowsAbout(Phases[2]) \cup UNION {files[f] : f \in SubdomainFiles})

\* _write_alive_subdomains: what dnsx resolved ...
ResolvedHosts == InScope(RowsAbout({"dnsx"}))

\* ... and what is probed: failing that, every subdomain.
ProbeCandidates ==
  IF ResolvedHosts = {} THEN InScope(files["subdomains_merged"]) ELSE ResolvedHosts

\* _write_alive_urls: URLs of httpx, and those of the ports naabu saw open.
AliveUrls == {(RowsAbout({"httpx"}) \cup ported) \ Excluded : ported \in SUBSET RowsAbout({"naabu"})}

\* The files that stand at the end of a phase before the next may start.
HandedOff ==
  CASE phaseNow = 2 -> {[files EXCEPT !["subdomains_merged"] = MergedSubdomains]}
    [] phaseNow = 3 -> {[files EXCEPT !["alive_subdomains"] = ResolvedHosts,
                                      !["probe_candidates"] = ProbeCandidates]}
    [] phaseNow = 4 -> {[files EXCEPT !["alive_urls"] = urls] : urls \in AliveUrls}
    [] OTHER -> {files}

NextPhase ==
  /\ phaseNow \in DOMAIN Phases
  /\ \A t \in selected \cap Phases[phaseNow] : Ended(t)
  /\ phaseNow' = phaseNow + 1
  /\ files' \in HandedOff
  /\ UNCHANGED <<selected, copied, toolState, targets, authed, strayed, discovered, rowHosts>>

HandoffsNext ==
  \/ ChooseTools
  \/ \E t \in selected : ReuseTool(t) \/ SkipTool(t) \/ StartTool(t) \/ EndTool(t)
  \/ NextPhase

HandoffsSpec == HandoffsInit /\ [][HandoffsNext]_handoffVars

-----------------------------------------------------------------------------
(* Correctness.                                                            *)

HandoffsTypeOK ==
  /\ selected \subseteq DOMAIN Registry
  /\ phaseNow \in 0 .. 8
  /\ toolState \in [selected -> {"waiting", "running", "done", "reused", "skipped"}]
  /\ files \in [HostFiles -> SUBSET Hosts]
  /\ {targets, discovered, rowHosts} \subseteq [selected -> SUBSET Hosts]
  /\ authed \cup strayed \subseteq Hosts

\* A tool has read the last word of every file it takes hosts or findings from:
\* whoever writes one has ended before, and no gate replaces it afterwards.
\* wpscan is the exception: it looks into the output of its sibling whatweb.
HandoffsAreSettled ==
  \A t \in selected : toolState[t] \in {"running", "done"} =>
    \/ t = "wpscan" /\ "whatweb" \in selected
    \/ /\ targets[t] = TargetsOf(t)
       /\ \A w \in selected \ {t} :
            Registry[w].writes \cap Registry[t].reads # {} => Ended(w)

\* Tools that live on the engine's hand-off files alone are pointed at hosts of
\* the root domain that no out-of-scope pattern matches.  The root domain is a
\* target of its own for some of them, whatever matches it.
HandoffInScope ==
  \A t \in selected : Registry[t].reads \subseteq Gates /\ toolState[t] = "running" =>
    targets[t] \subseteq
      InScope(Hosts) \cup (IF Registry[t].root = "never" THEN {} ELSE {Apex})

\* A URL whose host still answers survives its validation, however the prober
\* ended, so that the tools that read the file get to see it.
AliveUrlsKept ==
  \A t \in selected : Registry[t].validates /\ toolState[t] = "done" =>
    discovered[t] \cap Answering \subseteq OwnFile(t)

\* A tool that was pointed at a host with credentials, and whose requests lead on.
MayLead(t, ways) ==
  /\ toolState[t] \in {"running", "done"}
  /\ Registry[t].headers # "none" /\ Registry[t].leads \in ways
  /\ targets[t] \cap Allowed # {}

\* Requests with credential headers are made for hosts that credential_hosts
\* covers and no other, however targets are listed and whatever the validation
\* of URLs comes across.  The headers come to a further host only where a tool
\* that was pointed at a covered one follows redirects or links; with
\* origin_exposure alone, only to addresses.
CredentialsAccountedFor ==
  /\ authed \subseteq Allowed
  /\ strayed # {} => \E t \in selected : MayLead(t, {"anywhere", "address"})
  /\ strayed \subseteq Addresses \/ \E t \in selected : MayLead(t, {"anywhere"})
=============================================================================
