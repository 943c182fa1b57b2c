--------------------------- MODULE HandoffsProofs ---------------------------
(***************************************************************************)
(* Proofs about Handoffs, for every set of hosts, scope and choice of      *)
(* tools: where credentials go is accounted for, a live URL survives its   *)
(* validation, and tools that live on the engine's hand-off files stay in  *)
(* scope, but for the root domain itself.                                  *)
(*                                                                         *)
(* All of it rests on who writes which file, so the adapters come first.   *)
(***************************************************************************)
EXTENDS Handoffs, TLAPS

\* The tools that probe the URLs they found; each writes one file, its own.
Validators == {"waybackurls", "gau", "katana", "urlfinder"}

\* The tools that probe hosts for the engine, and the files they write.
ProbeFiles == {"httpx", "naabu"}

\* What matters of an adapter r of a tool t: only the engine writes gates, the
\* files of validators and probes have one writer, and a probe reports about
\* the candidates alone.
Fits(t, r) ==
  /\ r.writes \cap Gates = {}
  /\ r.finds \in {"nothing", "root", "domain", "targets", "anything"}
  /\ r.validates => t \in Validators /\ r.writes = {t}
  /\ \A f \in Validators \cup ProbeFiles : f \in r.writes => t = f
  /\ t \in ProbeFiles =>
       /\ r.reads = {"probe_candidates"} /\ r.writes = {t}
       /\ r.root = "never" /\ r.finds = "targets" /\ ~r.validates

LEMMA PassiveAdapters ==
  /\ Fits("whois", Whois)
  /\ Fits("asnmap", Asnmap)
  /\ Fits("shodan", Shodan)
  /\ Fits("email_finder", EmailFinder)
  BY DEF Fits, Gates, Validators, ProbeFiles, Adapter, Lookup, Probe, Archive,
         Whois, Asnmap, Shodan, EmailFinder

LEMMA SubdomainAdapters ==
  /\ Fits("crtsh", CrtSh)
  /\ Fits("assetfinder", Assetfinder)
  /\ Fits("subfinder", Subfinder)
  /\ Fits("amass", Amass)
  /\ Fits("shuffledns", ShuffleDNS)
  /\ Fits("dnsx", Dnsx)
  /\ Fits("dns_records", DnsRecords)
  /\ Fits("zone_transfer", ZoneTransfer)
  BY DEF Fits, Gates, Validators, ProbeFiles, Adapter, Lookup, Probe, Archive,
         CrtSh, Assetfinder, Subfinder, Amass, ShuffleDNS, Dnsx, DnsRecords, ZoneTransfer

LEMMA ProbingAdapters ==
  /\ Fits("httpx", Httpx)
  /\ Fits("tlsx", Tlsx)
  /\ Fits("naabu", Naabu)
  BY DEF Fits, Gates, Validators, ProbeFiles, Adapter, Lookup, Probe, Archive,
         Httpx, Tlsx, Naabu

LEMMA UrlDiscoveryAdapters ==
  /\ Fits("waybackurls", WaybackUrls)
  /\ Fits("gau", Gau)
  /\ Fits("katana", Katana)
  /\ Fits("urlfinder", UrlFinder)
  /\ Fits("ffuf", Ffuf)
  /\ Fits("vhost", Vhost)
  BY DEF Fits, Gates, Validators, ProbeFiles, Adapter, Lookup, Probe, Archive,
         WaybackUrls, Gau, Katana, UrlFinder, Ffuf, Vhost

LEMMA EndpointAnalysisAdapters ==
  /\ Fits("api_spec", ApiSpec)
  /\ Fits("param_miner", ParamMiner)
  BY DEF Fits, Gates, Validators, ProbeFiles, Adapter, Lookup, Probe, Archive,
         ApiSpec, ParamMiner

LEMMA AnalysisAdapters ==
  /\ Fits("google_dorks", GoogleDorks)
  /\ Fits("nuclei", Nuclei)
  /\ Fits("nuclei_dast", NucleiDast)
  /\ Fits("cve_check", CveCheck)
  /\ Fits("subdomain_takeover", SubdomainTakeover)
  /\ Fits("wpscan", Wpscan)
  /\ Fits("gowitness", Gowitness)
  /\ Fits("whatweb", Whatweb)
  /\ Fits("wafw00f", Wafw00f)
  /\ Fits("secret_exposure", SecretExposure)
  /\ Fits("web_posture", WebPosture)
  /\ Fits("origin_exposure", OriginExposure)
  /\ Fits("ai_analysis", AIAnalysis)
  BY DEF Fits, Gates, Validators, ProbeFiles, Adapter, Lookup, Probe, Archive,
         GoogleDorks, Nuclei, NucleiDast, CveCheck, SubdomainTakeover, Wpscan, Gowitness,
         Whatweb, Wafw00f, SecretExposure, WebPosture, OriginExposure, AIAnalysis

\* The tools by name.
LEMMA RegistryTools ==
  /\ DOMAIN Registry =
       {"whois", "asnmap", "shodan", "email_finder", "crtsh", "assetfinder", "subfinder",
        "amass", "shuffledns", "dnsx", "dns_records", "zone_transfer", "httpx", "tlsx",
        "naabu", "waybackurls", "gau", "katana", "urlfinder", "ffuf", "vhost",
        "api_spec", "param_miner", "google_dorks", "nuclei", "nuclei_dast", "cve_check",
        "subdomain_takeover", "wpscan", "gowitness", "whatweb", "wafw00f",
        "secret_exposure", "web_posture", "origin_exposure", "ai_analysis"}
  /\ Registry["whois"] = Whois
  /\ Registry["asnmap"] = Asnmap
  /\ Registry["shodan"] = Shodan
  /\ Registry["email_finder"] = EmailFinder
  /\ Registry["crtsh"] = CrtSh
  /\ Registry["assetfinder"] = Assetfinder
  /\ Registry["subfinder"] = Subfinder
  /\ Registry["amass"] = Amass
  /\ Registry["shuffledns"] = ShuffleDNS
  /\ Registry["dnsx"] = Dnsx
  /\ Registry["dns_records"] = DnsRecords
  /\ Registry["zone_transfer"] = ZoneTransfer
  /\ Registry["httpx"] = Httpx
  /\ Registry["tlsx"] = Tlsx
  /\ Registry["naabu"] = Naabu
  /\ Registry["waybackurls"] = WaybackUrls
  /\ Registry["gau"] = Gau
  /\ Registry["katana"] = Katana
  /\ Registry["urlfinder"] = UrlFinder
  /\ Registry["ffuf"] = Ffuf
  /\ Registry["vhost"] = Vhost
  /\ Registry["api_spec"] = ApiSpec
  /\ Registry["param_miner"] = ParamMiner
  /\ Registry["google_dorks"] = GoogleDorks
  /\ Registry["nuclei"] = Nuclei
  /\ Registry["nuclei_dast"] = NucleiDast
  /\ Registry["cve_check"] = CveCheck
  /\ Registry["subdomain_takeover"] = SubdomainTakeover
  /\ Registry["wpscan"] = Wpscan
  /\ Registry["gowitness"] = Gowitness
  /\ Registry["whatweb"] = Whatweb
  /\ Registry["wafw00f"] = Wafw00f
  /\ Registry["secret_exposure"] = SecretExposure
  /\ Registry["web_posture"] = WebPosture
  /\ Registry["origin_exposure"] = OriginExposure
  /\ Registry["ai_analysis"] = AIAnalysis
  BY DEF Registry

LEMMA AdaptersFit ==
  ASSUME NEW t \in DOMAIN Registry
  PROVE  Fits(t, Registry[t])
  BY RegistryTools, PassiveAdapters, SubdomainAdapters, ProbingAdapters, UrlDiscoveryAdapters,
     EndpointAnalysisAdapters, AnalysisAdapters

-----------------------------------------------------------------------------
(* Types.                                                                  *)

Types ==
  /\ selected \in SUBSET DOMAIN Registry
  /\ phaseNow \in 0 .. 8
  /\ phaseNow = 0 => selected = {}
  /\ toolState \in [selected -> {"waiting", "running", "done", "reused", "skipped"}]
  /\ files \in [HostFiles -> SUBSET Hosts]
  /\ targets \in [selected -> SUBSET Hosts]
  /\ discovered \in [selected -> SUBSET Hosts]
  /\ rowHosts \in [selected -> SUBSET Hosts]

LEMMA TargetsType ==
  ASSUME Types, NEW t \in selected
  PROVE  TargetsOf(t) \in SUBSET Hosts
<1>1. Listed(t) \in SUBSET Hosts
  BY DEF Types, Listed
<1> QED
  BY <1>1, HandoffsAssumption DEF TargetsOf, Hosts

LEMMA FindableType ==
  ASSUME Types, NEW t \in selected, NEW pointed \in SUBSET Hosts, NEW found \in Findable(t, pointed)
  PROVE  found \in SUBSET Hosts
<1>1. OwnFile(t) \in SUBSET Hosts
  BY DEF Types, OwnFile
<1> QED
  BY <1>1, HandoffsAssumption DEF Findable

LEMMA ReportsType ==
  ASSUME Types, NEW t \in selected, NEW hosts \in SUBSET Hosts, NEW rows \in RowsOf(t, hosts)
  PROVE  rows \in SUBSET Hosts
<1>1. Registry[t].finds \in {"nothing", "root", "domain", "targets", "anything"}
  BY AdaptersFit DEF Types, Fits
<1>2. Reports(t, hosts) \in SUBSET Hosts
  BY <1>1, HandoffsAssumption DEF Reports, Hosts
<1> QED
  BY <1>2 DEF RowsOf

\* Validation drops URLs and adds none, and keeps those that answer.
LEMMA ValidationKeeps ==
  ASSUME NEW t, NEW urls, NEW result \in Validations(t, urls)
  PROVE  /\ result.kept \subseteq urls
         /\ urls \cap Answering \subseteq result.kept
         /\ ~Registry[t].validates => result.kept = urls
<1> DEFINE answers == urls \cap (Answering \cup Gone)
<1>1. ASSUME NEW a \in SUBSET answers
      PROVE  /\ KeptUrls(urls, a, FALSE) \subseteq urls
             /\ urls \cap Answering \subseteq KeptUrls(urls, a, FALSE)
  BY HandoffsAssumption DEF KeptUrls
<1>2. /\ KeptUrls(urls, answers, TRUE) \subseteq urls
      /\ urls \cap Answering \subseteq KeptUrls(urls, answers, TRUE)
  BY HandoffsAssumption DEF KeptUrls
<1>3. \/ result = [kept |-> urls, probed |-> {}]
      \/ /\ Registry[t].validates
         /\ \/ \E a \in SUBSET answers : result = [kept |-> KeptUrls(urls, a, FALSE), probed |-> urls]
            \/ result = [kept |-> KeptUrls(urls, answers, TRUE), probed |-> urls]
  BY DEF Validations
<1> HIDE DEF answers
<1>4. CASE result = [kept |-> urls, probed |-> {}]
  BY <1>4
<1>5. ASSUME NEW a \in SUBSET answers, Registry[t].validates,
             result = [kept |-> KeptUrls(urls, a, FALSE), probed |-> urls]
      PROVE  result.kept \subseteq urls /\ urls \cap Answering \subseteq result.kept
  BY <1>1, <1>5
<1>6. CASE result = [kept |-> KeptUrls(urls, answers, TRUE), probed |-> urls] /\ Registry[t].validates
  BY <1>2, <1>6
<1> QED
  BY <1>3, <1>4, <1>5, <1>6

LEMMA HandedOffType ==
  ASSUME Types, NEW later \in HandedOff
  PROVE  later \in [HostFiles -> SUBSET Hosts]
<1>1. \A hosts : InScope(hosts) \in SUBSET Hosts
  BY DEF InScope, Hosts
<1>2. \A urls \in AliveUrls : urls \in SUBSET Hosts
  BY DEF AliveUrls, RowsAbout, Types
<1>3. ProbeCandidates \in SUBSET Hosts
  BY <1>1 DEF ProbeCandidates, ResolvedHosts
<1>4. \/ later = [files EXCEPT !["subdomains_merged"] = MergedSubdomains]
      \/ later = [files EXCEPT !["alive_subdomains"] = ResolvedHosts,
                               !["probe_candidates"] = ProbeCandidates]
      \/ \E urls \in AliveUrls : later = [files EXCEPT !["alive_urls"] = urls]
      \/ later = files
  BY DEF HandedOff
<1>5. MergedSubdomains \in SUBSET Hosts /\ ResolvedHosts \in SUBSET Hosts
  BY <1>1 DEF MergedSubdomains, ResolvedHosts
<1> QED
  BY <1>2, <1>3, <1>4, <1>5 DEF Types

LEMMA TypesInit == HandoffsInit => Types
  BY DEF HandoffsInit, Types, NoFiles

LEMMA TypesNext == Types /\ [HandoffsNext]_handoffVars => Types'
<1> SUFFICES ASSUME Types, [HandoffsNext]_handoffVars PROVE Types'
  OBVIOUS
<1>1. CASE ChooseTools
  <2>1. files' \in [HostFiles -> SUBSET Hosts]
    BY <1>1 DEF ChooseTools, EarlierFiles, NoFiles, InScope, Hosts
  <2>2. selected' \in SUBSET DOMAIN Registry
    BY <1>1, SelectionsAssumption DEF ChooseTools
  <2> QED
    BY <1>1, <2>1, <2>2 DEF ChooseTools, Types
<1>2. ASSUME NEW t \in selected, ReuseTool(t) PROVE Types'
  <2>1. PICK found \in Findable(t, InScope(TargetsOf(t))) : \E rows \in RowsOf(t, found) :
          rowHosts' = [rowHosts EXCEPT ![t] = rows]
    BY <1>2 DEF ReuseTool
  <2>2. InScope(TargetsOf(t)) \in SUBSET Hosts
    BY DEF InScope, Hosts
  <2>3. found \in SUBSET Hosts
    BY <2>2, FindableType
  <2>4. \A rows \in RowsOf(t, found) : rows \in SUBSET Hosts
    BY <2>3, ReportsType
  <2>5. rowHosts' \in [selected -> SUBSET Hosts]
    BY <2>1, <2>4 DEF Types
  <2> QED
    BY <1>2, <2>5 DEF ReuseTool, Types
<1>3. ASSUME NEW t \in selected, SkipTool(t) PROVE Types'
  BY <1>3 DEF SkipTool, Types
<1>4. ASSUME NEW t \in selected, StartTool(t) PROVE Types'
  BY <1>4, TargetsType DEF StartTool, Types
<1>5. ASSUME NEW t \in selected, EndTool(t) PROVE Types'
  <2>1. PICK found \in Findable(t, targets[t]) : \E result \in Validations(t, found) :
          /\ discovered' = [discovered EXCEPT ![t] = found]
          /\ files' = [f \in HostFiles |-> IF f \in Registry[t].writes THEN result.kept ELSE files[f]]
          /\ \E rows \in RowsOf(t, result.kept) : rowHosts' = [rowHosts EXCEPT ![t] = rows]
    BY <1>5 DEF EndTool
  <2>2. found \in SUBSET Hosts
    BY FindableType DEF Types
  <2>3. \A result \in Validations(t, found) : result.kept \in SUBSET Hosts
    BY <2>2, ValidationKeeps
  <2>4. \A result \in Validations(t, found) : \A rows \in RowsOf(t, result.kept) : rows \in SUBSET Hosts
    BY <2>3, ReportsType
  <2>5. discovered' \in [selected -> SUBSET Hosts] /\ files' \in [HostFiles -> SUBSET Hosts]
    BY <2>1, <2>2, <2>3 DEF Types
  <2>6. rowHosts' \in [selected -> SUBSET Hosts]
    BY <2>1, <2>4 DEF Types
  <2> QED
    BY <1>5, <2>5, <2>6 DEF EndTool, Types
<1>6. CASE NextPhase
  <2>1. phaseNow' \in 0 .. 8 /\ phaseNow' # 0
    BY <1>6 DEF NextPhase, Phases
  <2> QED
    BY <1>6, <2>1, HandedOffType DEF NextPhase, Types
<1>7. CASE UNCHANGED handoffVars
  BY <1>7 DEF handoffVars, Types
<1> QED
  BY <1>1, <1>2, <1>3, <1>4, <1>5, <1>6, <1>7 DEF HandoffsNext

LEMMA TypesAlways == HandoffsSpec => []Types
  BY TypesInit, TypesNext, PTL DEF HandoffsSpec

-----------------------------------------------------------------------------
(* Credentials.                                                            *)

LEMMA CredentialsForAllowed ==
  ASSUME NEW headers, NEW hosts
  PROVE  CredentialsFor(headers, hosts) \subseteq Allowed
  BY DEF CredentialsFor

\* Every tool but one that waits is out of reach of StartTool.
LEMMA StillLeads ==
  ASSUME Types, NEW t \in selected, NEW ways, MayLead(t, ways),
         [HandoffsNext]_handoffVars, ~ChooseTools
  PROVE  t \in selected' /\ MayLead(t, ways)'
<1>0. /\ toolState \in [selected -> {"waiting", "running", "done", "reused", "skipped"}]
      /\ targets \in [selected -> SUBSET Hosts]
      /\ toolState[t] \in {"running", "done"}
  BY DEF Types, MayLead
<1>1. ASSUME NEW w \in selected, ReuseTool(w) \/ SkipTool(w) \/ StartTool(w)
      PROVE  selected' = selected /\ toolState'[t] = toolState[t] /\ targets'[t] = targets[t]
  BY <1>0, <1>1 DEF ReuseTool, SkipTool, StartTool, Due
<1>2. ASSUME NEW w \in selected, EndTool(w)
      PROVE  selected' = selected /\ toolState'[t] \in {"running", "done"} /\ targets'[t] = targets[t]
  BY <1>0, <1>2 DEF EndTool
<1>3. CASE NextPhase \/ UNCHANGED handoffVars
  BY <1>3 DEF NextPhase, handoffVars, MayLead
<1> QED
  BY <1>0, <1>1, <1>2, <1>3 DEF HandoffsNext, MayLead

\* A tool whose requests led on may do so from now on.
LEMMA StartedLeads ==
  ASSUME Types, NEW t \in selected, StartTool(t), NEW further,
         further \in LedTo(t, CredentialsFor(Registry[t].headers,
                                            IF Registry[t].asks THEN TargetsOf(t) ELSE {}))
  PROVE  /\ further # {} => MayLead(t, {"anywhere", "address"})'
         /\ further \subseteq Addresses \/ MayLead(t, {"anywhere"})'
<1> DEFINE carried == CredentialsFor(Registry[t].headers,
                                     IF Registry[t].asks THEN TargetsOf(t) ELSE {})
<1>1. carried # {} => Registry[t].headers # "none" /\ TargetsOf(t) \cap Allowed # {}
  BY DEF CredentialsFor
<1>2. toolState'[t] = "running" /\ targets'[t] = TargetsOf(t)
  BY DEF StartTool, Types
<1>3. \/ carried # {} /\ Registry[t].leads = "anywhere"
      \/ carried # {} /\ Registry[t].leads = "address" /\ further \subseteq Addresses
      \/ further = {}
  BY DEF LedTo
<1> QED
  BY <1>1, <1>2, <1>3 DEF MayLead

LEMMA AccountedForNext ==
  Types /\ CredentialsAccountedFor /\ [HandoffsNext]_handoffVars => CredentialsAccountedFor'
<1> SUFFICES ASSUME Types, CredentialsAccountedFor, [HandoffsNext]_handoffVars
             PROVE  CredentialsAccountedFor'
  OBVIOUS
<1>1. authed' \subseteq Allowed
  BY CredentialsForAllowed
     DEF CredentialsAccountedFor, HandoffsNext, ChooseTools, ReuseTool, SkipTool, StartTool,
         EndTool, NextPhase, handoffVars
<1>2. CASE ChooseTools
  <2>1. selected = {} /\ strayed' = strayed
    BY <1>2 DEF ChooseTools, Types
  <2> QED
    BY <1>1, <2>1 DEF CredentialsAccountedFor
<1>3. ASSUME NEW t \in selected, StartTool(t) PROVE CredentialsAccountedFor'
  <2>1. ~ChooseTools /\ selected' = selected
    BY <1>3 DEF ChooseTools, StartTool, Due, Types
  <2>2. PICK further \in LedTo(t, CredentialsFor(Registry[t].headers,
                                 IF Registry[t].asks THEN TargetsOf(t) ELSE {})) :
          strayed' = strayed \cup further
    BY <1>3 DEF StartTool
  <2>3. /\ further # {} => MayLead(t, {"anywhere", "address"})'
        /\ further \subseteq Addresses \/ MayLead(t, {"anywhere"})'
    BY <1>3, StartedLeads
  <2>4. \A w \in selected : \A ways : MayLead(w, ways) => MayLead(w, ways)'
    BY <2>1, StillLeads
  <2>5. strayed # {} => \E w \in selected' : MayLead(w, {"anywhere", "address"})'
    BY <2>1, <2>4 DEF CredentialsAccountedFor
  <2>6. strayed \subseteq Addresses \/ \E w \in selected' : MayLead(w, {"anywhere"})'
    BY <2>1, <2>4 DEF CredentialsAccountedFor
  <2> QED
    BY <1>1, <2>1, <2>2, <2>3, <2>5, <2>6 DEF CredentialsAccountedFor
<1>4. CASE UNCHANGED strayed /\ ~ChooseTools
  <2>1. \A w \in selected : \A ways : MayLead(w, ways) => w \in selected' /\ MayLead(w, ways)'
    BY <1>4, StillLeads
  <2> QED
    BY <1>1, <1>4, <2>1 DEF CredentialsAccountedFor
<1> QED
  BY <1>2, <1>3, <1>4
     DEF HandoffsNext, ReuseTool, SkipTool, EndTool, NextPhase, handoffVars

\* Requests with credential headers are made for covered hosts alone, and the
\* headers come further only with a tool that follows redirects or links, or
\* that asks addresses directly.
THEOREM CredentialsAlwaysAccountedFor == HandoffsSpec => []CredentialsAccountedFor
<1>1. HandoffsInit => CredentialsAccountedFor
  BY DEF HandoffsInit, CredentialsAccountedFor
<1> QED
  BY <1>1, AccountedForNext, TypesAlways, PTL DEF HandoffsSpec

-----------------------------------------------------------------------------
(* Validation.                                                             *)

LEMMA ValidatorFile ==
  ASSUME Types, NEW t \in selected, Registry[t].validates
  PROVE  /\ t \in HostFiles \ Gates
         /\ Registry[t].writes = {t}
         /\ \A w \in selected \ {t} : t \notin Registry[w].writes
<1>1. Registry[t].writes = {t} /\ t \in Validators /\ Registry[t].writes \cap Gates = {}
  BY AdaptersFit DEF Types, Fits
<1>2. t \in HostFiles
  BY <1>1 DEF Validators, HostFiles
<1>3. \A w \in selected : t \in Registry[w].writes => t = w
  BY <1>1, AdaptersFit DEF Types, Fits, Validators
<1> QED
  BY <1>1, <1>2, <1>3

\* The gates are all that a change of phase replaces.
LEMMA HandedOffGates ==
  ASSUME Types, NEW later \in HandedOff, NEW f \in HostFiles \ Gates
  PROVE  later[f] = files[f]
  BY DEF Types, HandedOff, Gates

LEMMA AliveUrlsKeptNext == Types /\ AliveUrlsKept /\ [HandoffsNext]_handoffVars => AliveUrlsKept'
<1> SUFFICES ASSUME Types, AliveUrlsKept, [HandoffsNext]_handoffVars,
                    NEW t \in selected', Registry[t].validates, toolState'[t] = "done"
             PROVE  discovered'[t] \cap Answering \subseteq OwnFile(t)'
  BY DEF AliveUrlsKept
<1>0. /\ toolState \in [selected -> {"waiting", "running", "done", "reused", "skipped"}]
      /\ discovered \in [selected -> SUBSET Hosts]
      /\ files \in [HostFiles -> SUBSET Hosts]
  BY DEF Types
<1>1. CASE ChooseTools
  BY <1>1 DEF ChooseTools
<1>2. CASE selected' = selected
  <2>1. /\ t \in HostFiles \ Gates
        /\ Registry[t].writes = {t}
        /\ \A w \in selected \ {t} : t \notin Registry[w].writes
    BY <1>2, ValidatorFile
  <2>2. OwnFile(t)' = files'[t]
    BY <2>1 DEF OwnFile
  <2>3. toolState[t] = "done" => discovered[t] \cap Answering \subseteq files[t]
    BY <1>2, <2>1 DEF AliveUrlsKept, OwnFile
  <2>4. ASSUME NEW w \in selected, ReuseTool(w) \/ SkipTool(w) \/ StartTool(w)
        PROVE  discovered'[t] \cap Answering \subseteq files'[t]
    BY <1>0, <1>2, <2>3, <2>4 DEF ReuseTool, SkipTool, StartTool
  <2>5. ASSUME NEW w \in selected, EndTool(w), w # t
        PROVE  discovered'[t] \cap Answering \subseteq files'[t]
    BY <1>0, <1>2, <2>1, <2>3, <2>5 DEF EndTool
  <2>6. CASE EndTool(t)
    <3>1. PICK found \in Findable(t, targets[t]) : \E result \in Validations(t, found) :
            /\ discovered' = [discovered EXCEPT ![t] = found]
            /\ files' = [f \in HostFiles |-> IF f \in Registry[t].writes THEN result.kept ELSE files[f]]
      BY <2>6 DEF EndTool
    <3>2. PICK result \in Validations(t, found) :
            /\ discovered' = [discovered EXCEPT ![t] = found]
            /\ files' = [f \in HostFiles |-> IF f \in Registry[t].writes THEN result.kept ELSE files[f]]
      BY <3>1
    <3>3. found \cap Answering \subseteq result.kept
      BY ValidationKeeps
    <3>4. discovered'[t] = found
      BY <1>0, <1>2, <3>2
    <3>5. files'[t] = result.kept
      BY <2>1, <3>2
    <3> QED
      BY <2>2, <3>3, <3>4, <3>5
  <2>7. CASE NextPhase
    <3>1. files' \in HandedOff /\ discovered' = discovered /\ toolState' = toolState
      BY <2>7 DEF NextPhase
    <3>2. files'[t] = files[t]
      BY <2>1, <3>1, HandedOffGates
    <3> QED
      BY <2>2, <2>3, <3>1, <3>2
  <2>8. CASE UNCHANGED handoffVars
    BY <2>2, <2>3, <2>8 DEF handoffVars
  <2> QED
    BY <1>1, <2>2, <2>4, <2>5, <2>6, <2>7, <2>8 DEF HandoffsNext
<1> QED
  BY <1>1, <1>2 DEF HandoffsNext, ReuseTool, SkipTool, StartTool, EndTool, NextPhase, handoffVars

\* A URL whose host answers survives its validation.
THEOREM AliveUrlsAlwaysKept == HandoffsSpec => []AliveUrlsKept
<1>1. HandoffsInit => AliveUrlsKept
  BY DEF HandoffsInit, AliveUrlsKept
<1> QED
  BY <1>1, TypesAlways, AliveUrlsKeptNext, PTL DEF HandoffsSpec
-----------------------------------------------------------------------------
(* Scope.                                                                  *)

\* What stands behind HandoffInScope: the engine's files, and those and the
\* rows of the probes that they are written from, are about hosts in scope.
Scoped ==
  /\ \A f \in Gates \cup ProbeFiles : files[f] \subseteq InScope(Hosts)
  /\ \A t \in selected \cap ProbeFiles :
       targets[t] \subseteq InScope(Hosts) /\ rowHosts[t] \subseteq InScope(Hosts)
  /\ HandoffInScope

LEMMA ProbeAdapter ==
  ASSUME Types, NEW t \in selected \cap ProbeFiles
  PROVE  /\ t \in HostFiles
         /\ Registry[t].reads = {"probe_candidates"}
         /\ Registry[t].writes = {t}
         /\ Registry[t].root = "never"
         /\ Registry[t].finds = "targets"
         /\ ~Registry[t].validates
<1>1. t \in HostFiles
  BY DEF ProbeFiles, HostFiles
<1> QED
  BY <1>1, AdaptersFit DEF Types, Fits

\* Its own file and its targets in scope, a probe finds hosts in scope.
LEMMA ProbeFinds ==
  ASSUME Types, Scoped, NEW t \in selected \cap ProbeFiles, NEW pointed \in SUBSET InScope(Hosts),
         NEW found \in Findable(t, pointed)
  PROVE  found \subseteq InScope(Hosts)
<1>1. OwnFile(t) \subseteq InScope(Hosts)
  BY ProbeAdapter DEF OwnFile, Scoped
<1> QED
  BY <1>1, ProbeAdapter DEF Findable

LEMMA ProbeRows ==
  ASSUME Types, NEW t \in selected \cap ProbeFiles, NEW hosts \in SUBSET InScope(Hosts),
         NEW rows \in RowsOf(t, hosts)
  PROVE  rows \subseteq InScope(Hosts)
<1>1. Reports(t, hosts) = hosts
  BY ProbeAdapter DEF Reports
<1> QED
  BY <1>1 DEF RowsOf

LEMMA ScopedTargets ==
  ASSUME Types, Scoped, NEW t \in selected, Registry[t].reads \subseteq Gates
  PROVE  TargetsOf(t) \subseteq
           InScope(Hosts) \cup (IF Registry[t].root = "never" THEN {} ELSE {Apex})
<1>1. Listed(t) \subseteq InScope(Hosts)
  BY DEF Listed, Scoped
<1>2. CASE Registry[t].root = "never"
  BY <1>1, <1>2 DEF TargetsOf
<1>3. CASE Registry[t].root # "never"
  BY <1>1, <1>3 DEF TargetsOf
<1> QED
  BY <1>2, <1>3

LEMMA HandedOffScoped ==
  ASSUME Types, Scoped, NEW later \in HandedOff, NEW f \in Gates \cup ProbeFiles
  PROVE  later[f] \subseteq InScope(Hosts)
<1>1. \A hosts : InScope(hosts) \subseteq InScope(Hosts)
  BY DEF InScope, Hosts
<1>2. ASSUME NEW urls \in AliveUrls PROVE urls \subseteq InScope(Hosts)
  BY DEF AliveUrls, RowsAbout, Scoped, ProbeFiles
<1>3. /\ MergedSubdomains \subseteq InScope(Hosts)
      /\ ResolvedHosts \subseteq InScope(Hosts)
      /\ ProbeCandidates \subseteq InScope(Hosts)
  BY <1>1 DEF MergedSubdomains, ResolvedHosts, ProbeCandidates
<1>4. \/ later = [files EXCEPT !["subdomains_merged"] = MergedSubdomains]
      \/ later = [files EXCEPT !["alive_subdomains"] = ResolvedHosts,
                               !["probe_candidates"] = ProbeCandidates]
      \/ \E urls \in AliveUrls : later = [files EXCEPT !["alive_urls"] = urls]
      \/ later = files
  BY DEF HandedOff
<1>5. files[f] \subseteq InScope(Hosts) /\ f \in HostFiles
  BY DEF Scoped, Gates, ProbeFiles, HostFiles
<1> QED
  BY <1>2, <1>3, <1>4, <1>5 DEF Types

LEMMA ScopedInit == HandoffsInit => Scoped
  BY DEF HandoffsInit, Scoped, NoFiles, Gates, ProbeFiles, HostFiles, HandoffInScope

LEMMA ScopedNext == Types /\ Scoped /\ [HandoffsNext]_handoffVars => Scoped'
<1> SUFFICES ASSUME Types, Scoped, [HandoffsNext]_handoffVars PROVE Scoped'
  OBVIOUS
<1>0. /\ toolState \in [selected -> {"waiting", "running", "done", "reused", "skipped"}]
      /\ targets \in [selected -> SUBSET Hosts]
      /\ rowHosts \in [selected -> SUBSET Hosts]
      /\ files \in [HostFiles -> SUBSET Hosts]
  BY DEF Types
<1>1. CASE ChooseTools
  <2>1. \A f \in Gates \cup ProbeFiles : f \in HostFiles /\ EarlierFiles[f] \subseteq InScope(Hosts)
    BY DEF EarlierFiles, Gates, ProbeFiles, HostFiles
  <2>2. \A f \in Gates \cup ProbeFiles : files'[f] \subseteq InScope(Hosts)
    BY <1>1, <2>1 DEF ChooseTools, NoFiles
  <2> QED
    BY <1>1, <2>2 DEF ChooseTools, Scoped, HandoffInScope
<1>2. ASSUME NEW t \in selected, ReuseTool(t) PROVE Scoped'
  <2>1. PICK found \in Findable(t, InScope(TargetsOf(t))) : \E rows \in RowsOf(t, found) :
          rowHosts' = [rowHosts EXCEPT ![t] = rows]
    BY <1>2 DEF ReuseTool
  <2>2. PICK rows \in RowsOf(t, found) : rowHosts' = [rowHosts EXCEPT ![t] = rows]
    BY <2>1
  <2>3. InScope(TargetsOf(t)) \in SUBSET InScope(Hosts)
    BY DEF InScope, Hosts
  <2>4. t \in ProbeFiles => rows \subseteq InScope(Hosts)
    BY <2>3, ProbeFinds, ProbeRows
  <2>5. \A w \in selected \cap ProbeFiles : rowHosts'[w] \subseteq InScope(Hosts)
    BY <1>0, <2>2, <2>4 DEF Scoped
  <2>6. HandoffInScope'
    BY <1>0, <1>2 DEF ReuseTool, Scoped, HandoffInScope
  <2> QED
    BY <1>2, <2>5, <2>6 DEF ReuseTool, Scoped
<1>3. ASSUME NEW t \in selected, SkipTool(t) PROVE Scoped'
  BY <1>0, <1>3 DEF SkipTool, Scoped, HandoffInScope
<1>4. ASSUME NEW t \in selected, StartTool(t) PROVE Scoped'
  <2>1. Registry[t].reads \subseteq Gates =>
          TargetsOf(t) \subseteq
            InScope(Hosts) \cup (IF Registry[t].root = "never" THEN {} ELSE {Apex})
    BY ScopedTargets
  <2>2. targets' = [targets EXCEPT ![t] = TargetsOf(t)] /\ selected' = selected
    BY <1>4 DEF StartTool
  <2>3. t \in ProbeFiles => TargetsOf(t) \subseteq InScope(Hosts)
    BY <2>1, ProbeAdapter DEF Gates
  <2>4. \A w \in selected \cap ProbeFiles : targets'[w] \subseteq InScope(Hosts)
    BY <1>0, <2>2, <2>3 DEF Scoped
  <2>5. HandoffInScope'
    BY <1>0, <1>4, <2>1 DEF StartTool, Scoped, HandoffInScope
  <2> QED
    BY <1>4, <2>4, <2>5 DEF StartTool, Scoped
<1>5. ASSUME NEW t \in selected, EndTool(t) PROVE Scoped'
  <2>1. PICK found \in Findable(t, targets[t]) : \E result \in Validations(t, found) :
          /\ files' = [f \in HostFiles |-> IF f \in Registry[t].writes THEN result.kept ELSE files[f]]
          /\ \E rows \in RowsOf(t, result.kept) : rowHosts' = [rowHosts EXCEPT ![t] = rows]
    BY <1>5 DEF EndTool
  <2>2. PICK result \in Validations(t, found) :
          /\ files' = [f \in HostFiles |-> IF f \in Registry[t].writes THEN result.kept ELSE files[f]]
          /\ \E rows \in RowsOf(t, result.kept) : rowHosts' = [rowHosts EXCEPT ![t] = rows]
    BY <2>1
  <2>3. PICK rows \in RowsOf(t, result.kept) : rowHosts' = [rowHosts EXCEPT ![t] = rows]
    BY <2>2
  <2>4. result.kept \subseteq found
    BY ValidationKeeps
  <2>5. t \in ProbeFiles => result.kept \subseteq InScope(Hosts)
    BY <2>4, ProbeFinds DEF Scoped
  <2>6. t \in ProbeFiles => rows \subseteq InScope(Hosts)
    BY <2>5, ProbeRows
  <2>7. \A f \in Gates \cup ProbeFiles : f \in Registry[t].writes => f = t /\ t \in ProbeFiles
    BY AdaptersFit DEF Types, Fits
  <2>8. \A f \in Gates \cup ProbeFiles : f \in HostFiles
    BY DEF Gates, ProbeFiles, HostFiles
  <2>9. \A f \in Gates \cup ProbeFiles : files'[f] \subseteq InScope(Hosts)
    BY <2>2, <2>5, <2>7, <2>8 DEF Scoped
  <2>10. \A w \in selected \cap ProbeFiles : rowHosts'[w] \subseteq InScope(Hosts)
    BY <1>0, <2>3, <2>6 DEF Scoped
  <2>11. HandoffInScope'
    BY <1>0, <1>5 DEF EndTool, Scoped, HandoffInScope
  <2> QED
    BY <1>5, <2>9, <2>10, <2>11 DEF EndTool, Scoped
<1>6. CASE NextPhase
  <2>1. \A f \in Gates \cup ProbeFiles : files'[f] \subseteq InScope(Hosts)
    BY <1>6, HandedOffScoped DEF NextPhase
  <2>2. HandoffInScope'
    BY <1>6 DEF NextPhase, Scoped, HandoffInScope
  <2> QED
    BY <1>6, <2>1, <2>2 DEF NextPhase, Scoped
<1>7. CASE UNCHANGED handoffVars
  BY <1>7 DEF handoffVars, Scoped, HandoffInScope
<1> QED
  BY <1>1, <1>2, <1>3, <1>4, <1>5, <1>6, <1>7 DEF HandoffsNext

\* Tools that live on the engine's files alone are pointed at hosts in scope.
THEOREM HandoffAlwaysInScope == HandoffsSpec => []HandoffInScope
<1>1. Scoped => HandoffInScope
  BY DEF Scoped
<1> QED
  BY <1>1, ScopedInit, ScopedNext, TypesAlways, PTL DEF HandoffsSpec
-----------------------------------------------------------------------------
(* Order.                                                                  *)

\* The phase at whose end a file that hosts are taken from stands.
Stage ==
  [subdomains_merged |-> 2, subfinder |-> 2, amass |-> 2, shuffledns |-> 2,
   alive_subdomains |-> 3, probe_candidates |-> 3, dnsx |-> 3,
   alive_urls |-> 4, httpx |-> 4, naabu |-> 4,
   katana |-> 5, gau |-> 5, waybackurls |-> 5, urlfinder |-> 5,
   params |-> 6, urls_deduped |-> 6, whatweb |-> 7]

\* An adapter r of a tool t in phase p writes files of that phase and reads
\* files of earlier ones, but for ai_analysis, which runs last, and for wpscan,
\* which reads the file of whatweb.
Placed(t, p, r) ==
  /\ \A f \in r.writes \cap HostFiles : Stage[f] = p
  /\ r.writes \cap r.reads = {}
  /\ \/ t = "ai_analysis"
     \/ r.reads \subseteq HostFiles /\ \A f \in r.reads : Stage[f] < p
     \/ /\ t = "wpscan"
        /\ r.reads \subseteq HostFiles /\ \A f \in r.reads \ {"whatweb"} : Stage[f] < p
  /\ "whatweb" \in r.writes => t = "whatweb"

LEMMA PassivePlaces ==
  /\ Placed("whois", 1, Whois)
  /\ Placed("asnmap", 1, Asnmap)
  /\ Placed("shodan", 1, Shodan)
  /\ Placed("email_finder", 1, EmailFinder)
  BY DEF Placed, Stage, HostFiles, Gates, SubdomainFiles, Adapter, Lookup, Probe, Archive,
         Whois, Asnmap, Shodan, EmailFinder

LEMMA SubdomainPlaces ==
  /\ Placed("crtsh", 2, CrtSh)
  /\ Placed("assetfinder", 2, Assetfinder)
  /\ Placed("subfinder", 2, Subfinder)
  /\ Placed("amass", 2, Amass)
  /\ Placed("shuffledns", 2, ShuffleDNS)
  BY DEF Placed, Stage, HostFiles, Gates, SubdomainFiles, Adapter, Lookup, Probe, Archive,
         CrtSh, Assetfinder, Subfinder, Amass, ShuffleDNS

LEMMA DnsPlaces ==
  /\ Placed("dnsx", 3, Dnsx)
  /\ Placed("dns_records", 3, DnsRecords)
  /\ Placed("zone_transfer", 3, ZoneTransfer)
  BY DEF Placed, Stage, HostFiles, Gates, SubdomainFiles, Adapter, Lookup, Probe, Archive,
         Dnsx, DnsRecords, ZoneTransfer

LEMMA ProbingPlaces ==
  /\ Placed("httpx", 4, Httpx)
  /\ Placed("tlsx", 4, Tlsx)
  /\ Placed("naabu", 4, Naabu)
  BY DEF Placed, Stage, HostFiles, Gates, SubdomainFiles, Adapter, Lookup, Probe, Archive,
         Httpx, Tlsx, Naabu

LEMMA UrlPlaces ==
  /\ Placed("waybackurls", 5, WaybackUrls)
  /\ Placed("gau", 5, Gau)
  /\ Placed("katana", 5, Katana)
  /\ Placed("urlfinder", 5, UrlFinder)
  /\ Placed("ffuf", 5, Ffuf)
  /\ Placed("vhost", 5, Vhost)
  BY DEF Placed, Stage, HostFiles, Gates, SubdomainFiles, Adapter, Lookup, Probe, Archive,
         WaybackUrls, Gau, Katana, UrlFinder, Ffuf, Vhost

LEMMA EndpointPlaces ==
  /\ Placed("api_spec", 6, ApiSpec)
  /\ Placed("param_miner", 6, ParamMiner)
  BY DEF Placed, Stage, HostFiles, Gates, SubdomainFiles, Adapter, Lookup, Probe, Archive,
         ApiSpec, ParamMiner

LEMMA AnalysisPlaces ==
  /\ Placed("google_dorks", 7, GoogleDorks)
  /\ Placed("nuclei", 7, Nuclei)
  /\ Placed("nuclei_dast", 7, NucleiDast)
  /\ Placed("cve_check", 7, CveCheck)
  /\ Placed("subdomain_takeover", 7, SubdomainTakeover)
  /\ Placed("wpscan", 7, Wpscan)
  /\ Placed("gowitness", 7, Gowitness)
  /\ Placed("whatweb", 7, Whatweb)
  /\ Placed("wafw00f", 7, Wafw00f)
  /\ Placed("secret_exposure", 7, SecretExposure)
  /\ Placed("web_posture", 7, WebPosture)
  /\ Placed("origin_exposure", 7, OriginExposure)
  /\ Placed("ai_analysis", 7, AIAnalysis)
  BY DEF Placed, Stage, HostFiles, Gates, SubdomainFiles, Adapter, Lookup, Probe, Archive,
         GoogleDorks, Nuclei, NucleiDast, CveCheck, SubdomainTakeover, Wpscan, Gowitness,
         Whatweb, Wafw00f, SecretExposure, WebPosture, OriginExposure, AIAnalysis,
         ArtifactSources

LEMMA PhaseOfTool ==
  ASSUME NEW i \in 1 .. 7, NEW t \in Phases[i]
  PROVE  PhaseOf(t) = i
<1>1. \A j, k \in 1 .. 7 : j < k => Phases[j] \cap Phases[k] = {}
  BY DEF Phases
<1>2. DOMAIN Phases = 1 .. 7
  BY DEF Phases
<1>3. \A j \in 1 .. 7 : t \in Phases[j] => j = i
  BY <1>1
<1> QED
  BY <1>2, <1>3 DEF PhaseOf

LEMMA ToolPhases ==
  ASSUME NEW t \in DOMAIN Registry
  PROVE  \E i \in 1 .. 7 : t \in Phases[i]
  BY RegistryTools DEF Phases

LEMMA AdaptersPlaced ==
  ASSUME NEW t \in DOMAIN Registry
  PROVE  /\ PhaseOf(t) \in 1 .. 7 /\ t \in Phases[PhaseOf(t)]
         /\ Placed(t, PhaseOf(t), Registry[t])
<1>1. PICK i \in 1 .. 7 : t \in Phases[i]
  BY ToolPhases
<1>2. PhaseOf(t) = i
  BY <1>1, PhaseOfTool
<1>3. Placed(t, i, Registry[t])
  <2>1. CASE i = 1
    <3>1. t \in {"whois", "asnmap", "shodan", "email_finder"}
      BY <1>1, <2>1 DEF Phases
    <3> QED
      BY <2>1, <3>1, RegistryTools, PassivePlaces
  <2>2. CASE i = 2
    <3>1. t \in {"crtsh", "assetfinder", "subfinder", "amass", "shuffledns"}
      BY <1>1, <2>2 DEF Phases
    <3> QED
      BY <2>2, <3>1, RegistryTools, SubdomainPlaces
  <2>3. CASE i = 3
    <3>1. t \in {"dnsx", "dns_records", "zone_transfer"}
      BY <1>1, <2>3 DEF Phases
    <3> QED
      BY <2>3, <3>1, RegistryTools, DnsPlaces
  <2>4. CASE i = 4
    <3>1. t \in {"httpx", "tlsx", "naabu"}
      BY <1>1, <2>4 DEF Phases
    <3> QED
      BY <2>4, <3>1, RegistryTools, ProbingPlaces
  <2>5. CASE i = 5
    <3>1. t \in {"waybackurls", "gau", "katana", "urlfinder", "ffuf", "vhost"}
      BY <1>1, <2>5 DEF Phases
    <3> QED
      BY <2>5, <3>1, RegistryTools, UrlPlaces
  <2>6. CASE i = 6
    <3>1. t \in {"api_spec", "param_miner"}
      BY <1>1, <2>6 DEF Phases
    <3> QED
      BY <2>6, <3>1, RegistryTools, EndpointPlaces
  <2>7. CASE i = 7
    <3>1. t \in {"google_dorks", "nuclei", "nuclei_dast", "cve_check", "subdomain_takeover",
                "wpscan", "gowitness", "whatweb", "wafw00f", "secret_exposure",
                "web_posture", "origin_exposure", "ai_analysis"}
      BY <1>1, <2>7 DEF Phases
    <3> QED
      BY <2>7, <3>1, RegistryTools, AnalysisPlaces
  <2> QED
    BY <2>1, <2>2, <2>3, <2>4, <2>5, <2>6, <2>7
<1> QED
  BY <1>1, <1>2, <1>3
\* What stands behind HandoffsAreSettled: the tools of earlier phases are over,
\* and those of later ones have not started.
Following ==
  /\ \A t \in selected : PhaseOf(t) < phaseNow => Ended(t)
  /\ \A t \in selected : toolState[t] \in {"running", "done"} => PhaseOf(t) =< phaseNow
  /\ HandoffsAreSettled

\* A tool's part of HandoffsAreSettled, its exception for wpscan apart.
SettledFor(t) ==
  /\ targets[t] = TargetsOf(t)
  /\ \A w \in selected \ {t} : Registry[w].writes \cap Registry[t].reads # {} => Ended(w)

LEMMA SameTargets ==
  ASSUME NEW t, \A f \in Registry[t].reads \cap HostFiles : files'[f] = files[f]
  PROVE  TargetsOf(t)' = TargetsOf(t)
<1>1. Listed(t)' = Listed(t)
  BY DEF Listed
<1> QED
  BY <1>1 DEF TargetsOf

\* A change of phase leaves alone what a tool that has started takes hosts from.
LEMMA HandedOffBefore ==
  ASSUME Types, NEW later \in HandedOff, NEW t \in selected, PhaseOf(t) =< phaseNow,
         NEW f \in Registry[t].reads \cap HostFiles
  PROVE  later[f] = files[f]
<1>1. \/ phaseNow = 2 /\ later = [files EXCEPT !["subdomains_merged"] = MergedSubdomains]
      \/ /\ phaseNow = 3
         /\ later = [files EXCEPT !["alive_subdomains"] = ResolvedHosts,
                                  !["probe_candidates"] = ProbeCandidates]
      \/ phaseNow = 4 /\ \E urls \in AliveUrls : later = [files EXCEPT !["alive_urls"] = urls]
      \/ later = files
  BY DEF HandedOff
<1>2. f \in Gates => Stage[f] # phaseNow
  <2>1. PhaseOf("ai_analysis") = 7
    BY PhaseOfTool DEF Phases
  <2>2. f \in Gates => Stage[f] < 5 /\ f # "whatweb"
    BY DEF Gates, Stage
  <2>3. PhaseOf(t) \in 1 .. 7 /\ Placed(t, PhaseOf(t), Registry[t])
    BY AdaptersPlaced DEF Types
  <2>4. f \in Gates => Stage[f] \in Nat
    BY DEF Gates, Stage
  <2> QED
    BY <2>1, <2>2, <2>3, <2>4 DEF Types, Placed
<1>3. /\ f = "subdomains_merged" => phaseNow # 2
      /\ f \in {"alive_subdomains", "probe_candidates"} => phaseNow # 3
      /\ f = "alive_urls" => phaseNow # 4
  BY <1>2 DEF Gates, Stage
<1> QED
  BY <1>1, <1>3 DEF Types

\* Whoever writes what a tool reads is over when the tool may start.
LEMMA DueIsSettled ==
  ASSUME Types, Following, NEW t \in selected, Due(t), ~(t = "wpscan" /\ "whatweb" \in selected),
         NEW w \in selected \ {t}, Registry[w].writes \cap Registry[t].reads # {}
  PROVE  Ended(w)
<1>1. /\ PhaseOf(t) \in 1 .. 7 /\ Placed(t, PhaseOf(t), Registry[t])
      /\ PhaseOf(w) \in 1 .. 7 /\ Placed(w, PhaseOf(w), Registry[w])
      /\ w \in Phases[PhaseOf(w)]
  BY AdaptersPlaced DEF Types
<1>2. PICK f \in Registry[w].writes : f \in Registry[t].reads
  OBVIOUS
<1>3. CASE t = "ai_analysis"
  <2>1. PhaseOf(t) = 7
    BY <1>3, PhaseOfTool DEF Phases
  <2>2. CASE PhaseOf(w) = 7
    BY <1>1, <1>3, <2>2 DEF Due
  <2>3. CASE PhaseOf(w) < 7
    BY <2>1, <2>3 DEF Due, Following
  <2> QED
    BY <1>1, <2>2, <2>3
<1>4. CASE t # "ai_analysis"
  <2>1. f # "whatweb" \/ t # "wpscan"
    BY <1>1, <1>2 DEF Placed
  <2>2. Stage[f] < PhaseOf(t) /\ f \in HostFiles
    BY <1>1, <1>2, <1>4, <2>1 DEF Placed
  <2>3. Stage[f] = PhaseOf(w)
    BY <1>1, <1>2, <2>2 DEF Placed
  <2> QED
    BY <2>2, <2>3 DEF Due, Following
<1> QED
  BY <1>3, <1>4

LEMMA FollowingInit == HandoffsInit => Following
  BY DEF HandoffsInit, Following, HandoffsAreSettled

LEMMA FollowingNext == Types /\ Following /\ [HandoffsNext]_handoffVars => Following'
<1> SUFFICES ASSUME Types, Following, [HandoffsNext]_handoffVars PROVE Following'
  OBVIOUS
<1>0. /\ toolState \in [selected -> {"waiting", "running", "done", "reused", "skipped"}]
      /\ targets \in [selected -> SUBSET Hosts]
      /\ files \in [HostFiles -> SUBSET Hosts]
      /\ phaseNow \in 0 .. 8
      /\ \A t \in selected : PhaseOf(t) \in 1 .. 7 /\ Placed(t, PhaseOf(t), Registry[t])
  BY AdaptersPlaced DEF Types
<1>1. CASE ChooseTools
  <2>1. \A t \in selected' : toolState'[t] = "waiting" /\ PhaseOf(t) \in 1 .. 7
    BY <1>1, SelectionsAssumption, AdaptersPlaced DEF ChooseTools
  <2> QED
    BY <1>1, <2>1 DEF ChooseTools, Following, HandoffsAreSettled
<1>2. ASSUME NEW w \in selected, ReuseTool(w) \/ SkipTool(w) PROVE Following'
  <2>1. /\ selected' = selected /\ phaseNow' = phaseNow /\ files' = files /\ targets' = targets
        /\ \A t \in selected : t # w => toolState'[t] = toolState[t]
        /\ toolState'[w] \in {"reused", "skipped"}
    BY <1>0, <1>2 DEF ReuseTool, SkipTool
  <2>2. \A t \in selected : TargetsOf(t)' = TargetsOf(t)
    BY <2>1, SameTargets
  <2>3. \A t \in selected : Ended(t) => Ended(t)'
    BY <2>1 DEF Ended
  <2>4. HandoffsAreSettled'
    BY <2>1, <2>2, <2>3 DEF Following, HandoffsAreSettled
  <2> QED
    BY <2>1, <2>3, <2>4 DEF Following
<1>3. ASSUME NEW w \in selected, StartTool(w) PROVE Following'
  <2>1. /\ selected' = selected /\ phaseNow' = phaseNow /\ files' = files
        /\ \A t \in selected : t # w => toolState'[t] = toolState[t] /\ targets'[t] = targets[t]
        /\ targets'[w] = TargetsOf(w)
        /\ toolState[w] = "waiting" /\ PhaseOf(w) = phaseNow
    BY <1>0, <1>3 DEF StartTool, Due
  <2>2. \A t \in selected : TargetsOf(t)' = TargetsOf(t)
    BY <2>1, SameTargets
  <2>3. \A t \in selected : Ended(t) => Ended(t)'
    BY <2>1 DEF Ended
  <2>4. \/ w = "wpscan" /\ "whatweb" \in selected
        \/ SettledFor(w)'
    BY <1>3, <2>1, <2>2, <2>3, DueIsSettled DEF StartTool, SettledFor
  <2>5. HandoffsAreSettled'
    BY <2>1, <2>2, <2>3, <2>4 DEF Following, HandoffsAreSettled, SettledFor
  <2> QED
    BY <1>0, <2>1, <2>3, <2>5 DEF Following
<1>4. ASSUME NEW w \in selected, EndTool(w) PROVE Following'
  <2>1. /\ selected' = selected /\ phaseNow' = phaseNow /\ targets' = targets
        /\ \A t \in selected : t # w => toolState'[t] = toolState[t]
        /\ toolState[w] = "running" /\ toolState'[w] = "done"
    BY <1>0, <1>4 DEF EndTool
  <2>2. \A f \in HostFiles \ Registry[w].writes : files'[f] = files[f]
    BY <1>0, <1>4 DEF EndTool
  <2>3. \A t \in selected : Ended(t) => Ended(t)'
    BY <2>1 DEF Ended
  <2>4. ASSUME NEW t \in selected, toolState[t] \in {"running", "done"}, SettledFor(t)
        PROVE  SettledFor(t)'
    <3>1. Registry[w].writes \cap Registry[t].reads = {}
      BY <1>0, <2>1, <2>4 DEF SettledFor, Ended, Placed
    <3>2. TargetsOf(t)' = TargetsOf(t)
      BY <2>2, <3>1, SameTargets
    <3> QED
      BY <2>1, <2>3, <2>4, <3>2 DEF SettledFor
  <2>5. HandoffsAreSettled'
    BY <2>1, <2>4 DEF Following, HandoffsAreSettled, SettledFor
  <2> QED
    BY <2>1, <2>3, <2>5 DEF Following
<1>5. CASE NextPhase
  <2>1. /\ selected' = selected /\ phaseNow' = phaseNow + 1 /\ targets' = targets
        /\ toolState' = toolState /\ files' \in HandedOff
        /\ \A t \in selected \cap Phases[phaseNow] : Ended(t)
    BY <1>5 DEF NextPhase
  <2>2. ASSUME NEW t \in selected, toolState[t] \in {"running", "done"}
        PROVE  TargetsOf(t)' = TargetsOf(t)
    BY <2>1, <2>2, HandedOffBefore, SameTargets DEF Following
  <2>3. \A t \in selected : Ended(t)' = Ended(t)
    BY <2>1 DEF Ended
  <2>4. HandoffsAreSettled'
    BY <2>1, <2>2, <2>3 DEF Following, HandoffsAreSettled
  <2>5. \A t \in selected : PhaseOf(t) = phaseNow => Ended(t)
    BY <2>1, AdaptersPlaced DEF Types
  <2> QED
    BY <1>0, <2>1, <2>3, <2>4, <2>5 DEF Following
<1>6. CASE UNCHANGED handoffVars
  <2>1. \A t \in selected : TargetsOf(t)' = TargetsOf(t) /\ Ended(t)' = Ended(t)
    BY <1>6, SameTargets DEF handoffVars, Ended
  <2> QED
    BY <1>6, <2>1 DEF handoffVars, Following, HandoffsAreSettled
<1> QED
  BY <1>1, <1>2, <1>3, <1>4, <1>5, <1>6 DEF HandoffsNext

\* Every tool but wpscan has read the last word of the files it works from.
THEOREM HandoffsAlwaysSettled == HandoffsSpec => []HandoffsAreSettled
<1>1. Following => HandoffsAreSettled
  BY DEF Following
<1> QED
  BY <1>1, FollowingInit, FollowingNext, TypesAlways, PTL DEF HandoffsSpec

-----------------------------------------------------------------------------
(* The type of every variable.                                             *)

AuthedHosts == authed \cup strayed \subseteq Hosts

LEMMA AuthedNext == Types /\ AuthedHosts /\ [HandoffsNext]_handoffVars => AuthedHosts'
<1> SUFFICES ASSUME Types, AuthedHosts, [HandoffsNext]_handoffVars
             PROVE  authed' \subseteq Hosts /\ strayed' \subseteq Hosts
  BY DEF AuthedHosts
<1>1. \A headers, hosts : CredentialsFor(headers, hosts) \subseteq Hosts
  BY HandoffsAssumption, CredentialsForAllowed
<1>2. \A t, carried : \A further \in LedTo(t, carried) : further \subseteq Hosts
  BY HandoffsAssumption DEF LedTo, Hosts
<1>3. authed' \subseteq Hosts
  BY <1>1 DEF AuthedHosts, HandoffsNext, ChooseTools, ReuseTool, SkipTool, StartTool, EndTool,
              NextPhase, handoffVars
<1>4. strayed' \subseteq Hosts
  BY <1>2 DEF AuthedHosts, HandoffsNext, ChooseTools, ReuseTool, SkipTool, StartTool, EndTool,
              NextPhase, handoffVars
<1> QED
  BY <1>3, <1>4

\* Files, targets, rows and credentials are about hosts, of selected tools.
THEOREM HandoffsTypeCorrect == HandoffsSpec => []HandoffsTypeOK
<1>1. HandoffsInit => AuthedHosts
  BY DEF HandoffsInit, AuthedHosts
<1>2. Types /\ AuthedHosts => HandoffsTypeOK
  BY DEF Types, AuthedHosts, HandoffsTypeOK
<1> QED
  BY <1>1, <1>2, AuthedNext, TypesAlways, PTL DEF HandoffsSpec
=============================================================================
