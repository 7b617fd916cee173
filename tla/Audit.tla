------------------------------- MODULE Audit -------------------------------
(***************************************************************************)
(* From the controller to the report: collect_inventory selects a site,    *)
(* GETs one dataset after the other and goes on when one cannot be had;    *)
(* analyze_inventory makes what it can of the rest.  The configuration     *)
(* stands still here; PaginatedRead is about the one that does not.        *)
(***************************************************************************)
EXTENDS Naturals, Sequences, FiniteSets, Segmentation

CONSTANTS
    Configurations,  \* what there is to find: [sites, override, policies]
    Datasets,        \* the datasets, in the order they are read
    Relationships,   \* pairs of networks the summary is about
    ToGateway,       \* networks with a row towards the gateway
    MaxGaps          \* bound: datasets of each configuration that come back
                     \* empty or not whole

Names == {Datasets[i] : i \in DOMAIN Datasets}

ASSUME DatasetAssumption ==
    /\ Datasets \in Seq(STRING)
    /\ {"networks", "firewall_zones", "firewall_policies", "vpn_servers",
        "vpn_site_to_site", "upnp_exposure", "ids_ips"} \subseteq Names
ASSUME ConfigurationAssumption ==
    \A c \in Configurations : c.policies \in Seq(Policies)
ASSUME RowAssumption ==
    Relationships \subseteq Networks \X Networks /\ ToGateway \subseteq Networks

VARIABLES
    pc,          \* "discover", "collect", "analyze", "done" or "stopped"
    controller,  \* the configuration
    site,        \* the site all reads are about
    outcome,     \* what became of each dataset so far
    ev,          \* the networks, zones and policies collected
    report

vars == <<pc, controller, site, outcome, ev, report>>

\* Collections of the official API, read by pages.
Paginated == {"clients", "firewall_zones", "firewall_policies", "wlans",
              "wan_interfaces", "vpn_servers", "vpn_site_to_site"}
Outcomes == {"records", "empty", "partial", "unavailable"}
Scopes == {"all", "firewall", "network"}
NoReport == [kind |-> "none"]
NoSite == [id |-> "", internalReference |-> "", name |-> ""]

Init ==
    /\ pc = "discover"
    /\ controller \in Configurations
    /\ site = NoSite
    /\ outcome = <<>>
    /\ ev = [networks |-> {}, zones |-> {}, policies |-> <<>>]
    /\ report = NoReport

-----------------------------------------------------------------------------
(* The inventory. *)

Called(s, override) == override \in {s.id, s.internalReference, s.name}

\* select_site: every site listed is usable, and exactly one is meant.
Selectable(sites, override) ==
    {s \in sites :
        /\ \A t \in sites : t.id # "" /\ t.internalReference # ""
        /\ IF override = "" THEN sites = {s}
           ELSE Called(s, override) /\ \A t \in sites \ {s} : ~Called(t, override)}

\* Mutation of Discover: the site is what UNIFI_SITE says.
DiscoverAsTold ==
    /\ pc = "discover"
    /\ \E s \in controller.sites :
           site' = IF controller.override = "" THEN s
                   ELSE [id |-> controller.override, internalReference |->
                             controller.override, name |-> s.name]
    /\ pc' = "collect"
    /\ UNCHANGED <<controller, outcome, ev, report>>

Discover ==
    /\ pc = "discover"
    /\ \E s \in Selectable(controller.sites, controller.override) :
           site' = s /\ pc' = "collect"
    /\ UNCHANGED <<controller, outcome, ev, report>>

\* The GET fails, or no single site is meant.
DiscoveryStops ==
    /\ pc = "discover" /\ pc' = "stopped"
    /\ UNCHANGED <<controller, site, outcome, ev, report>>

\* What a read of a dataset can come to (_collect_spec); networks and zones
\* there always are, policies as the configuration has them.
Possible(d) ==
    {o \in Outcomes :
        /\ o = "partial" => d \in Paginated
        /\ o = "empty" => d \notin {"networks", "firewall_zones"}
        /\ d = "firewall_policies" =>
             CASE o = "records" -> controller.policies # <<>>
               [] o = "empty" -> controller.policies = <<>>
               [] o = "partial" -> Len(controller.policies) > 1
               [] o = "unavailable" -> TRUE}

Gaps == Cardinality({d \in DOMAIN outcome : outcome[d] # "records"})

\* The evidence a read adds.  A partial collection is a beginning of it.
Gathered(d, o) ==
    CASE d = "networks" /\ o = "records" -> {[ev EXCEPT !.networks = Networks]}
      [] d = "firewall_zones" /\ o = "records" -> {[ev EXCEPT !.zones = Zones]}
      [] d = "firewall_zones" /\ o = "partial" ->
           {[ev EXCEPT !.zones = some] : some \in SUBSET Zones \ {{}, Zones}}
      [] d = "firewall_policies" /\ o = "records" ->
           {[ev EXCEPT !.policies = controller.policies]}
      [] d = "firewall_policies" /\ o = "partial" ->
           {[ev EXCEPT !.policies = SubSeq(controller.policies, 1, n)] :
               n \in 1 .. Len(controller.policies) - 1}
      [] OTHER -> {ev}

\* The dataset whose turn it is.
Due ==
    {d \in Names \ DOMAIN outcome : \E k \in DOMAIN Datasets :
        Datasets[k] = d /\ \A j \in 1 .. k - 1 : Datasets[j] \in DOMAIN outcome}

\* collect_inventory reads on after a failure.
Collect ==
    /\ pc = "collect"
    /\ \E d \in Due : \E o \in Possible(d) :
         /\ o # "records" => Gaps < MaxGaps[controller]
         /\ ev' \in Gathered(d, o)
         /\ outcome' = [x \in DOMAIN outcome \cup {d} |->
                           IF x = d THEN o ELSE outcome[x]]
    /\ pc' = IF DOMAIN outcome' = Names THEN "analyze" ELSE "collect"
    /\ UNCHANGED <<controller, site, report>>

-----------------------------------------------------------------------------
(* The analysis. *)

Analyzed == {"networks", "devices", "port_forwards", "firewall_zones",
             "firewall_policies", "clients", "ids_ips", "upnp_exposure"}
Labelled == Analyzed \cup {"firewall_rules", "traffic_rules", "wlans", "wan_interfaces"}
VpnParts == {"vpn_servers", "vpn_site_to_site"}

\* Mutation of Coverage: only what is missing altogether is noticed.
CoverageOfWhatIsThere(d) ==
    CASE outcome[d] = "unavailable" -> "unsupported/unavailable"
      [] outcome[d] = "empty" -> "collected, empty"
      [] OTHER -> IF d \in Analyzed THEN "collected and analyzed"
                  ELSE "collected, partially analyzed"

\* coverage, of a dataset...
Coverage(d) ==
    CASE outcome[d] = "unavailable" -> "unsupported/unavailable"
      [] outcome[d] = "partial" -> "collected, partially analyzed"
      [] outcome[d] = "empty" -> "collected, empty"
      [] outcome[d] = "records" ->
           IF d \in Analyzed THEN "collected and analyzed"
           ELSE "collected, partially analyzed"

\* ...and of the VPN, which is two.
VpnCoverage ==
    IF \A d \in VpnParts : outcome[d] = "unavailable" THEN "unsupported/unavailable"
    ELSE IF \E d \in VpnParts : outcome[d] = "partial" THEN "collected, partially analyzed"
    ELSE "collected and analyzed"

\* vpn_posture, ids_ips_posture and upnp_posture look at the data again, not at
\* the status.  For the VPN an inventory always has a dictionary of the two
\* parts, each a list or nothing, and that is all vpn_posture asks for.  (UPnP
\* calls "unsupported" what is "unavailable" here.)
Posture(section) ==
    IF section = "vpn" THEN "collected and analyzed"
    ELSE CASE outcome[section] = "unavailable" -> "unavailable"
           [] outcome[section] = "empty" -> "collected, empty"
           [] OTHER -> "collected and analyzed"
Sections == {"vpn", "upnp_exposure", "ids_ips"}

\* Of the lines on what is not known analyze_inventory drops the one on the VPN
\* and the one on UPnP where the section was collected; the others stay.
Unknowns == {section \in {"vpn", "upnp_exposure"} : Posture(section) = "unavailable"}

\* The network section takes an unavailable dataset for a list.
Aborts(scope) == scope \in {"all", "network"} /\ outcome["networks"] = "unavailable"

Summarised(scope) == scope \in {"all", "firewall"} /\ ev.policies # <<>>

Analysis(scope) ==
    [kind     |-> "report",
     coverage |-> [d \in Names \cap Labelled |-> Coverage(d)],
     vpn      |-> VpnCoverage,
     postures |-> [section \in Sections |-> Posture(section)],
     unknowns |-> Unknowns,
     rows     |-> [r \in IF Summarised(scope) THEN Relationships ELSE {} |->
                      Row(ev, r[1], r[2])],
     gateway  |-> [n \in IF Summarised(scope) THEN ToGateway ELSE {} |->
                      GatewayRow(ev, n)]]

Analyze ==
    /\ pc = "analyze"
    /\ \E scope \in Scopes :
         report' = IF Aborts(scope) THEN [kind |-> "aborted"] ELSE Analysis(scope)
    /\ pc' = "done"
    /\ UNCHANGED <<controller, site, outcome, ev>>

Next == Discover \/ DiscoveryStops \/ Collect \/ Analyze

Spec == Init /\ [][Next]_vars

-----------------------------------------------------------------------------
(* Properties. *)

TypeOK ==
    /\ pc \in {"discover", "collect", "analyze", "done", "stopped"}
    /\ site \in controller.sites \cup {NoSite}
    /\ DOMAIN outcome \subseteq Names /\ \A d \in DOMAIN outcome : outcome[d] \in Outcomes
    /\ ev.networks \subseteq Networks /\ ev.zones \subseteq Zones
    /\ Len(ev.policies) <= Len(controller.policies)
    /\ report.kind \in {"none", "report", "aborted"}

Reported == report.kind = "report"

\* Everything the segmentation rests on was collected, and whole.
WholeEvidence ==
    \A d \in {"networks", "firewall_zones", "firewall_policies"} :
        outcome[d] = "records"

\* The policies of two zones have only scopes the summary understands.
Understood(from, to) ==
    \A i \in DOMAIN controller.policies :
        LET p == controller.policies[i]
        IN  (p.enabled /\ p.from = from /\ p.to = to) =>
                Plain(p.source) /\ Plain(p.destination)

Between(r) == Traffic(Hosts[r[1]], Hosts[r[2]])

AllHave(r, action) ==
    \A packet \in Between(r) :
        Fate(controller.policies, ZoneOf[r[1]], ZoneOf[r[2]], packet, action)

\* Where the policies of the two zones have only scopes the summary understands,
\* a row that says ALLOWED or BLOCKED is true of every packet between the two
\* networks, as the firewall of the controller decides it by order, scope,
\* protocol and state (segmentation_summary, on what collect_inventory found).
\* Where a scope means all but what it lists, has ports beside its addresses or
\* a block of a part of a network, a row may be false.
ClaimsAreTrue ==
    (Reported /\ WholeEvidence) =>
        \A r \in DOMAIN report.rows :
            Understood(ZoneOf[r[1]], ZoneOf[r[2]]) =>
                /\ report.rows[r] = "ALLOWED" => AllHave(r, "ALLOW")
                /\ report.rows[r] = "BLOCKED" => AllHave(r, "BLOCK")

\* Where the policies have only scopes the summary understands and none is about
\* a part of the traffic, the summary finds out what holds for all of it: it
\* never hides an open or a closed path behind UNKNOWN or LIMITED.
ClearCasesAreDecided ==
    (Reported /\ WholeEvidence) =>
        \A r \in DOMAIN report.rows :
            (/\ Understood(ZoneOf[r[1]], ZoneOf[r[2]])
             /\ \A i \in Applicable(ev, r[1], r[2]) : ~Limited(ev.policies[i])) =>
                /\ AllHave(r, "ALLOW") => report.rows[r] = "ALLOWED"
                /\ AllHave(r, "BLOCK") => report.rows[r] = "BLOCKED"

\* Towards the gateway ALLOWED and BLOCKED are true of every packet whatever
\* the scopes are, unless a policy of these zones refuses by REJECT, which the
\* gateway rows take now for BLOCK and now for nothing (segmentation_summary).
GatewayClaimsAreTrue ==
    (Reported /\ WholeEvidence) =>
        \A n \in DOMAIN report.gateway :
            LET packets == Traffic(Hosts[n], {Gateway})
                policies == controller.policies
                zone == ZoneOf[n]
                always(action) == \A packet \in packets :
                    /\ Deciding(policies, zone, Gateway, packet) # {}
                    /\ \A other \in Actions \ {action} :
                           ~Fate(policies, zone, Gateway, packet, other)
                rejects == \E i \in DOMAIN policies :
                    /\ policies[i].enabled /\ policies[i].action = "REJECT"
                    /\ policies[i].from = zone /\ policies[i].to = Gateway
            IN  rejects
                \/ /\ report.gateway[n] = "ALLOWED" => always("ALLOW")
                   /\ report.gateway[n] = "BLOCKED" => always("BLOCK")

\* A dataset with a line of its own in the coverage is never called analyzed or
\* empty there when it was read in part or not at all, and the sections on UPnP
\* and IDS/IPS and the list of unknowns say the same of it, although they look
\* at the data and the coverage at the status.  The line of the VPN stands for
\* two datasets; see VpnPartsAreDistinguished and VpnUnavailableIsNamed.
DatasetGapsAreNamed ==
    Reported =>
        /\ \A d \in DOMAIN report.coverage : outcome[d] \in {"partial", "unavailable"} =>
             report.coverage[d] \notin {"collected and analyzed", "collected, empty"}
        /\ \A d \in {"upnp_exposure", "ids_ips"} :
             /\ report.postures[d] = "unavailable" <=>
                    report.coverage[d] = "unsupported/unavailable"
             /\ report.postures[d] = "collected, empty" <=>
                    report.coverage[d] = "collected, empty"
        /\ "upnp_exposure" \in report.unknowns <=>
             report.coverage["upnp_exposure"] = "unsupported/unavailable"

\* Coverage tells what was analyzed from what is unavailable: the VPN is not
\* called analyzed when one of its two datasets could not be had (README.md).
\* The code waits for both to be missing: VpnPartMissing.cfg refutes this.
VpnPartsAreDistinguished ==
    (Reported /\ \E d \in VpnParts : outcome[d] = "unavailable") =>
        report.vpn # "collected and analyzed"

\* The VPN posture is unavailable, and listed as unknown, unless a VPN dataset
\* was collected.
VpnUnavailableIsNamed ==
    (Reported /\ \A d \in VpnParts : outcome[d] = "unavailable") =>
        report.postures["vpn"] = "unavailable" /\ "vpn" \in report.unknowns

\* Without the networks nothing is claimed about them, although zones and
\* policies are known.
NothingSaidWithoutNetworks ==
    (Reported /\ outcome["networks"] # "records" /\ outcome["firewall_zones"] = "records") =>
        /\ \A r \in DOMAIN report.rows : report.rows[r] = "UNKNOWN"
        /\ \A n \in DOMAIN report.gateway : report.gateway[n] = "UNKNOWN"

\* Evidence that cannot be resolved gives UNKNOWN: without the zones no
\* relationship is ALLOWED, BLOCKED or LIMITED.
UnresolvedIsUnknown ==
    (Reported /\ outcome["firewall_zones"] = "unavailable") =>
        \A r \in DOMAIN report.rows : report.rows[r] = "UNKNOWN"
=============================================================================
