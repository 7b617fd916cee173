---------------------------- MODULE AuditProofs ----------------------------
(***************************************************************************)
(* What a report says, for every configuration, whatever the inventory     *)
(* could not read.                                                         *)
(***************************************************************************)
EXTENDS Audit, SegmentationProofs

\* What is known of the evidence while it is gathered: a dataset said to be
\* there is there whole, and nothing comes from one that is not.
EvidenceIsWhatWasRead ==
    /\ DOMAIN outcome \subseteq Names
    /\ \A d \in DOMAIN outcome : outcome[d] \in Outcomes
    /\ ev \in [networks : SUBSET Networks, zones : SUBSET Zones,
               policies : Seq(Policies)]
    /\ Len(ev.policies) <= Len(controller.policies)
    /\ ("networks" \in DOMAIN outcome /\ outcome["networks"] = "records") =>
           ev.networks = Networks
    /\ ("networks" \notin DOMAIN outcome \/ outcome["networks"] # "records") =>
           ev.networks = {}
    /\ ("firewall_zones" \in DOMAIN outcome /\ outcome["firewall_zones"] = "records") =>
           ev.zones = Zones
    /\ ("firewall_policies" \in DOMAIN outcome /\ outcome["firewall_policies"] = "records") =>
           ev.policies = controller.policies

\* The report is made of that evidence, once everything was read.
ReportIsOfTheEvidence ==
    /\ pc \in {"discover", "collect", "analyze", "done", "stopped"}
    /\ pc \in {"analyze", "done"} => DOMAIN outcome = Names
    /\ pc # "done" => report = NoReport
    /\ pc = "done" => \/ report = [kind |-> "aborted"]
                      \/ \E scope \in Scopes : report = Analysis(scope)

IInv ==
    /\ controller \in Configurations
    /\ site \in controller.sites \cup {NoSite}
    /\ EvidenceIsWhatWasRead
    /\ ReportIsOfTheEvidence

LEMMA InitInvariant == Init => IInv
<1> SUFFICES ASSUME Init PROVE IInv
  OBVIOUS
<1> USE DEF Init
<1>1. <<>> \in Seq(Policies) /\ Len(<<>>) = 0
  OBVIOUS
<1>2. controller.policies \in Seq(Policies)
  BY ConfigurationAssumption
<1>3. DOMAIN outcome = {}
  OBVIOUS
<1>4. EvidenceIsWhatWasRead
  BY <1>1, <1>2, <1>3 DEF EvidenceIsWhatWasRead
<1>5. ReportIsOfTheEvidence
  BY DEF ReportIsOfTheEvidence
<1>6. QED
  BY <1>4, <1>5 DEF IInv

\* A read keeps the evidence what was read.
LEMMA CollectKeepsEvidence ==
  ASSUME IInv, Collect
  PROVE  EvidenceIsWhatWasRead'
<1>1. PICK d \in Due : \E o \in Possible(d) :
        /\ ev' \in Gathered(d, o)
        /\ outcome' = [x \in DOMAIN outcome \cup {d} |->
                          IF x = d THEN o ELSE outcome[x]]
  BY DEF Collect
<1>2. PICK o \in Possible(d) :
        /\ ev' \in Gathered(d, o)
        /\ outcome' = [x \in DOMAIN outcome \cup {d} |->
                          IF x = d THEN o ELSE outcome[x]]
  BY <1>1
<1>3. /\ d \in Names /\ d \notin DOMAIN outcome /\ o \in Outcomes
      /\ controller' = controller
  BY <1>1 DEF Due, Possible, Collect
<1>4. /\ DOMAIN outcome' = DOMAIN outcome \cup {d}
      /\ outcome'[d] = o
      /\ \A x \in DOMAIN outcome : outcome'[x] = outcome[x]
  BY <1>2, <1>3
<1>5. controller.policies \in Seq(Policies)
  BY ConfigurationAssumption DEF IInv
<1> DEFINE networks == d = "networks" /\ o = "records"
           zones == d = "firewall_zones" /\ o = "records"
           policies == d = "firewall_policies" /\ o = "records"
<1>6. CASE networks
  <2>1. ev' = [ev EXCEPT !.networks = Networks]
    BY <1>2, <1>6 DEF Gathered
  <2>2. QED
    BY <1>3, <1>4, <1>6, <2>1 DEF IInv, EvidenceIsWhatWasRead
<1>7. CASE zones
  <2>1. ev' = [ev EXCEPT !.zones = Zones]
    BY <1>2, <1>7 DEF Gathered
  <2>2. QED
    BY <1>3, <1>4, <1>7, <2>1 DEF IInv, EvidenceIsWhatWasRead
<1>8. CASE d = "firewall_zones" /\ o = "partial"
  <2>1. PICK some \in SUBSET Zones : ev' = [ev EXCEPT !.zones = some]
    BY <1>2, <1>8 DEF Gathered
  <2>2. QED
    BY <1>3, <1>4, <1>8, <2>1 DEF IInv, EvidenceIsWhatWasRead
<1>9. CASE policies
  <2>1. ev' = [ev EXCEPT !.policies = controller.policies]
    BY <1>2, <1>9 DEF Gathered
  <2>2. QED
    BY <1>3, <1>4, <1>5, <1>9, <2>1 DEF IInv, EvidenceIsWhatWasRead
<1>10. CASE d = "firewall_policies" /\ o = "partial"
  <2>1. PICK n \in 1 .. Len(controller.policies) - 1 :
            ev' = [ev EXCEPT !.policies = SubSeq(controller.policies, 1, n)]
    BY <1>2, <1>10 DEF Gathered
  <2>2. /\ SubSeq(controller.policies, 1, n) \in Seq(Policies)
        /\ Len(SubSeq(controller.policies, 1, n)) <= Len(controller.policies)
    BY <1>5
  <2>3. QED
    BY <1>3, <1>4, <1>10, <2>1, <2>2 DEF IInv, EvidenceIsWhatWasRead
<1>11. CASE ~networks /\ o # "records" /\ d \notin {"firewall_zones", "firewall_policies"}
  BY <1>2, <1>3, <1>4, <1>11 DEF Gathered, IInv, EvidenceIsWhatWasRead
<1>12. CASE d \notin {"networks", "firewall_zones", "firewall_policies"}
  BY <1>2, <1>3, <1>4, <1>12 DEF Gathered, IInv, EvidenceIsWhatWasRead
<1>13. CASE d \in {"firewall_zones", "firewall_policies"} /\ o \in {"empty", "unavailable"}
  BY <1>2, <1>3, <1>4, <1>13 DEF Gathered, IInv, EvidenceIsWhatWasRead
<1>14. QED
  BY <1>3, <1>6, <1>7, <1>8, <1>9, <1>10, <1>11, <1>12, <1>13 DEF Outcomes

LEMMA NextInvariant == IInv /\ [Next]_vars => IInv'
<1> SUFFICES ASSUME IInv, [Next]_vars PROVE IInv'
  OBVIOUS
<1>1. CASE Discover
  <2>1. pc = "discover" /\ pc' = "collect" /\ site' \in controller.sites
    BY <1>1 DEF Discover, Selectable
  <2>2. UNCHANGED <<controller, outcome, ev, report>>
    BY <1>1 DEF Discover
  <2>3. QED
    BY <2>1, <2>2 DEF IInv, EvidenceIsWhatWasRead, ReportIsOfTheEvidence
<1>2. CASE DiscoveryStops
  BY <1>2 DEF DiscoveryStops, IInv, EvidenceIsWhatWasRead, ReportIsOfTheEvidence
<1>3. CASE Collect
  <2>1. EvidenceIsWhatWasRead'
    BY <1>3, CollectKeepsEvidence
  <2>2. /\ pc = "collect" /\ pc' \in {"collect", "analyze"}
        /\ pc' = "analyze" => DOMAIN outcome' = Names
        /\ UNCHANGED <<controller, site, report>>
    BY <1>3 DEF Collect
  <2>3. QED
    BY <2>1, <2>2 DEF IInv, ReportIsOfTheEvidence
<1>4. CASE Analyze
  <2>1. /\ pc = "analyze" /\ pc' = "done"
        /\ UNCHANGED <<controller, site, outcome, ev>>
    BY <1>4 DEF Analyze
  <2>2. EvidenceIsWhatWasRead'
    BY <2>1 DEF IInv, EvidenceIsWhatWasRead
  <2>3. PICK scope \in Scopes :
            report' = [kind |-> "aborted"] \/ report' = Analysis(scope)
    BY <1>4 DEF Analyze
  <2>4. Analysis(scope)' = Analysis(scope)
    BY <2>1 DEF Analysis, Coverage, VpnCoverage, Posture, Unknowns, Summarised
  <2>5. QED
    BY <2>1, <2>2, <2>3, <2>4 DEF IInv, ReportIsOfTheEvidence
<1>5. CASE UNCHANGED vars
  <2>1. EvidenceIsWhatWasRead'
    BY <1>5 DEF vars, IInv, EvidenceIsWhatWasRead
  <2>2. \A scope : Analysis(scope)' = Analysis(scope)
    BY <1>5
    DEF vars, Analysis, Coverage, VpnCoverage, Posture, Unknowns, Summarised
  <2>3. QED
    BY <1>5, <2>1, <2>2 DEF vars, IInv, ReportIsOfTheEvidence
<1>6. QED
  BY <1>1, <1>2, <1>3, <1>4, <1>5 DEF Next

\* The inductive invariant: evidence and report stay true to what was read.
THEOREM EvidenceInvariant == Spec => []IInv
<1>1. QED
  BY InitInvariant, NextInvariant, PTL DEF Spec

-----------------------------------------------------------------------------
(* What the report says. *)

\* A report is of a scope, and everything was read or found missing before it.
LEMMA ReportedAnalysis ==
  ASSUME IInv, Reported
  PROVE  /\ pc = "done" /\ DOMAIN outcome = Names
         /\ \E scope \in Scopes : report = Analysis(scope)
<1>1. pc = "done"
  BY DEF IInv, ReportIsOfTheEvidence, Reported, NoReport
<1>2. report # [kind |-> "aborted"]
  BY DEF Reported
<1>3. QED
  BY <1>1, <1>2 DEF IInv, ReportIsOfTheEvidence

LEMMA ReportedRows ==
  ASSUME IInv, Reported
  PROVE  /\ DOMAIN report.rows \subseteq Networks \X Networks
         /\ \A r \in DOMAIN report.rows : report.rows[r] = Row(ev, r[1], r[2])
         /\ DOMAIN report.gateway \subseteq Networks
         /\ \A n \in DOMAIN report.gateway : report.gateway[n] = GatewayRow(ev, n)
<1>1. PICK scope \in Scopes : report = Analysis(scope)
  BY ReportedAnalysis
<1>2. /\ report.rows = [r \in IF Summarised(scope) THEN Relationships ELSE {} |->
                           Row(ev, r[1], r[2])]
      /\ report.gateway = [n \in IF Summarised(scope) THEN ToGateway ELSE {} |->
                              GatewayRow(ev, n)]
  BY <1>1 DEF Analysis
<1>3. QED
  BY <1>2, RowAssumption

\* The word for a network whose packets all have this action.
Said(action) == IF action = "ALLOW" THEN "ALLOWED" ELSE "BLOCKED"

\* The parts of GatewayClaimsAreTrue.
Rejects(n) ==
    \E i \in DOMAIN controller.policies :
        /\ controller.policies[i].enabled /\ controller.policies[i].action = "REJECT"
        /\ controller.policies[i].from = ZoneOf[n] /\ controller.policies[i].to = Gateway
Undisputed(n, action) ==
    \A packet \in Traffic(Hosts[n], {Gateway}) :
        /\ Deciding(controller.policies, ZoneOf[n], Gateway, packet) # {}
        /\ \A other \in Actions \ {action} :
               ~Fate(controller.policies, ZoneOf[n], Gateway, packet, other)

LEMMA WholeEvidenceIsWhole ==
  ASSUME IInv, Reported, WholeEvidence
  PROVE  Whole(ev, controller.policies)
<1>1. {"networks", "firewall_zones", "firewall_policies"} \subseteq DOMAIN outcome
  BY ReportedAnalysis, DatasetAssumption
<1>2. controller.policies \in Seq(Policies)
  BY ConfigurationAssumption DEF IInv
<1>3. QED
  BY <1>1, <1>2 DEF WholeEvidence, Whole, IInv, EvidenceIsWhatWasRead

\* Types: the states of the audit and what was collected.
THEOREM TypeCorrect == Spec => []TypeOK
<1>1. IInv => TypeOK
  <2>1. ASSUME IInv PROVE report.kind \in {"none", "report", "aborted"}
    <3>1. CASE pc = "done"
      BY <2>1, <3>1 DEF IInv, ReportIsOfTheEvidence, Analysis
    <3>2. CASE pc # "done"
      BY <2>1, <3>2 DEF IInv, ReportIsOfTheEvidence, NoReport
    <3>3. QED
      BY <3>1, <3>2
  <2>2. QED
    BY <2>1 DEF IInv, EvidenceIsWhatWasRead, ReportIsOfTheEvidence, TypeOK
<1>2. QED
  BY <1>1, EvidenceInvariant, PTL

\* What a row says holds for every packet of the relationship: of whatever
\* networks, addresses and policy table (segmentation_summary).
THEOREM TrueClaims == Spec => []ClaimsAreTrue
<1>1. IInv => ClaimsAreTrue
  <2>1. SUFFICES ASSUME IInv, Reported, WholeEvidence,
                        NEW r \in DOMAIN report.rows,
                        Understood(ZoneOf[r[1]], ZoneOf[r[2]])
                 PROVE  \A action \in {"ALLOW", "BLOCK"} :
                            report.rows[r] = Said(action) => AllHave(r, action)
    BY Zenon DEF ClaimsAreTrue, Said
  <2>2. /\ Whole(ev, controller.policies)
        /\ r[1] \in Networks /\ r[2] \in Networks
        /\ report.rows[r] = Row(ev, r[1], r[2])
    BY <2>1, ReportedRows, WholeEvidenceIsWhole
  <2>3. PlainBetween(controller.policies, ZoneOf[r[1]], ZoneOf[r[2]])
    BY <2>1 DEF Understood, PlainBetween
  <2>4. QED
    BY <2>2, <2>3, RowIsTrue DEF AllHave, Between, Said
<1>2. QED
  BY <1>1, EvidenceInvariant, PTL

\* What holds for every packet is said, where no policy is about a part of the
\* traffic (segmentation_summary).
THEOREM CompleteClaims == Spec => []ClearCasesAreDecided
<1>1. IInv => ClearCasesAreDecided
  <2>1. SUFFICES ASSUME IInv, Reported, WholeEvidence,
                        NEW r \in DOMAIN report.rows,
                        Understood(ZoneOf[r[1]], ZoneOf[r[2]]),
                        \A i \in Applicable(ev, r[1], r[2]) : ~Limited(ev.policies[i]),
                        NEW action \in {"ALLOW", "BLOCK"}, AllHave(r, action)
                 PROVE  report.rows[r] = Said(action)
    BY Zenon DEF ClearCasesAreDecided, Said
  <2>2. /\ Whole(ev, controller.policies)
        /\ r[1] \in Networks /\ r[2] \in Networks
        /\ report.rows[r] = Row(ev, r[1], r[2])
    BY <2>1, ReportedRows, WholeEvidenceIsWhole
  <2>3. PlainBetween(controller.policies, ZoneOf[r[1]], ZoneOf[r[2]])
    BY <2>1 DEF Understood, PlainBetween
  <2>4. \A packet \in Traffic(Hosts[r[1]], Hosts[r[2]]) :
            Fate(controller.policies, ZoneOf[r[1]], ZoneOf[r[2]], packet, action)
    BY <2>1 DEF AllHave, Between
  <2>5. \A i \in Applicable(ev, r[1], r[2]) : ~Limited(controller.policies[i])
    BY <2>1, <2>2 DEF Whole
  <2>6. QED
    BY <2>2, <2>3, <2>4, <2>5, RowIsComplete DEF Said
<1>2. QED
  BY <1>1, EvidenceInvariant, PTL

\* What a gateway row says is contradicted by no packet, if nothing is refused
\* by REJECT (segmentation_summary).
THEOREM TrueGatewayClaims == Spec => []GatewayClaimsAreTrue
<1>1. IInv => GatewayClaimsAreTrue
  <2>1. SUFFICES ASSUME IInv, Reported, WholeEvidence,
                        NEW n \in DOMAIN report.gateway,
                        ~Rejects(n)
                 PROVE  /\ report.gateway[n] = "ALLOWED" => Undisputed(n, "ALLOW")
                        /\ report.gateway[n] = "BLOCKED" => Undisputed(n, "BLOCK")
    BY Zenon DEF GatewayClaimsAreTrue, Rejects, Undisputed
  <2>2. /\ Whole(ev, controller.policies) /\ n \in Networks
        /\ report.gateway[n] = GatewayRow(ev, n)
    BY <2>1, ReportedRows, WholeEvidenceIsWhole
  <2>3. ASSUME NEW action \in {"ALLOW", "BLOCK"}, report.gateway[n] = Said(action)
        PROVE  Undisputed(n, action)
    <3>1. Actions \ {action} # {}
      BY DEF Actions
    <3>2. QED
      BY <2>1, <2>2, <2>3, <3>1, GatewayRowIsTrue DEF Undisputed, Rejects, Said
  <2>4. QED
    BY <2>3 DEF Said
<1>2. QED
  BY <1>1, EvidenceInvariant, PTL

\* Nothing is said of networks that were not collected, whatever is known of
\* zones and policies (segmentation_summary after a failed read).
THEOREM SilentWithoutNetworks == Spec => []NothingSaidWithoutNetworks
<1>1. IInv => NothingSaidWithoutNetworks
  <2>1. SUFFICES ASSUME IInv, Reported, outcome["networks"] # "records",
                        outcome["firewall_zones"] = "records"
                 PROVE  /\ \A r \in DOMAIN report.rows : report.rows[r] = "UNKNOWN"
                        /\ \A n \in DOMAIN report.gateway : report.gateway[n] = "UNKNOWN"
    BY DEF NothingSaidWithoutNetworks
  <2>2. {"networks", "firewall_zones"} \subseteq DOMAIN outcome
    BY <2>1, ReportedAnalysis, DatasetAssumption
  <2>3. ev.networks = {} /\ ev.zones = Zones /\ ev.policies \in Seq(Policies)
    BY <2>1, <2>2 DEF IInv, EvidenceIsWhatWasRead
  <2>4. QED
    <3>1. \A from, to : Row(ev, from, to) = "UNKNOWN" /\ GatewayRow(ev, from) = "UNKNOWN"
      BY <2>3, NothingMatchesNothing
    <3>2. QED
      BY <2>1, <3>1, ReportedRows
<1>2. QED
  BY <1>1, EvidenceInvariant, PTL

\* Whatever dataset with a line of its own in the coverage could not be read, the
\* line says so, and the sections on UPnP and IDS/IPS agree with it (coverage,
\* upnp_posture, ids_ips_posture, analyze_inventory).  Not the VPN.
THEOREM NamedDatasetGaps == Spec => []DatasetGapsAreNamed
<1>1. IInv => DatasetGapsAreNamed
  <2>1. SUFFICES ASSUME IInv, Reported PROVE DatasetGapsAreNamed
    BY DEF DatasetGapsAreNamed
  <2>2. PICK scope \in Scopes : report = Analysis(scope)
    BY <2>1, ReportedAnalysis
  <2>3. /\ DOMAIN outcome = Names
        /\ \A d \in Names : outcome[d] \in {"records", "empty", "partial", "unavailable"}
    BY <2>1, ReportedAnalysis DEF IInv, EvidenceIsWhatWasRead, Outcomes
  <2>4. /\ report.coverage = [d \in Names \cap Labelled |-> Coverage(d)]
        /\ report.unknowns = Unknowns
        /\ report.postures = [section \in Sections |-> Posture(section)]
    BY <2>2 DEF Analysis
  <2>5. {"upnp_exposure", "ids_ips"} \subseteq Names \cap Labelled
    BY DatasetAssumption DEF Labelled, Analyzed
  <2>6. ASSUME NEW d \in DOMAIN report.coverage, outcome[d] \in {"partial", "unavailable"}
        PROVE  report.coverage[d] \notin {"collected and analyzed", "collected, empty"}
    BY <2>4, <2>6 DEF Coverage
  <2>7. ASSUME NEW d \in {"upnp_exposure", "ids_ips"}
        PROVE  /\ report.coverage[d] = Coverage(d) /\ report.postures[d] = Posture(d)
               /\ Posture(d) = "unavailable" <=> Coverage(d) = "unsupported/unavailable"
               /\ Posture(d) = "collected, empty" <=> Coverage(d) = "collected, empty"
    <3>1. outcome[d] \in {"records", "empty", "partial", "unavailable"}
      BY <2>3, <2>5
    <3>2. d # "vpn"
      OBVIOUS
    <3>3. QED
      BY <2>4, <2>5, <3>1, <3>2 DEF Coverage, Posture, Sections
  <2>8. "upnp_exposure" \in report.unknowns <=> Posture("upnp_exposure") = "unavailable"
    BY <2>4 DEF Unknowns
  <2>9. QED
    BY <2>6, <2>7, <2>8 DEF DatasetGapsAreNamed
<1>2. QED
  BY <1>1, EvidenceInvariant, PTL
=============================================================================
