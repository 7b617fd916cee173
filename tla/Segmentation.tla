---------------------------- MODULE Segmentation ----------------------------
(***************************************************************************)
(* What the audit says of the traffic between two networks                 *)
(* (auditlib/firewall.py), next to what the zone firewall does with every  *)
(* packet of it.                                                           *)
(*                                                                         *)
(* The evidence is what was collected: networks, zones and the policies in *)
(* the order they were listed in.  A policy names two zones, restricts     *)
(* each side with a scope and is narrow if it is about one protocol or     *)
(* some connection states only.  A scope has a type, the networks, address *)
(* blocks or ports it lists, and may mean everything but these.            *)
(***************************************************************************)
EXTENDS Naturals, Sequences

CONSTANTS
    Networks,      \* the networks of the relationships
    Zones,
    Gateway,       \* the zone of the gateway itself
    ZoneOf,        \* each network's zone
    Hosts,         \* each network's addresses
    Ports,         \* what a port, application or device filter tells apart
    Unresolved     \* the zone of what cannot be looked up: "unknown"

ASSUME ZoneAssumption ==
    /\ ZoneOf \in [Networks -> Zones]
    /\ Gateway \in Zones /\ Unresolved \notin Zones
ASSUME HostAssumption ==
    /\ \A n \in Networks : Hosts[n] # {}
    /\ \A m, n \in Networks : m # n => Hosts[m] \cap Hosts[n] = {}
ASSUME PortAssumption == Ports # {}

Actions == {"ALLOW", "BLOCK", "REJECT"}
States == {"ALLOWED", "BLOCKED", "LIMITED", "UNKNOWN"}
Limiting == {"PORT", "APPLICATION", "MAC_ADDRESS"}
ScopeTypes == {"ANY", "NETWORK", "IP_ADDRESS"} \cup Limiting

Blocks == (SUBSET UNION {Hosts[n] : n \in Networks}) \ {{}}
TrafficFilters ==
    [type : ScopeTypes, networks : SUBSET Networks, blocks : SUBSET Blocks,
     ports : SUBSET Ports, opposite : BOOLEAN]
Policies ==
    [action : Actions, enabled : BOOLEAN, from : Zones, to : Zones,
     source : TrafficFilters, destination : TrafficFilters,
     narrow : BOOLEAN, index : Nat]

-----------------------------------------------------------------------------
(* Looking up what was collected (_network_maps, zone_networks). *)

ZoneName(ev, z) == IF z \in ev.zones THEN z ELSE Unresolved

\* Mutation of NetworkZone: what is not among the networks has a zone, too.
NetworkZoneAnyway(ev, n) == ZoneName(ev, ZoneOf[n])

NetworkZone(ev, n) ==
    IF n \in ev.networks THEN ZoneName(ev, ZoneOf[n]) ELSE Unresolved

\* normalize_policies sorts by index and keeps the listed order of equals.
Before(policies, i, j) ==
    \/ policies[i].index < policies[j].index
    \/ policies[i].index = policies[j].index /\ i < j

\* The first of these policies does this.
FirstHas(policies, places, action) ==
    \E i \in places : /\ policies[i].action = action
                      /\ \A j \in places \ {i} : Before(policies, i, j)

-----------------------------------------------------------------------------
(* The rows of the summary. *)

\* _scope_applies: whether a scope can concern a network at all...
Applies(ev, scope, n) ==
    \/ scope.type \in {"ANY"} \cup Limiting
    \/ scope.type = "NETWORK" /\ n \in ev.networks \cap scope.networks
    \/ /\ scope.type = "IP_ADDRESS" /\ n \in ev.networks
       /\ \E block \in scope.blocks :
              Hosts[n] \subseteq block \/ block \subseteq Hosts[n]

\* Mutation of Limited: protocol and connection states do not count.
LimitedByScope(p) == p.source.type \in Limiting \/ p.destination.type \in Limiting

\* ...and whether a policy that does settles only part of the traffic.
Limited(p) ==
    \/ p.source.type \in Limiting \/ p.destination.type \in Limiting
    \/ p.narrow

\* Mutation of Applicable: a disabled policy counts.
ApplicableAny(ev, from, to) ==
    {i \in DOMAIN ev.policies :
        LET p == ev.policies[i]
        IN  /\ ZoneName(ev, p.from) = NetworkZone(ev, from)
            /\ ZoneName(ev, p.to) = NetworkZone(ev, to)
            /\ Applies(ev, p.source, from) /\ Applies(ev, p.destination, to)}

Applicable(ev, from, to) ==
    {i \in DOMAIN ev.policies :
        LET p == ev.policies[i]
        IN  /\ p.enabled
            /\ ZoneName(ev, p.from) = NetworkZone(ev, from)
            /\ ZoneName(ev, p.to) = NetworkZone(ev, to)
            /\ Applies(ev, p.source, from) /\ Applies(ev, p.destination, to)}

\* segmentation_summary: the first conclusive policy decides, a limited one
\* before it leaves the row LIMITED, and nothing conclusive leaves it UNKNOWN.
Row(ev, from, to) ==
    LET candidates == Applicable(ev, from, to)
        conclusive == {i \in candidates : ~Limited(ev.policies[i])}
        exception == \E i \in candidates \ conclusive :
                         \A j \in conclusive : Before(ev.policies, i, j)
    IN  CASE conclusive = {} -> "UNKNOWN"
          [] conclusive # {} /\ exception -> "LIMITED"
          [] conclusive # {} /\ ~exception ->
               IF FirstHas(ev.policies, conclusive, "ALLOW") THEN "ALLOWED"
               ELSE IF FirstHas(ev.policies, conclusive, "BLOCK") THEN "BLOCKED"
               ELSE "UNKNOWN"

Broad(p) ==
    p.source.type = "ANY" /\ p.destination.type = "ANY" /\ ~p.narrow

ToZone(ev, from, zone) ==
    {i \in DOMAIN ev.policies :
        /\ ev.policies[i].enabled
        /\ ZoneName(ev, ev.policies[i].from) = NetworkZone(ev, from)
        /\ ZoneName(ev, ev.policies[i].to) = zone}

\* Mutation of GatewayRow: the first policy about everything decides.
GatewayRowOfBroad(ev, from) ==
    LET candidates == ToZone(ev, from, Gateway)
        broad == {i \in candidates : Broad(ev.policies[i])}
    IN  CASE candidates = {} -> "UNKNOWN"
          [] candidates # {} /\ broad = {} -> "LIMITED"
          [] broad # {} -> IF FirstHas(ev.policies, broad, "ALLOW") THEN "ALLOWED"
                           ELSE "BLOCKED"

\* The row of a network towards the gateway: by zones alone, and only a policy
\* about everything is conclusive.
GatewayRow(ev, from) ==
    LET candidates == ToZone(ev, from, Gateway)
        broad == {i \in candidates : Broad(ev.policies[i])}
        exception(action) == \E i \in candidates \ broad :
            /\ ev.policies[i].action = action
            /\ \A j \in broad : Before(ev.policies, i, j)
    IN  CASE candidates = {} -> "UNKNOWN"
          [] candidates # {} /\ broad = {} -> "LIMITED"
          [] broad # {} /\ FirstHas(ev.policies, broad, "ALLOW") ->
               IF exception("BLOCK") THEN "LIMITED" ELSE "ALLOWED"
          [] broad # {} /\ ~FirstHas(ev.policies, broad, "ALLOW") ->
               IF exception("ALLOW") /\ ~FirstHas(ev.policies, broad, "REJECT")
               THEN "LIMITED" ELSE "BLOCKED"

-----------------------------------------------------------------------------
(* What the firewall does: the first enabled policy of the two zones that  *)
(* matches a packet decides its fate.                                      *)

\* A special packet is one a narrow policy can be about.
Traffic(sources, destinations) ==
    [source : sources, destination : destinations, port : Ports, special : BOOLEAN]

Covers(scope, host, port) ==
    \/ scope.type = "ANY"
    \/ /\ scope.type = "NETWORK"
       /\ (\E n \in scope.networks : host \in Hosts[n]) <=> ~scope.opposite
       /\ scope.ports = {} \/ port \in scope.ports
    \/ /\ scope.type = "IP_ADDRESS"
       /\ (\E block \in scope.blocks : host \in block) <=> ~scope.opposite
       /\ scope.ports = {} \/ port \in scope.ports
    \/ /\ scope.type \in Limiting
       /\ port \in scope.ports <=> ~scope.opposite

Deciding(policies, from, to, packet) ==
    {i \in DOMAIN policies :
        LET p == policies[i]
        IN  /\ p.enabled /\ p.from = from /\ p.to = to
            /\ Covers(p.source, packet.source, packet.port)
            /\ Covers(p.destination, packet.destination, packet.port)
            /\ p.narrow => packet.special}

Fate(policies, from, to, packet, action) ==
    FirstHas(policies, Deciding(policies, from, to, packet), action)

\* Scopes that mean what the summary takes them for: they list what they
\* apply to, no part of a network alone, and no ports besides.
Plain(scope) ==
    scope.type \notin Limiting \cup {"ANY"} =>
        /\ ~scope.opposite /\ scope.ports = {}
        /\ \A block \in scope.blocks, n \in Networks :
             Hosts[n] \subseteq block \/ Hosts[n] \cap block = {}
=============================================================================
