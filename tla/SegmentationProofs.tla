------------------------- MODULE SegmentationProofs -------------------------
(***************************************************************************)
(* The rows of the segmentation summary against the firewall, for all      *)
(* networks, zones, addresses and policy tables of any length.             *)
(***************************************************************************)
EXTENDS Segmentation, TLAPS

\* The evidence an inventory without gaps has.
Whole(ev, policies) ==
    /\ ev.networks = Networks /\ ev.zones = Zones
    /\ ev.policies = policies /\ policies \in Seq(Policies)

\* Every enabled policy of two zones has scopes the summary understands.
PlainBetween(policies, from, to) ==
    \A i \in DOMAIN policies :
        (policies[i].enabled /\ policies[i].from = from /\ policies[i].to = to) =>
            Plain(policies[i].source) /\ Plain(policies[i].destination)

\* The fields of a policy in a table.
LEMMA PolicyFields ==
  ASSUME NEW policies \in Seq(Policies), NEW i \in DOMAIN policies
  PROVE  /\ policies[i].action \in Actions /\ policies[i].enabled \in BOOLEAN
         /\ policies[i].from \in Zones /\ policies[i].to \in Zones
         /\ policies[i].source \in TrafficFilters
         /\ policies[i].destination \in TrafficFilters
         /\ policies[i].narrow \in BOOLEAN /\ policies[i].index \in Nat
         /\ i \in Nat
<1>1. policies[i] \in Policies /\ i \in Nat
  OBVIOUS
<1>2. QED
  BY <1>1 DEF Policies

\* The order of the policies is total and strict.
LEMMA BeforeIsStrictOrder ==
  ASSUME NEW policies \in Seq(Policies),
         NEW i \in DOMAIN policies, NEW j \in DOMAIN policies,
         NEW k \in DOMAIN policies
  PROVE  /\ i # j => Before(policies, i, j) \/ Before(policies, j, i)
         /\ ~(Before(policies, i, j) /\ Before(policies, j, i))
         /\ Before(policies, i, j) /\ Before(policies, j, k) => Before(policies, i, k)
<1>1. /\ policies[i].index \in Nat /\ policies[j].index \in Nat
      /\ policies[k].index \in Nat /\ i \in Nat /\ j \in Nat /\ k \in Nat
  BY PolicyFields
<1>2. QED
  BY <1>1 DEF Before

\* Of two sets of policies with the same first one, both begin alike: there is
\* one first policy, and it has one action.
LEMMA FirstIsOne ==
  ASSUME NEW policies \in Seq(Policies), NEW places \in SUBSET DOMAIN policies,
         NEW a, NEW b, FirstHas(policies, places, a), FirstHas(policies, places, b)
  PROVE  a = b
<1>1. PICK i \in places : /\ policies[i].action = a
                          /\ \A j \in places \ {i} : Before(policies, i, j)
  BY DEF FirstHas
<1>2. PICK k \in places : /\ policies[k].action = b
                          /\ \A j \in places \ {k} : Before(policies, k, j)
  BY DEF FirstHas
<1>3. i = k
  BY <1>1, <1>2, BeforeIsStrictOrder
<1>4. QED
  BY <1>1, <1>2, <1>3

-----------------------------------------------------------------------------
(* Scopes. *)

\* A scope that matches a packet of a network applies to the network...
LEMMA WhatCoversApplies ==
  ASSUME NEW ev, ev.networks = Networks, NEW n \in Networks,
         NEW scope \in TrafficFilters, Plain(scope),
         NEW host \in Hosts[n], NEW port, Covers(scope, host, port)
  PROVE  Applies(ev, scope, n)
<1>1. scope.type \in ScopeTypes /\ scope.networks \subseteq Networks
  BY DEF TrafficFilters
<1>2. CASE scope.type = "NETWORK"
  <2>1. ~scope.opposite
    BY <1>2 DEF Plain, Limiting
  <2>2. PICK m \in scope.networks : host \in Hosts[m]
    BY <1>2, <2>1, Zenon DEF Covers, Limiting
  <2>3. m = n
    BY <1>1, <2>2, HostAssumption
  <2>4. QED
    BY <1>2, <2>2, <2>3 DEF Applies
<1>3. CASE scope.type = "IP_ADDRESS"
  <2>1. PICK block \in scope.blocks : host \in block
    <3>1. ~scope.opposite
      BY <1>3 DEF Plain, Limiting
    <3>2. QED
      BY <1>3, <3>1, Zenon DEF Covers, Limiting
  <2>2. Hosts[n] \subseteq block
    BY <1>3, <2>1 DEF Plain, Limiting
  <2>3. QED
    BY <1>3, <2>2 DEF Applies
<1>4. CASE scope.type \in {"ANY"} \cup Limiting
  BY <1>4 DEF Applies, Limiting
<1>5. QED
  BY <1>1, <1>2, <1>3, <1>4 DEF ScopeTypes

\* ...and one that applies and is about no part of the traffic alone matches
\* every packet.
LEMMA WhatAppliesCovers ==
  ASSUME NEW ev, ev.networks = Networks, NEW n \in Networks,
         NEW scope \in TrafficFilters, Plain(scope), scope.type \notin Limiting,
         NEW host \in Hosts[n], NEW port, Applies(ev, scope, n)
  PROVE  Covers(scope, host, port)
<1>1. scope.type \in ScopeTypes /\ scope.blocks \subseteq Blocks
  BY DEF TrafficFilters
<1>2. CASE scope.type = "NETWORK"
  <2>1. ~scope.opposite /\ scope.ports = {}
    BY <1>2 DEF Plain, Limiting
  <2>2. n \in scope.networks
    BY <1>2 DEF Applies, Limiting
  <2>3. QED
    BY <1>2, <2>1, <2>2, Zenon DEF Covers
<1>3. CASE scope.type = "IP_ADDRESS"
  <2>1. PICK block \in scope.blocks :
            Hosts[n] \subseteq block \/ block \subseteq Hosts[n]
    BY <1>3 DEF Applies
  <2>2. block # {}
    BY <1>1, <2>1 DEF Blocks
  <2>3. Hosts[n] \subseteq block
    BY <1>3, <2>1, <2>2 DEF Plain, Limiting
  <2>4. ~scope.opposite /\ scope.ports = {}
    BY <1>3 DEF Plain, Limiting
  <2>5. QED
    BY <1>3, <2>1, <2>3, <2>4, Zenon DEF Covers
<1>4. CASE scope.type = "ANY"
  BY <1>4 DEF Covers
<1>5. QED
  BY <1>1, <1>2, <1>3, <1>4 DEF ScopeTypes

-----------------------------------------------------------------------------
(* Between two networks. *)

\* A policy that decides over a packet is a candidate of the summary.
LEMMA DecidingIsApplicable ==
  ASSUME NEW ev, NEW policies, Whole(ev, policies),
         NEW from \in Networks, NEW to \in Networks,
         PlainBetween(policies, ZoneOf[from], ZoneOf[to]),
         NEW packet \in Traffic(Hosts[from], Hosts[to])
  PROVE  Deciding(policies, ZoneOf[from], ZoneOf[to], packet)
           \subseteq Applicable(ev, from, to)
<1>1. SUFFICES ASSUME NEW i \in Deciding(policies, ZoneOf[from], ZoneOf[to], packet)
               PROVE  i \in Applicable(ev, from, to)
  OBVIOUS
<1>2. /\ i \in DOMAIN policies /\ policies[i].enabled
      /\ policies[i].from = ZoneOf[from] /\ policies[i].to = ZoneOf[to]
      /\ Covers(policies[i].source, packet.source, packet.port)
      /\ Covers(policies[i].destination, packet.destination, packet.port)
  BY <1>1 DEF Deciding
<1>3. /\ policies[i].source \in TrafficFilters
      /\ policies[i].destination \in TrafficFilters
      /\ Plain(policies[i].source) /\ Plain(policies[i].destination)
  BY <1>2, PolicyFields DEF PlainBetween, Whole
<1>4. packet.source \in Hosts[from] /\ packet.destination \in Hosts[to]
  BY DEF Traffic
<1>5. /\ Applies(ev, policies[i].source, from)
      /\ Applies(ev, policies[i].destination, to)
  BY <1>2, <1>3, <1>4, WhatCoversApplies DEF Whole
<1>6. /\ ZoneName(ev, policies[i].from) = NetworkZone(ev, from)
      /\ ZoneName(ev, policies[i].to) = NetworkZone(ev, to)
  BY <1>2 DEF ZoneName, NetworkZone, Whole
<1>7. QED
  BY <1>2, <1>5, <1>6 DEF Applicable, Whole

\* A conclusive candidate decides over every packet, unless another one does
\* before it.
LEMMA ConclusiveIsDeciding ==
  ASSUME NEW ev, NEW policies, Whole(ev, policies),
         NEW from \in Networks, NEW to \in Networks,
         PlainBetween(policies, ZoneOf[from], ZoneOf[to]),
         NEW packet \in Traffic(Hosts[from], Hosts[to]),
         NEW i \in Applicable(ev, from, to), ~Limited(policies[i])
  PROVE  i \in Deciding(policies, ZoneOf[from], ZoneOf[to], packet)
<1>1. /\ i \in DOMAIN policies /\ policies[i].enabled
      /\ ZoneName(ev, policies[i].from) = NetworkZone(ev, from)
      /\ ZoneName(ev, policies[i].to) = NetworkZone(ev, to)
      /\ Applies(ev, policies[i].source, from)
      /\ Applies(ev, policies[i].destination, to)
  BY DEF Applicable, Whole
<1>2. policies[i].from = ZoneOf[from] /\ policies[i].to = ZoneOf[to]
  BY <1>1, PolicyFields, ZoneAssumption DEF ZoneName, NetworkZone, Whole
<1>3. /\ policies[i].source \in TrafficFilters
      /\ policies[i].destination \in TrafficFilters
      /\ Plain(policies[i].source) /\ Plain(policies[i].destination)
  BY <1>1, <1>2, PolicyFields DEF PlainBetween, Whole
<1>4. packet.source \in Hosts[from] /\ packet.destination \in Hosts[to]
  BY DEF Traffic
<1>5. /\ policies[i].source.type \notin Limiting
      /\ policies[i].destination.type \notin Limiting /\ ~policies[i].narrow
  BY DEF Limited
<1>6. /\ Covers(policies[i].source, packet.source, packet.port)
      /\ Covers(policies[i].destination, packet.destination, packet.port)
  BY <1>1, <1>3, <1>4, <1>5, WhatAppliesCovers DEF Whole
<1>7. QED
  BY <1>1, <1>2, <1>5, <1>6 DEF Deciding

\* What the summary looks for: the conclusive candidates, and others before all
\* of them.
Conclusive(ev, from, to) ==
    {i \in Applicable(ev, from, to) : ~Limited(ev.policies[i])}
Exception(ev, from, to) ==
    \E i \in Applicable(ev, from, to) \ Conclusive(ev, from, to) :
        \A j \in Conclusive(ev, from, to) : Before(ev.policies, i, j)

LEMMA RowIsDecided ==
  ASSUME NEW ev, NEW from, NEW to, NEW action \in {"ALLOW", "BLOCK"},
         Row(ev, from, to) = IF action = "ALLOW" THEN "ALLOWED" ELSE "BLOCKED"
  PROVE  /\ ~Exception(ev, from, to)
         /\ FirstHas(ev.policies, Conclusive(ev, from, to), action)
<1>1. Conclusive(ev, from, to) # {}
  BY DEF Row, Conclusive
<1>2. ~Exception(ev, from, to)
  BY <1>1 DEF Row, Conclusive, Exception
<1>3. QED
  BY <1>1, <1>2 DEF Row, Conclusive, Exception

\* A row that says ALLOWED or BLOCKED is true of every packet.
THEOREM RowIsTrue ==
  ASSUME NEW ev, NEW policies, Whole(ev, policies),
         NEW from \in Networks, NEW to \in Networks,
         PlainBetween(policies, ZoneOf[from], ZoneOf[to]),
         NEW packet \in Traffic(Hosts[from], Hosts[to]),
         NEW action \in {"ALLOW", "BLOCK"},
         Row(ev, from, to) = IF action = "ALLOW" THEN "ALLOWED" ELSE "BLOCKED"
  PROVE  Fate(policies, ZoneOf[from], ZoneOf[to], packet, action)
<1> DEFINE conclusive == Conclusive(ev, from, to)
           deciding == Deciding(policies, ZoneOf[from], ZoneOf[to], packet)
<1>1. PICK i \in conclusive : /\ policies[i].action = action
                              /\ \A j \in conclusive \ {i} : Before(policies, i, j)
  BY RowIsDecided DEF FirstHas, Whole
<1>2. /\ i \in Applicable(ev, from, to) /\ ~Limited(policies[i])
      /\ Applicable(ev, from, to) \subseteq DOMAIN policies
  BY DEF Conclusive, Whole, Applicable
<1>3. i \in deciding
  BY <1>2, ConclusiveIsDeciding
<1>4. ASSUME NEW k \in deciding \ {i}
      PROVE  Before(policies, i, k)
  <2>1. k \in Applicable(ev, from, to)
    BY DecidingIsApplicable
  <2>2. CASE k \in conclusive
    BY <1>1, <2>2
  <2>3. CASE k \notin conclusive
    <3>1. PICK j \in conclusive : ~Before(policies, k, j)
      BY <2>1, <2>3, RowIsDecided DEF Exception, Whole
    <3>2. j \in DOMAIN policies /\ k \in DOMAIN policies /\ j # k
      BY <1>2, <2>1, <2>3 DEF Conclusive
    <3>3. Before(policies, j, k)
      BY <3>1, <3>2, BeforeIsStrictOrder DEF Whole
    <3>4. QED
      BY <1>1, <1>2, <3>2, <3>3, BeforeIsStrictOrder DEF Whole
  <2>4. QED
    BY <2>2, <2>3
<1>5. QED
  BY <1>1, <1>3, <1>4 DEF Fate, FirstHas

\* Where no candidate is limited, the row says what holds of every packet.
THEOREM RowIsComplete ==
  ASSUME NEW ev, NEW policies, Whole(ev, policies),
         NEW from \in Networks, NEW to \in Networks,
         PlainBetween(policies, ZoneOf[from], ZoneOf[to]),
         \A i \in Applicable(ev, from, to) : ~Limited(policies[i]),
         NEW action \in {"ALLOW", "BLOCK"},
         \A packet \in Traffic(Hosts[from], Hosts[to]) :
             Fate(policies, ZoneOf[from], ZoneOf[to], packet, action)
  PROVE  Row(ev, from, to) = IF action = "ALLOW" THEN "ALLOWED" ELSE "BLOCKED"
<1> DEFINE conclusive == Conclusive(ev, from, to)
<1>1. PICK packet : packet \in Traffic(Hosts[from], Hosts[to])
  <2>1. PICK s \in Hosts[from], d \in Hosts[to], p \in Ports : TRUE
    BY HostAssumption, PortAssumption
  <2>2. [source |-> s, destination |-> d, port |-> p, special |-> TRUE]
          \in Traffic(Hosts[from], Hosts[to])
    BY DEF Traffic
  <2>3. QED
    BY <2>2
<1> DEFINE deciding == Deciding(policies, ZoneOf[from], ZoneOf[to], packet)
<1>2. /\ conclusive = Applicable(ev, from, to)
      /\ conclusive \subseteq DOMAIN policies
  BY DEF Conclusive, Whole, Applicable
<1>3. conclusive = deciding
  BY <1>1, <1>2, DecidingIsApplicable, ConclusiveIsDeciding
<1>4. FirstHas(policies, conclusive, action)
  BY <1>1, <1>3 DEF Fate
<1>5. conclusive # {} /\ ~Exception(ev, from, to)
  BY <1>2, <1>4 DEF FirstHas, Exception
<1>6. action = "BLOCK" => ~FirstHas(policies, conclusive, "ALLOW")
  BY <1>2, <1>4, FirstIsOne DEF Whole
<1>7. QED
  BY <1>4, <1>5, <1>6 DEF Row, Conclusive, Exception, Whole

-----------------------------------------------------------------------------
(* Towards the gateway. *)

BroadOnes(ev, from) ==
    {i \in ToZone(ev, from, Gateway) : Broad(ev.policies[i])}
GatewayException(ev, from, action) ==
    \E i \in ToZone(ev, from, Gateway) \ BroadOnes(ev, from) :
        /\ ev.policies[i].action = action
        /\ \A j \in BroadOnes(ev, from) : Before(ev.policies, i, j)

LEMMA GatewayRowIsDecided ==
  ASSUME NEW ev, NEW from
  PROVE  /\ GatewayRow(ev, from) \in {"ALLOWED", "BLOCKED"} =>
              BroadOnes(ev, from) # {}
         /\ GatewayRow(ev, from) = "ALLOWED" =>
              /\ FirstHas(ev.policies, BroadOnes(ev, from), "ALLOW")
              /\ ~GatewayException(ev, from, "BLOCK")
         /\ GatewayRow(ev, from) = "BLOCKED" =>
              /\ ~FirstHas(ev.policies, BroadOnes(ev, from), "ALLOW")
              /\ \/ ~GatewayException(ev, from, "ALLOW")
                 \/ FirstHas(ev.policies, BroadOnes(ev, from), "REJECT")
<1>1. CASE ToZone(ev, from, Gateway) = {}
  BY <1>1 DEF GatewayRow
<1>2. CASE ToZone(ev, from, Gateway) # {} /\ BroadOnes(ev, from) = {}
  BY <1>2 DEF GatewayRow, BroadOnes
<1>3. CASE BroadOnes(ev, from) # {}
  <2>1. ToZone(ev, from, Gateway) # {}
    BY <1>3 DEF BroadOnes
  <2>2. CASE FirstHas(ev.policies, BroadOnes(ev, from), "ALLOW")
    BY <1>3, <2>1, <2>2 DEF GatewayRow, BroadOnes, GatewayException
  <2>3. CASE ~FirstHas(ev.policies, BroadOnes(ev, from), "ALLOW")
    BY <1>3, <2>1, <2>3 DEF GatewayRow, BroadOnes, GatewayException
  <2>4. QED
    BY <2>2, <2>3
<1>4. QED
  BY <1>1, <1>2, <1>3

\* A gateway row that says ALLOWED or BLOCKED is not contradicted by any packet,
\* if no policy of these zones refuses by REJECT.
THEOREM GatewayRowIsTrue ==
  ASSUME NEW ev, NEW policies, Whole(ev, policies), NEW from \in Networks,
         \A i \in DOMAIN policies :
             ~(/\ policies[i].enabled /\ policies[i].action = "REJECT"
               /\ policies[i].from = ZoneOf[from] /\ policies[i].to = Gateway),
         NEW packet \in Traffic(Hosts[from], {Gateway}),
         NEW action \in {"ALLOW", "BLOCK"}, NEW other \in Actions \ {action},
         GatewayRow(ev, from) = IF action = "ALLOW" THEN "ALLOWED" ELSE "BLOCKED"
  PROVE  /\ Deciding(policies, ZoneOf[from], Gateway, packet) # {}
         /\ ~Fate(policies, ZoneOf[from], Gateway, packet, other)
<1> DEFINE broad == BroadOnes(ev, from)
           deciding == Deciding(policies, ZoneOf[from], Gateway, packet)
<1>1. ASSUME NEW i \in DOMAIN policies
      PROVE  i \in ToZone(ev, from, Gateway) <=>
               /\ policies[i].enabled
               /\ policies[i].from = ZoneOf[from] /\ policies[i].to = Gateway
  BY PolicyFields, ZoneAssumption DEF ToZone, ZoneName, NetworkZone, Whole
<1>2. ToZone(ev, from, Gateway) \subseteq DOMAIN policies
  BY DEF ToZone, Whole
<1>3. /\ broad \subseteq DOMAIN policies
      /\ deciding \subseteq ToZone(ev, from, Gateway)
  BY <1>1, <1>2 DEF BroadOnes, Deciding
<1>4. broad \subseteq deciding
  BY <1>1, <1>3 DEF BroadOnes, Deciding, Broad, Covers, Whole
<1>5. broad # {}
  BY GatewayRowIsDecided
<1>6. ASSUME Fate(policies, ZoneOf[from], Gateway, packet, other)
      PROVE  FALSE
  <2>1. PICK k \in deciding : /\ policies[k].action = other
                              /\ \A j \in deciding \ {k} : Before(policies, k, j)
    BY <1>6 DEF Fate, FirstHas
  <2>2. k \in ToZone(ev, from, Gateway) /\ k \in DOMAIN policies
    BY <1>2, <1>3
  <2>3. other # "REJECT" /\ other # action
    BY <1>1, <2>1, <2>2
  <2>4. k \notin broad => GatewayException(ev, from, other)
    BY <1>4, <2>1, <2>2 DEF GatewayException, Whole
  <2>5. k \in broad => FirstHas(policies, broad, other)
    BY <1>4, <2>1 DEF FirstHas
  <2>6. ~FirstHas(policies, broad, "REJECT")
    BY <1>1, <1>3, <1>4 DEF FirstHas, BroadOnes
  <2>7. CASE action = "ALLOW"
    <3>1. FirstHas(policies, broad, "ALLOW") /\ ~GatewayException(ev, from, "BLOCK")
      BY <2>7, GatewayRowIsDecided DEF Whole
    <3>2. other = "BLOCK"
      BY <2>3, <2>7 DEF Actions
    <3>3. QED
      BY <1>3, <2>4, <2>5, <3>1, <3>2, FirstIsOne DEF Whole
  <2>8. CASE action = "BLOCK"
    <3>1. /\ ~FirstHas(policies, broad, "ALLOW")
          /\ ~GatewayException(ev, from, "ALLOW")
      BY <2>6, <2>8, GatewayRowIsDecided DEF Whole
    <3>2. other = "ALLOW"
      BY <2>3, <2>8 DEF Actions
    <3>3. QED
      BY <2>4, <2>5, <3>1, <3>2
  <2>9. QED
    BY <2>7, <2>8
<1>7. QED
  BY <1>4, <1>5, <1>6

-----------------------------------------------------------------------------
(* Without the networks. *)

\* A network that was not collected matches no policy of zones that were.
THEOREM NothingMatchesNothing ==
  ASSUME NEW ev, ev.networks = {}, ev.zones = Zones,
         ev.policies \in Seq(Policies), NEW from, NEW to
  PROVE  Row(ev, from, to) = "UNKNOWN" /\ GatewayRow(ev, from) = "UNKNOWN"
<1>1. NetworkZone(ev, from) = Unresolved
  BY DEF NetworkZone
<1>2. ASSUME NEW i \in DOMAIN ev.policies
      PROVE  ZoneName(ev, ev.policies[i].from) # Unresolved
  BY PolicyFields, ZoneAssumption DEF ZoneName
<1>3. Applicable(ev, from, to) = {} /\ ToZone(ev, from, Gateway) = {}
  BY <1>1, <1>2 DEF Applicable, ToZone
<1>4. QED
  BY <1>3 DEF Row, GatewayRow
=============================================================================
