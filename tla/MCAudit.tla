------------------------------ MODULE MCAudit ------------------------------
(* Bounded instances of Audit: two networks of one zone, a third in another  *)
(* zone, and tables of up to three policies that differ in what they are     *)
(* about, in their actions and in their order.                               *)
EXTENDS Audit

Home == "home zone"
Away == "away zone"
Zones3 == {Home, Away, Gateway}
Zone == [lan |-> Home, guest |-> Home, servers |-> Away]
Host == [lan |-> {"lan1", "lan2"}, guest |-> {"guest1"}, servers |-> {"srv1", "srv2"}]
Pairs == {<<"lan", "servers">>, <<"guest", "servers">>}

Reads == <<"networks", "clients", "firewall_zones", "firewall_policies", "wlans",
           "vpn_servers", "vpn_site_to_site", "upnp_exposure", "ids_ips">>

-----------------------------------------------------------------------------
Scope(type, networks, blocks, ports, opposite) ==
    [type |-> type, networks |-> networks, blocks |-> blocks, ports |-> ports,
     opposite |-> opposite]
Any == Scope("ANY", {}, {}, {}, FALSE)
Network(n) == Scope("NETWORK", {n}, {}, {}, FALSE)
Others(n) == Scope("NETWORK", {n}, {}, {}, TRUE)
Block(hosts) == Scope("IP_ADDRESS", {}, {hosts}, {}, FALSE)
Port == Scope("PORT", {}, {}, {"p"}, FALSE)

Policy(action, to, source, destination) ==
    [action |-> action, enabled |-> TRUE, from |-> Home, to |-> to,
     source |-> source, destination |-> destination, narrow |-> FALSE, index |-> 1]
Narrow(p) == [p EXCEPT !.narrow = TRUE]
Disabled(p) == [p EXCEPT !.enabled = FALSE]
At(p, index) == [p EXCEPT !.index = index]

\* Between the zones of the networks...
ToAway ==
    {Policy(a, Away, s, Any) : a \in Actions,
       s \in {Any, Network("lan"), Network("guest"), Others("lan"),
              Block(Hosts["lan"]), Block({"lan1"}), Port}}
    \cup {Policy(a, Away, Any, d) : a \in Actions,
            d \in {Network("servers"), Block({"srv1"})}}
    \cup {Narrow(Policy(a, Away, Any, Any)) : a \in Actions}
    \cup {Disabled(Policy(a, Away, Any, Any)) : a \in {"ALLOW", "BLOCK"}}

\* ...and to the gateway, besides one that is about neither.
ToTheGateway ==
    {Policy(a, Gateway, s, Any) : a \in Actions, s \in {Any, Network("lan"), Port}}
    \cup {Policy("BLOCK", Home, Any, Any), Disabled(Policy("ALLOW", Gateway, Any, Any))}

Tables ==
    {<<>>} \cup {<<p>> : p \in ToAway \cup ToTheGateway}
    \cup {<<At(p, o[1]), At(q, o[2])>> : p, q \in ToAway, o \in {<<1, 2>>, <<2, 1>>}}
    \cup {<<p, At(q, 2), r>> : p, q, r \in ToTheGateway}
    \cup {<<At(p, 2), q, Policy("BLOCK", Away, Any, Any)>> : p, q \in ToAway}

-----------------------------------------------------------------------------
Site(id, internal, name) ==
    [id |-> id, internalReference |-> internal, name |-> name]
Default == Site("1", "default", "Default")
Branch == Site("2", "branch", "Default")
Swapped == Site("3", "branch", "1")
Broken == Site("4", "", "Old")

Configured(sites, override, table) ==
    [sites |-> sites, override |-> override, policies |-> table]

Simple == <<Policy("ALLOW", Away, Any, Any), At(Policy("BLOCK", Gateway, Any, Any), 2)>>
Places ==
    {Configured({Default}, "", t) : t \in Tables}
    \cup {Configured(s, o, Simple) :
            s \in {{}, {Default}, {Default, Branch}, {Default, Swapped}, {Default, Broken}},
            o \in {"", "1", "default", "branch", "Default", "else"}}

\* Two tables meet every combination of gaps, the others one gap at a time.
Few == {Configured({Default}, "", t) : t \in {<<>>, Simple}}
GapsOfEach == [c \in Places |-> IF c \in Few THEN Len(Reads) ELSE 1]
=============================================================================
