-------------------------- MODULE MCNetworkFeatures --------------------------
EXTENDS NetworkFeatures, TLC

Symmetry == Permutations(Clients) \cup Permutations(Devices)

(* Two interfaces, the second a part that the first can be broken into,    *)
(* and one port group of both.                                             *)
MCMembers == [g \in Groups |-> Interfaces]
MCParts == [i \in Interfaces |-> IF i = "Ethernet0" THEN Interfaces \ {i} ELSE {}]

Ports(is) == {Port(i) : i \in is} \cup {GroupSpeed(g, "slow") : g \in Groups}
             \cup {PortSpeed(i, "slow") : i \in is}

Configured(is) == Ports(is) \cup {Global(v, "65001") : v \in Vrfs}
    \cup {RemoteAsn(n, "65001") : n \in Neighbors}
    \cup AllNeighborAf \cup AllAf \cup AllProtocols
    \cup {StpVlan(v) : v \in Vlans} \cup {VlanMember(v, i) : v \in Vlans, i \in is}

(* A switch with one port in its default state, and a configured one.      *)
MCConfigurations == {Ports({"Ethernet0"}), Configured(Interfaces)}

=============================================================================
