------------------------- MODULE NetworkSyncProofs -------------------------
(***************************************************************************)
(* InSync of NetworkFeatures as a theorem, for any devices, threads, names *)
(* and limits.  The invariant says of each unit why the DB may differ from *)
(* the device, of each Set under way which discovery will follow it, and   *)
(* of the notifications in a queue that the last one is right.             *)
(***************************************************************************)
EXTENDS NetworkFeaturesProofs

(* The units that a discovery will bring up to date, or call missed:       *)
(* forget_parts and look_up_members may not get to all they cover.         *)
Sure(e) == {u \in Covered(e) :
    /\ Prelude(e) = "forget_parts" => \E i \in Interfaces :
            /\ PortUnits({i} \cup Parts[i]) = Covered(e)
            /\ u \in PortUnits(Parts[i])
    /\ Prelude(e) = "look_up_members" => u \in PortUnits(Interfaces)}

SureFollows(c, d, u) == \E k \in DOMAIN then[c] :
    /\ DeviceOf(then[c][k]) = d /\ u \in Sure(then[c][k])
    /\ k = 1 /\ pc[c] = "insert" => Of(got[c], u) = Of(dev[d], u)

Settled(d, u) ==
    \/ Seen(u, db[d]) = Seen(u, dev[d])
    \/ <<d, u>> \in missed
    \/ \E c \in Clients : SureFollows(c, d, u)
    \/ Announced(d, u)

(* A request changes whole ports or none, and the speed of one group, to   *)
(* one speed, or of none.                                                  *)
Changed(r) == Removed(r) \cup Added(r)
PortShape(r) ==
    \/ \A i \in Interfaces : Port(i) \notin Removed(r)
    \/ /\ Added(r) = {}
       /\ \A i \in Interfaces : Port(i) \in Removed(r) =>
              \A f \in Facts : f[1] = "interface" /\ f[2] = i => f \in Removed(r)
GroupShape(r) ==
    \/ \A f \in Changed(r) : f[1] # "port_group"
    \/ \E g \in Groups, s \in Speeds : \A f \in Facts : f[1] = "port_group" =>
           /\ f \in Added(r) <=> f = GroupSpeed(g, s)
           /\ f \in Removed(r) <=> f[2] = g /\ f[4] # s

(* What r changes is lost, announced by the device, or discovered by th.   *)
CoveredBy(r, th) == \A f \in Changed(r) :
    \/ UnitOf(f) \in Lost(r)
    \/ f[1] = "port_group"
    \/ \E k \in DOMAIN th : DeviceOf(th[k]) = Target(r) /\ UnitOf(f) \in Sure(th[k])

Covers(rs, th) == \A k \in DOMAIN rs :
    PortShape(rs[k]) /\ GroupShape(rs[k]) /\ CoveredBy(rs[k], th)

(* The last notification of a group has the speed that the device has.     *)
LastIsRight == \A d \in Devices : \A k \in DOMAIN queue[d] :
    (\A j \in DOMAIN queue[d] : j > k => queue[d][j][1] # queue[d][k][1])
        => GroupSpeed(queue[d][k][1], queue[d][k][2]) \in dev[d]

(* What has a prelude is discovered alone.                                 *)
Alone(th) == \A k \in DOMAIN th : Prelude(th[k]) # "none" => Len(th) = 1

(* An answer is about what was asked for.                                  *)
GotCovered == \A c \in Clients : \A f \in got[c] :
    pc[c] = "insert" => UnitOf(f) \in Covered(Current(c))

Hardware ==
    /\ \A d \in Devices : PortsWhole(dev[d]) /\ OneSpeed(dev[d])
                          /\ PortsWhole(db[d]) /\ OneSpeed(db[d])
    /\ \A c \in Clients :
        /\ PortsWhole(got[c])
        /\ \A g \in Groups, s, t \in Speeds :
            GroupSpeed(g, s) \in got[c] /\ GroupSpeed(g, t) \in got[c] => s = t

SyncInv ==
    /\ TypeOK /\ Hardware /\ LastIsRight /\ GotCovered
    /\ \A c \in Clients : Covers(reqs[c], then[c]) /\ Alone(then[c])
    /\ \A d \in Devices, u \in Units : Settled(d, u)

-----------------------------------------------------------------------------
(* What is seen of a unit.                                                 *)

LEMMA SeenOf ==
    ASSUME NEW u, NEW x, NEW y, Of(x, u) = Of(y, u)
    PROVE  Seen(u, x) = Seen(u, y)
BY DEF Seen

(* The unit of a fact, by its kind.                                        *)
LEMMA UnitKinds ==
    /\ \A f, k : k \in Features => (UnitOf(f) = Whole(k) <=> f[1] = k)
    /\ \A f, i : UnitOf(f) = <<"interface", i>> <=> f[1] = "interface" /\ f[2] = i
    /\ \A f, g : UnitOf(f) = <<"port_group", g>> <=> f[1] = "port_group" /\ f[2] = g
    /\ \A f : f \in Facts => UnitOf(f) \in Units
<1>1. \A f, k : k \in Features => (UnitOf(f) = Whole(k) <=> f[1] = k)
  BY DEF UnitOf, Whole, Features, PerName
<1>2. /\ \A f, i : UnitOf(f) = <<"interface", i>> <=> f[1] = "interface" /\ f[2] = i
      /\ \A f, g : UnitOf(f) = <<"port_group", g>> <=> f[1] = "port_group" /\ f[2] = g
  BY DEF UnitOf, Whole, PerName
<1>3. ASSUME NEW f \in Facts PROVE UnitOf(f) \in Units
  <2>1. \/ f[1] \in Features
        \/ f[1] = "interface" /\ f[2] \in Interfaces
        \/ f[1] = "port_group" /\ f[2] \in Groups
    BY DEF Facts, Features
  <2> QED BY <2>1 DEF UnitOf, Units, Whole, PerName, Features, PortUnits, GroupUnits
<1> QED BY <1>1, <1>2, <1>3

LEMMA UnitCases ==
    ASSUME NEW u \in Units
    PROVE  \/ u = Whole("bgp") \/ u = Whole("bgp_neighbor") \/ u = Whole("stp")
           \/ \E k \in {"stp_vlan", "vlan", "gw_mac"} : u = Whole(k)
           \/ \E i \in Interfaces : u = <<"interface", i>>
           \/ \E g \in Groups : u = <<"port_group", g>>
BY DEF Units, Features, PortUnits, GroupUnits

(* Each part of what is stored is of one kind.                             *)
LEMMA StoredParts ==
    ASSUME NEW old, NEW answer, NEW decided,
           NEW kept \in _create_bgp_graph_objects(GlobalsOf(answer)), NEW f
    PROVE  LET of(k) == OfAll(answer, {Whole(k)} \cap decided)
               named(k) == {g \in OfAll(answer, decided) : g[1] = k}
               inStore == f \in Stored(old, answer, kept, decided)
           IN  /\ f[1] = "bgp" => (inStore <=> f \in insert_device_bgp_in_db(kept, of("bgp")))
               /\ f[1] = "bgp_neighbor" => (inStore <=>
                      f \in insert_device_bgp_neighbors_in_db(
                                OfAll(old, {Whole("bgp_neighbor")} \cap decided),
                                _create_bgp_neighbors_graph_objects(of("bgp_neighbor"))))
               /\ f[1] = "stp" => (inStore <=> f \in _create_stp_graph_object(of("stp")))
               /\ f[1] \in {"stp_vlan", "vlan", "gw_mac"} => (inStore <=> f \in of(f[1]))
               /\ f[1] = "interface" => (inStore <=>
                      f \in _create_interface_graph_objects(named("interface")))
               /\ f[1] = "port_group" => (inStore <=> f \in named("port_group"))
               /\ inStore => f[1] \in Features \cup PerName
<1> DEFINE of(k) == OfAll(answer, {Whole(k)} \cap decided)
           named(k) == {g \in OfAll(answer, decided) : g[1] = k}
           neighbors == insert_device_bgp_neighbors_in_db(
                            OfAll(old, {Whole("bgp_neighbor")} \cap decided),
                            _create_bgp_neighbors_graph_objects(of("bgp_neighbor")))
<1>1. \A k \in Features : \A g \in of(k) : g[1] = k
  BY DEF OfAll, UnitOf, Whole, PerName, Features
<1>2. \A g \in insert_device_bgp_in_db(kept, of("bgp")) : g[1] = "bgp"
  BY <1>1 DEF insert_device_bgp_in_db, _create_bgp_graph_objects, GlobalsOf, Features
<1>3. \A g \in _create_interface_graph_objects(named("interface")) : g[1] = "interface"
  BY DEF _create_interface_graph_objects, Address
<1>4. \A g \in neighbors : g[1] = "bgp_neighbor"
  <2>1. \A g \in OfAll(old, {Whole("bgp_neighbor")} \cap decided) : g[1] = "bgp_neighbor"
    BY DEF OfAll, UnitOf, Whole, PerName
  <2>2. \A g \in _create_bgp_neighbors_graph_objects(of("bgp_neighbor")) : g[1] = "bgp_neighbor"
    BY DEF _create_bgp_neighbors_graph_objects, NeighborsOf, NeighborAf
  <2> QED BY <2>1, <2>2 DEF insert_device_bgp_neighbors_in_db, NeighborsOf
<1>5. \A g \in _create_stp_graph_object(of("stp")) : g[1] = "stp"
  BY <1>1 DEF _create_stp_graph_object, Features
<1>6. /\ \A g \in of("stp_vlan") : g[1] = "stp_vlan"
      /\ \A g \in of("vlan") : g[1] = "vlan"
      /\ \A g \in of("gw_mac") : g[1] = "gw_mac"
  BY <1>1 DEF Features
<1>7. \A g \in named("port_group") : g[1] = "port_group"
  OBVIOUS
<1> DEFINE bgp == insert_device_bgp_in_db(kept, of("bgp"))
           stp == _create_stp_graph_object(of("stp"))
           stpVlan == of("stp_vlan")
           vlan == of("vlan")
           gwMac == of("gw_mac")
           interface == _create_interface_graph_objects(named("interface"))
           portGroup == named("port_group")
           inStore == f \in Stored(old, answer, kept, decided)
<1>8. inStore <=> \/ f \in bgp \/ f \in neighbors \/ f \in stp \/ f \in stpVlan
                  \/ f \in vlan \/ f \in gwMac \/ f \in interface \/ f \in portGroup
  BY DEF Stored, insert_device_stp_in_db, insert_device_stp_vlan_in_db, _create_vlan_db_obj,
         insert_device_mclag_gw_macs_in_db, _create_port_group_graph_objects
<1>9. /\ f \in bgp => f[1] = "bgp"
      /\ f \in neighbors => f[1] = "bgp_neighbor"
      /\ f \in stp => f[1] = "stp"
      /\ f \in stpVlan => f[1] = "stp_vlan"
      /\ f \in vlan => f[1] = "vlan"
      /\ f \in gwMac => f[1] = "gw_mac"
      /\ f \in interface => f[1] = "interface"
      /\ f \in portGroup => f[1] = "port_group"
  BY <1>2, <1>3, <1>4, <1>5, <1>6, <1>7
<1>10. /\ f[1] = "stp_vlan" => of(f[1]) = stpVlan
       /\ f[1] = "vlan" => of(f[1]) = vlan
       /\ f[1] = "gw_mac" => of(f[1]) = gwMac
  OBVIOUS
<1> HIDE DEF bgp, neighbors, stp, stpVlan, vlan, gwMac, interface, portGroup, inStore
<1>11. /\ f[1] = "bgp" => (inStore <=> f \in bgp)
       /\ f[1] = "bgp_neighbor" => (inStore <=> f \in neighbors)
       /\ f[1] = "stp" => (inStore <=> f \in stp)
       /\ f[1] = "stp_vlan" => (inStore <=> f \in stpVlan)
       /\ f[1] = "vlan" => (inStore <=> f \in vlan)
       /\ f[1] = "gw_mac" => (inStore <=> f \in gwMac)
       /\ f[1] = "interface" => (inStore <=> f \in interface)
       /\ f[1] = "port_group" => (inStore <=> f \in portGroup)
       /\ inStore => f[1] \in Features \cup PerName
  BY <1>8, <1>9 DEF Features, PerName
<1>12. f[1] \in {"stp_vlan", "vlan", "gw_mac"} => (inStore <=> f \in of(f[1]))
  BY <1>10, <1>11
<1> QED BY <1>11, <1>12 DEF bgp, neighbors, stp, interface, portGroup, inStore

(* An insertion stores nothing of a unit that the answer does not decide.  *)
LEMMA StoredElsewhere ==
    ASSUME NEW old, NEW answer, NEW decided,
           NEW kept \in _create_bgp_graph_objects(GlobalsOf(answer)),
           \A f \in answer : f[1] = "bgp" => Whole("bgp") \in decided,
           NEW f \in Stored(old, answer, kept, decided)
    PROVE  UnitOf(f) \in decided
<1> DEFINE of(k) == OfAll(answer, {Whole(k)} \cap decided)
           named(k) == {g \in OfAll(answer, decided) : g[1] = k}
           stay == OfAll(old, {Whole("bgp_neighbor")} \cap decided)
           objects == _create_bgp_neighbors_graph_objects(of("bgp_neighbor"))
<1>1. f[1] \in Features \cup PerName
  BY StoredParts
<1>2. CASE f[1] = "bgp"
  <2>1. f \in insert_device_bgp_in_db(kept, of("bgp"))
    BY <1>2, StoredParts
  <2>2. f \in answer
    BY <2>1 DEF insert_device_bgp_in_db, _create_bgp_graph_objects, GlobalsOf, OfAll
  <2> QED BY <1>2, <2>2, UnitKinds DEF Features
<1>3. CASE f[1] = "bgp_neighbor"
  <2>1. f \in insert_device_bgp_neighbors_in_db(stay, objects)
    BY <1>3, StoredParts
  <2>2. Whole("bgp_neighbor") \in decided
    <3>1. stay # {} \/ objects # {}
      BY <2>1 DEF insert_device_bgp_neighbors_in_db, NeighborsOf
    <3>2. stay # {} \/ of("bgp_neighbor") # {}
      BY <3>1 DEF _create_bgp_neighbors_graph_objects, NeighborIps, NeighborsOf
    <3> QED BY <3>2 DEF OfAll
  <2> QED BY <1>3, <2>2, UnitKinds DEF Features
<1>4. CASE f[1] = "stp"
  <2>1. f \in of("stp")
    BY <1>4, StoredParts DEF _create_stp_graph_object
  <2> QED BY <1>4, <2>1 DEF OfAll
<1>5. CASE f[1] \in {"stp_vlan", "vlan", "gw_mac"}
  <2>1. f \in of(f[1])
    BY <1>5, StoredParts
  <2> QED BY <2>1 DEF OfAll
<1>6. CASE f[1] = "interface"
  <2>1. f \in _create_interface_graph_objects(named("interface"))
    BY <1>6, StoredParts
  <2>2. CASE f \in named("interface")
    BY <2>2 DEF OfAll
  <2>3. CASE f \notin named("interface")
    <3>1. PICK h \in named("interface") : f = Address(h[2], "ip", h[4])
      BY <2>1, <2>3 DEF _create_interface_graph_objects
    <3>2. UnitOf(h) = <<"interface", h[2]>> /\ UnitOf(h) \in decided
      BY UnitKinds DEF OfAll
    <3>3. UnitOf(f) = <<"interface", h[2]>>
      BY <3>1, UnitKinds DEF Address
    <3> QED BY <3>2, <3>3
  <2> QED BY <2>2, <2>3
<1>7. CASE f[1] = "port_group"
  <2>1. f \in named("port_group")
    BY <1>7, StoredParts
  <2> QED BY <2>1 DEF OfAll
<1> QED BY <1>1, <1>2, <1>3, <1>4, <1>5, <1>6, <1>7 DEF Features, PerName

(* What is seen of BGP: one node for each AS number, and what hangs on it. *)
LEMMA BgpSeen ==
    ASSUME NEW own \in SUBSET Facts, \A f \in own : f[1] = "bgp",
           NEW kept \in _create_bgp_graph_objects(GlobalsOf(own)),
           NEW new, new = insert_device_bgp_in_db(kept, own)
    PROVE  /\ {g[4] : g \in GlobalsOf(new)} = {g[4] : g \in GlobalsOf(own)}
           /\ GlobalsOf(new) = {} <=> GlobalsOf(own) = {}
           /\ GlobalsOf(own) # {} => new \ GlobalsOf(new) = own \ GlobalsOf(own)
<1>1. kept \subseteq GlobalsOf(own) /\ \A g \in GlobalsOf(own) : \E h \in kept : h[4] = g[4]
  BY DEF _create_bgp_graph_objects
<1>2. kept = {} <=> GlobalsOf(own) = {}
  BY <1>1
<1>3. GlobalsOf(new) = kept
  BY <1>1 DEF insert_device_bgp_in_db, GlobalsOf
<1>4. kept # {} => new \ kept = own \ GlobalsOf(own)
  BY <1>1 DEF insert_device_bgp_in_db, GlobalsOf
<1> QED BY <1>1, <1>2, <1>3, <1>4

LEMMA NeighborSeen ==
    ASSUME NEW own \in SUBSET Facts, \A f \in own : f[1] = "bgp_neighbor",
           NEW old \in SUBSET Facts, \A f \in old : f[1] = "bgp_neighbor",
           NEW new, new = insert_device_bgp_neighbors_in_db(
                              old, _create_bgp_neighbors_graph_objects(own))
    PROVE  /\ NeighborIps(new) = NeighborIps(own)
           /\ NeighborsOf(new) = {} <=> NeighborsOf(own) = {}
           /\ NeighborsOf(own) # {} =>
                {f[4] : f \in new \ NeighborsOf(new)} = {f[4] : f \in own \ NeighborsOf(own)}
<1> DEFINE objects == _create_bgp_neighbors_graph_objects(own)
<1>1. \A n, f : NeighborAf(n, f[4])[3] = "af" /\ NeighborAf(n, f[4])[4] = f[4]
  BY DEF NeighborAf
<1>2. NeighborsOf(objects) = NeighborsOf(own)
  BY DEF _create_bgp_neighbors_graph_objects, NeighborsOf, NeighborAf
<1>3. NeighborIps(objects) = NeighborIps(own)
  BY <1>2 DEF NeighborIps
<1> DEFINE given == {NeighborAf(n, f[4]) : n \in NeighborIps(own), f \in own \ NeighborsOf(own)}
<1>4. objects \ NeighborsOf(objects) = given
  <2>1. objects = NeighborsOf(own) \cup given
    BY DEF _create_bgp_neighbors_graph_objects
  <2>2. \A g \in given : g[3] = "af"
    BY <1>1
  <2>3. \A g \in NeighborsOf(own) : g[3] = "remote_asn"
    BY DEF NeighborsOf
  <2> HIDE DEF objects, given
  <2> QED BY <1>2, <2>1, <2>2, <2>3
<1>5. NeighborsOf(new) = {f \in NeighborsOf(old) : f[2] \in NeighborIps(objects)}
                         \cup {f \in NeighborsOf(objects) : f[2] \notin NeighborIps(old)}
  BY DEF insert_device_bgp_neighbors_in_db, NeighborsOf
<1>6. new \ NeighborsOf(new) = objects \ NeighborsOf(objects)
  BY DEF insert_device_bgp_neighbors_in_db, NeighborsOf
<1>7. NeighborIps(new) = NeighborIps(objects)
  <2> HIDE DEF objects
  <2>1. NeighborIps(new) \subseteq NeighborIps(objects)
    BY <1>5 DEF NeighborIps
  <2>2. ASSUME NEW n \in NeighborIps(objects) PROVE n \in NeighborIps(new)
    <3>1. CASE n \in NeighborIps(old)
      <4>1. PICK f \in NeighborsOf(old) : f[2] = n
        BY <3>1 DEF NeighborIps
      <4>2. f \in NeighborsOf(new)
        BY <1>5, <4>1
      <4> QED BY <4>1, <4>2 DEF NeighborIps
    <3>2. CASE n \notin NeighborIps(old)
      <4>1. PICK f \in NeighborsOf(objects) : f[2] = n
        BY DEF NeighborIps
      <4>2. f \in NeighborsOf(new)
        BY <1>5, <3>2, <4>1
      <4> QED BY <4>1, <4>2 DEF NeighborIps
    <3> QED BY <3>1, <3>2
  <2> QED BY <2>1, <2>2
<1>8. \A x : NeighborsOf(x) = {} <=> NeighborIps(x) = {}
  BY DEF NeighborIps
<1>9. NeighborIps(own) # {} => {f[4] : f \in given} = {g[4] : g \in own \ NeighborsOf(own)}
  <2> SUFFICES ASSUME NEW n \in NeighborIps(own)
               PROVE  {f[4] : f \in given} = {g[4] : g \in own \ NeighborsOf(own)}
    OBVIOUS
  <2>1. ASSUME NEW f \in given PROVE f[4] \in {g[4] : g \in own \ NeighborsOf(own)}
    <3>1. PICK m \in NeighborIps(own), g \in own \ NeighborsOf(own) : f = NeighborAf(m, g[4])
      OBVIOUS
    <3> QED BY <1>1, <3>1
  <2>2. ASSUME NEW g \in own \ NeighborsOf(own) PROVE g[4] \in {f[4] : f \in given}
    <3>1. NeighborAf(n, g[4]) \in given
      OBVIOUS
    <3> HIDE DEF given
    <3> QED BY <1>1, <3>1
  <2> HIDE DEF given
  <2> QED BY <2>1, <2>2
<1> QED BY <1>3, <1>4, <1>6, <1>7, <1>8, <1>9

(* Of what an insertion stores of a unit that the answer decides, the same *)
(* is seen as of the answer.                                               *)
LEMMA StoredSeen ==
    ASSUME NEW old \in SUBSET Facts, NEW answer \in SUBSET Facts, NEW decided,
           NEW kept \in _create_bgp_graph_objects(GlobalsOf(answer)),
           NEW u \in Units, u \in decided
    PROVE  Seen(u, Stored(old, answer, kept, decided)) = Seen(u, answer)
<1> DEFINE new == Of(Stored(old, answer, kept, decided), u)
           own == Of(answer, u)
<1>1. new \in SUBSET Facts /\ own \in SUBSET Facts
  BY StoredType DEF Of
<1>2. CASE u = Whole("bgp")
  <2>1. OfAll(answer, {u} \cap decided) = own
    BY DEF OfAll, Of
  <2>2. GlobalsOf(answer) = GlobalsOf(own) /\ \A f \in own : f[1] = "bgp"
    BY <1>2, UnitKinds DEF GlobalsOf, Of, Features
  <2>3. \A f : f \in new <=> f[1] = "bgp" /\ f \in Stored(old, answer, kept, decided)
    BY <1>2, UnitKinds DEF Of, Features
  <2>4. \A f \in insert_device_bgp_in_db(kept, own) : f[1] = "bgp"
    BY <2>2 DEF insert_device_bgp_in_db, _create_bgp_graph_objects, GlobalsOf
  <2>5. new = insert_device_bgp_in_db(kept, own)
    <3> HIDE DEF new, own
    <3> QED BY <1>2, <2>1, <2>3, <2>4, StoredParts
  <2>6. /\ {g[4] : g \in GlobalsOf(new)} = {g[4] : g \in GlobalsOf(own)}
        /\ GlobalsOf(new) = {} <=> GlobalsOf(own) = {}
        /\ GlobalsOf(own) # {} => new \ GlobalsOf(new) = own \ GlobalsOf(own)
    <3> HIDE DEF new, own
    <3> QED BY <1>1, <2>2, <2>5, BgpSeen
  <2>7. \A x : Seen(u, x) =
            {<<"bgp", "asn", "asn", f[4]>> : f \in GlobalsOf(Of(x, u))}
            \cup (IF GlobalsOf(Of(x, u)) = {} THEN {} ELSE Of(x, u) \ GlobalsOf(Of(x, u)))
    BY <1>2 DEF Seen, Whole
  <2>8. {<<"bgp", "asn", "asn", f[4]>> : f \in GlobalsOf(new)}
          = {<<"bgp", "asn", "asn", f[4]>> : f \in GlobalsOf(own)}
    <3>1. \A x : {<<"bgp", "asn", "asn", f[4]>> : f \in GlobalsOf(x)}
                    = {<<"bgp", "asn", "asn", a>> : a \in {g[4] : g \in GlobalsOf(x)}}
      OBVIOUS
    <3> HIDE DEF new, own
    <3> QED BY <2>6, <3>1
  <2> QED BY <2>6, <2>7, <2>8
<1>3. CASE u = Whole("bgp_neighbor")
  <2> DEFINE stay == OfAll(old, {u} \cap decided)
  <2>1. OfAll(answer, {u} \cap decided) = own
    BY DEF OfAll, Of
  <2>2. /\ stay \in SUBSET Facts
        /\ \A f \in own : f[1] = "bgp_neighbor" /\ \A g \in stay : g[1] = "bgp_neighbor"
    BY <1>3, UnitKinds DEF OfAll, Of, Features
  <2>3. \A f : f \in new <=> f[1] = "bgp_neighbor" /\ f \in Stored(old, answer, kept, decided)
    BY <1>3, UnitKinds DEF Of, Features
  <2>4. \A f \in insert_device_bgp_neighbors_in_db(
                     stay, _create_bgp_neighbors_graph_objects(own)) : f[1] = "bgp_neighbor"
    BY DEF insert_device_bgp_neighbors_in_db, _create_bgp_neighbors_graph_objects,
           NeighborsOf, NeighborAf
  <2>5. new = insert_device_bgp_neighbors_in_db(stay, _create_bgp_neighbors_graph_objects(own))
    <3> HIDE DEF new, own
    <3> QED BY <1>3, <2>1, <2>3, <2>4, StoredParts
  <2>6. \A g \in stay : g[1] = "bgp_neighbor"
    BY <1>3, UnitKinds DEF OfAll, Features
  <2>7. /\ NeighborIps(new) = NeighborIps(own)
        /\ NeighborsOf(new) = {} <=> NeighborsOf(own) = {}
        /\ NeighborsOf(own) # {} =>
             {f[4] : f \in new \ NeighborsOf(new)} = {f[4] : f \in own \ NeighborsOf(own)}
    <3> HIDE DEF new, own, stay
    <3> QED BY <1>1, <2>2, <2>5, <2>6, NeighborSeen
  <2>8. \A x : Seen(u, x) =
            {<<"neighbor", n>> : n \in NeighborIps(Of(x, u))}
            \cup {<<"family", f[4]>> : f \in IF NeighborsOf(Of(x, u)) = {} THEN {}
                                             ELSE Of(x, u) \ NeighborsOf(Of(x, u))}
    BY <1>3 DEF Seen, Whole
  <2>9. NeighborsOf(own) # {} =>
            {<<"family", f[4]>> : f \in new \ NeighborsOf(new)}
              = {<<"family", f[4]>> : f \in own \ NeighborsOf(own)}
    <3> HIDE DEF new, own
    <3> QED BY <2>7
  <2> QED BY <2>7, <2>8, <2>9
<1>4. CASE u = Whole("stp")
  <2>1. OfAll(answer, {u} \cap decided) = own
    BY DEF OfAll, Of
  <2>2. \A f : f \in new <=> f[1] = "stp" /\ f \in Stored(old, answer, kept, decided)
    BY <1>4, UnitKinds DEF Of, Features
  <2>3. \A f \in _create_stp_graph_object(own) : f[1] = "stp"
    BY <1>4, UnitKinds DEF Of, Features, _create_stp_graph_object
  <2>4. new = _create_stp_graph_object(own)
    <3> HIDE DEF new, own
    <3> QED BY <1>4, <2>1, <2>2, <2>3, StoredParts
  <2>5. _create_stp_graph_object(new) = _create_stp_graph_object(own)
    <3> HIDE DEF new, own
    <3> QED BY <2>4 DEF _create_stp_graph_object
  <2> QED BY <1>4, <2>5 DEF Seen, Whole
<1>5. CASE \E k \in {"stp_vlan", "vlan", "gw_mac"} : u = Whole(k)
  <2>1. PICK k \in {"stp_vlan", "vlan", "gw_mac"} : u = Whole(k)
    BY <1>5
  <2>2. OfAll(answer, {u} \cap decided) = own
    BY DEF OfAll, Of
  <2>3. \A f : f \in new <=> f[1] = k /\ f \in Stored(old, answer, kept, decided)
    BY <2>1, UnitKinds DEF Of, Features
  <2>4. \A f \in own : f[1] = k
    BY <2>1, UnitKinds DEF Of, Features
  <2>5. new = own
    <3> HIDE DEF new, own
    <3>1. \A f : f[1] = k => (f \in Stored(old, answer, kept, decided) <=> f \in own)
      BY <2>1, <2>2, StoredParts
    <3> QED BY <2>3, <2>4, <3>1
  <2> QED BY <2>5, SeenOf
<1>6. CASE \E i \in Interfaces : u = <<"interface", i>>
  <2>1. PICK i \in Interfaces : u = <<"interface", i>>
    BY <1>6
  <2> DEFINE named == {g \in OfAll(answer, decided) : g[1] = "interface"}
  <2>2. own = {g \in named : g[2] = i}
    BY <2>1, UnitKinds DEF OfAll, Of
  <2>3. \A f : f \in new <=> /\ f[1] = "interface" /\ f[2] = i
                             /\ f \in Stored(old, answer, kept, decided)
    BY <2>1, UnitKinds DEF Of
  <2>4. \A f \in named : f[1] = "interface"
    OBVIOUS
  <2>5. \A f : f \in new <=> f[2] = i /\ f \in _create_interface_graph_objects(named)
    <3>1. \A f \in _create_interface_graph_objects(named) : f[1] = "interface"
      BY DEF _create_interface_graph_objects, Address
    <3> HIDE DEF new
    <3> QED BY <2>3, <3>1, StoredParts
  <2>6. new = _create_interface_graph_objects(own)
    <3> HIDE DEF new, own, named
    <3> QED BY <2>2, <2>4, <2>5 DEF _create_interface_graph_objects, Address
  <2>7. \A f \in new : f[3] \notin Indices
    <3> HIDE DEF new, own
    <3> QED BY <2>6 DEF _create_interface_graph_objects, Address, Indices
  <2>8. _create_interface_graph_objects(new) = new
    <3> HIDE DEF new
    <3> QED BY <2>7 DEF _create_interface_graph_objects
  <2>9. \A x : Seen(u, x) = _create_interface_graph_objects(Of(x, u))
    BY <2>1 DEF Seen, Whole
  <2> QED BY <2>6, <2>8, <2>9
<1>7. CASE \E g \in Groups : u = <<"port_group", g>>
  <2>1. PICK g \in Groups : u = <<"port_group", g>>
    BY <1>7
  <2> DEFINE named == {f \in OfAll(answer, decided) : f[1] = "port_group"}
  <2>2. own = {f \in named : f[2] = g}
    BY <2>1, UnitKinds DEF OfAll, Of
  <2>3. \A f : f \in new <=> /\ f[1] = "port_group" /\ f[2] = g
                             /\ f \in Stored(old, answer, kept, decided)
    BY <2>1, UnitKinds DEF Of
  <2>4. new = own
    <3> HIDE DEF new
    <3>1. \A f : f[1] = "port_group" => (f \in Stored(old, answer, kept, decided) <=> f \in named)
      BY StoredParts
    <3> QED BY <2>2, <2>3, <3>1
  <2> QED BY <2>4, SeenOf
<1> QED BY <1>2, <1>3, <1>4, <1>5, <1>6, <1>7, UnitCases

LEMMA UnitOfPort ==
    /\ \A i : UnitOf(Port(i)) = <<"interface", i>> /\ Port(i)[1] = "interface"
              /\ Port(i)[3] \notin Indices
    /\ \A g, s : UnitOf(GroupSpeed(g, s)) = <<"port_group", g>>
                 /\ GroupSpeed(g, s)[1] = "port_group"
BY DEF UnitOf, Port, GroupSpeed, PerName, Indices

(* An insertion leaves ports whole, and each group its one speed.          *)
LEMMA InsertionWhole ==
    ASSUME NEW old, PortsWhole(old), NEW answer, PortsWhole(answer), NEW decided,
           NEW kept \in _create_bgp_graph_objects(GlobalsOf(answer)),
           NEW new, new = (old \ OfAll(old, decided)) \cup Stored(old, answer, kept, decided)
    PROVE  PortsWhole(new)
<1> DEFINE named == {g \in OfAll(answer, decided) : g[1] = "interface"}
<1>0. \A f : f[1] = "interface" => UnitOf(f) = UnitOf(Port(f[2]))
  BY UnitOfPort, UnitKinds
<1>1. ASSUME NEW f \in old \ OfAll(old, decided), f[1] = "interface"
      PROVE  Port(f[2]) \in new
  BY <1>0, <1>1 DEF PortsWhole, OfAll
<1>2. ASSUME NEW h \in named PROVE Port(h[2]) \in new
  <2>1. h \in answer /\ h[1] = "interface" /\ UnitOf(h) \in decided
    BY DEF OfAll
  <2>2. Port(h[2]) \in answer /\ UnitOf(Port(h[2])) \in decided
    BY <1>0, <2>1 DEF PortsWhole
  <2>3. Port(h[2]) \in named
    BY <2>2, UnitOfPort DEF OfAll
  <2>4. Port(h[2]) \in _create_interface_graph_objects(named)
    BY <2>3, UnitOfPort DEF _create_interface_graph_objects
  <2> QED BY <2>4, StoredParts, UnitOfPort
<1>3. ASSUME NEW f \in Stored(old, answer, kept, decided), f[1] = "interface"
      PROVE  Port(f[2]) \in new
  <2>1. f \in _create_interface_graph_objects(named)
    BY <1>3, StoredParts
  <2>2. CASE f \in named
    BY <1>2, <2>2
  <2>3. CASE f \notin named
    <3>1. PICK h \in named : f = Address(h[2], "ip", h[4])
      BY <2>1, <2>3 DEF _create_interface_graph_objects
    <3>2. f[2] = h[2]
      BY <3>1 DEF Address
    <3> QED BY <1>2, <3>2
  <2> QED BY <2>2, <2>3
<1> QED BY <1>1, <1>3 DEF PortsWhole

SpeedsIn(x, g) == {t \in Speeds : GroupSpeed(g, t) \in x}

LEMMA InsertionSpeeds ==
    ASSUME NEW old, NEW answer, NEW decided,
           NEW kept \in _create_bgp_graph_objects(GlobalsOf(answer)), NEW g \in Groups,
           NEW new, new = (old \ OfAll(old, decided)) \cup Stored(old, answer, kept, decided)
    PROVE  SpeedsIn(new, g) = IF <<"port_group", g>> \in decided
                              THEN SpeedsIn(answer, g) ELSE SpeedsIn(old, g)
<1> SUFFICES ASSUME NEW t \in Speeds
             PROVE  GroupSpeed(g, t) \in new <=>
                        GroupSpeed(g, t) \in IF <<"port_group", g>> \in decided THEN answer ELSE old
  BY DEF SpeedsIn
<1>1. GroupSpeed(g, t) \in Stored(old, answer, kept, decided)
          <=> GroupSpeed(g, t) \in {f \in OfAll(answer, decided) : f[1] = "port_group"}
  BY StoredParts, UnitOfPort
<1>2. GroupSpeed(g, t) \in Stored(old, answer, kept, decided)
          <=> GroupSpeed(g, t) \in answer /\ <<"port_group", g>> \in decided
  BY <1>1, UnitOfPort DEF OfAll
<1> QED BY <1>2, UnitOfPort DEF OfAll

LEMMA SpeedFacts ==
    /\ \A x : OneSpeed(x) <=> \A g \in Groups : \E s \in Speeds : SpeedsIn(x, g) = {s}
    /\ \A x, g, s : s \in SpeedsIn(x, g) <=> s \in Speeds /\ GroupSpeed(g, s) \in x
BY DEF OneSpeed, SpeedsIn

LEMMA SyncInit == Init => SyncInv
<1> SUFFICES ASSUME Init PROVE SyncInv
  OBVIOUS
<1>1. TypeOK
  BY TypeOKInit
<1>2. PICK kept :
        /\ \A d \in Devices : kept[d] \in _create_bgp_graph_objects(GlobalsOf(dev[d]))
        /\ db = [d \in Devices |-> Stored({}, dev[d], kept[d], Units)]
  BY DEF Init
<1>3. \A d \in Devices : dev[d] \in Configurations /\ PortsWhole(dev[d]) /\ OneSpeed(dev[d])
  BY HardwareAssumption DEF Init
<1>4. ASSUME NEW d \in Devices
      PROVE  /\ PortsWhole(db[d]) /\ OneSpeed(db[d])
             /\ \A u \in Units : Seen(u, db[d]) = Seen(u, dev[d])
  <2>1. /\ kept[d] \in _create_bgp_graph_objects(GlobalsOf(dev[d]))
        /\ db[d] = ({} \ OfAll({}, Units)) \cup Stored({}, dev[d], kept[d], Units)
        /\ db[d] = Stored({}, dev[d], kept[d], Units)
    BY <1>2
  <2>2. PortsWhole({})
    BY DEF PortsWhole
  <2>3. PortsWhole(db[d])
    BY <1>3, <2>1, <2>2, InsertionWhole
  <2>4. \A g \in Groups : <<"port_group", g>> \in Units
    BY DEF Units, GroupUnits
  <2>5. \A g \in Groups : SpeedsIn(db[d], g) = SpeedsIn(dev[d], g)
    <3> TAKE g \in Groups
    <3>1. SpeedsIn(db[d], g) = IF <<"port_group", g>> \in Units
                               THEN SpeedsIn(dev[d], g) ELSE SpeedsIn({}, g)
      BY <2>1, InsertionSpeeds
    <3> QED BY <2>4, <3>1
  <2>6. OneSpeed(db[d])
    BY <1>3, <2>5, SpeedFacts
  <2>7. dev[d] \in SUBSET Facts /\ {} \in SUBSET Facts
    BY <1>1 DEF TypeOK
  <2>8. \A u \in Units : Seen(u, db[d]) = Seen(u, dev[d])
    BY <2>1, <2>7, StoredSeen
  <2> QED BY <2>3, <2>6, <2>8
<1>5. \A c \in Clients : got[c] = {} /\ reqs[c] = <<>> /\ then[c] = <<>> /\ pc[c] = "idle"
  BY DEF Init
<1>6. \A d \in Devices : queue[d] = <<>>
  BY DEF Init
<1>7. Hardware
  BY <1>3, <1>4, <1>5 DEF Hardware, PortsWhole
<1>8. LastIsRight
  BY <1>6 DEF LastIsRight
<1>9. GotCovered /\ \A c \in Clients : Covers(reqs[c], then[c]) /\ Alone(then[c])
  BY <1>5 DEF GotCovered, Covers, Alone
<1>10. \A d \in Devices, u \in Units : Settled(d, u)
  BY <1>4 DEF Settled
<1> QED BY <1>1, <1>7, <1>8, <1>9, <1>10 DEF SyncInv

-----------------------------------------------------------------------------
(* Steps.                                                                  *)

(* A thread that is idle follows nothing.                                  *)
LEMMA SyncBegin ==
    ASSUME SyncInv, TypeOK', NEW c \in Clients, NEW rs, NEW th, Begin(c, rs, th),
           Covers(rs, th), Alone(th)
    PROVE  SyncInv'
<1>1. /\ dev' = dev /\ db' = db /\ queue' = queue /\ got' = got /\ missed' = missed
      /\ pc' = [pc EXCEPT ![c] = "busy"] /\ reqs' = [reqs EXCEPT ![c] = rs]
      /\ then' = [then EXCEPT ![c] = th]
  BY DEF Begin
<1>2. TypeOK /\ pc[c] = "idle" /\ then[c] = <<>>
  BY DEF Begin, SyncInv, TypeOK
<1>3. \A k \in Clients : /\ k # c => pc'[k] = pc[k] /\ reqs'[k] = reqs[k] /\ then'[k] = then[k]
                         /\ k = c => pc'[k] = "busy" /\ reqs'[k] = rs /\ then'[k] = th
  BY <1>1, <1>2 DEF TypeOK
<1>4. Hardware' /\ LastIsRight'
  BY <1>1 DEF SyncInv, Hardware, LastIsRight
<1>5. GotCovered'
  BY <1>1, <1>3 DEF SyncInv, GotCovered, Current
<1>6. \A k \in Clients : Covers(reqs'[k], then'[k]) /\ Alone(then'[k])
  BY <1>3 DEF SyncInv
<1>7. ASSUME NEW d \in Devices, NEW u \in Units PROVE Settled(d, u)'
  <2>1. CASE Seen(u, db[d]) = Seen(u, dev[d]) \/ <<d, u>> \in missed \/ Announced(d, u)
    BY <1>1, <2>1 DEF Settled, Announced
  <2>2. ASSUME NEW k \in Clients, SureFollows(k, d, u) PROVE SureFollows(k, d, u)'
    <3>1. k # c
      BY <1>2, <2>2 DEF SureFollows
    <3> QED BY <1>1, <1>3, <2>2, <3>1 DEF SureFollows
  <2> QED BY <2>1, <2>2 DEF SyncInv, Settled
<1> QED BY <1>4, <1>5, <1>6, <1>7 DEF SyncInv

LEMMA SyncReturn ==
    ASSUME SyncInv, TypeOK', NEW c \in Clients, Return(c)
    PROVE  SyncInv'
<1>1. /\ dev' = dev /\ db' = db /\ queue' = queue /\ got' = got /\ missed' = missed
      /\ reqs' = reqs /\ then' = then /\ pc' = [pc EXCEPT ![c] = "idle"] /\ then[c] = <<>>
  BY DEF Return
<1>2. \A k \in Clients : pc'[k] = "insert" <=> pc[k] = "insert"
  BY <1>1 DEF SyncInv, TypeOK, Return
<1>3. Hardware' /\ LastIsRight'
  BY <1>1 DEF SyncInv, Hardware, LastIsRight
<1>4. GotCovered' /\ \A k \in Clients : Covers(reqs'[k], then'[k]) /\ Alone(then'[k])
  BY <1>1, <1>2 DEF SyncInv, GotCovered, Current
<1>5. ASSUME NEW d \in Devices, NEW u \in Units PROVE Settled(d, u)'
  <2>1. \A k \in Clients : SureFollows(k, d, u) => SureFollows(k, d, u)'
    BY <1>1, <1>2 DEF SureFollows
  <2> QED BY <1>1, <2>1 DEF SyncInv, Settled, Announced
<1> QED BY <1>3, <1>4, <1>5 DEF SyncInv

(* Members of VLANs go with ports, and nothing else does.                  *)
LEMMA StandingElsewhere ==
    ASSUME NEW x
    PROVE  /\ \A u : u # Whole("vlan") => Of(Standing(x), u) = Of(x, u)
           /\ \A f : f[1] # "vlan" => (f \in Standing(x) <=> f \in x)
           /\ PortsWhole(x) => PortsWhole(Standing(x))
           /\ OneSpeed(x) => OneSpeed(Standing(x))
<1>1. \A f : f[1] # "vlan" => (f \in Standing(x) <=> f \in x)
  BY DEF Standing
<1>2. ASSUME NEW u, u # Whole("vlan") PROVE Of(Standing(x), u) = Of(x, u)
  <2>1. \A f : UnitOf(f) = u => f[1] # "vlan"
    BY <1>2, UnitKinds DEF Features
  <2> QED BY <1>1, <2>1 DEF Of
<1>3. PortsWhole(x) => PortsWhole(Standing(x))
  BY <1>1, UnitOfPort DEF PortsWhole, Standing
<1>4. ASSUME OneSpeed(x) PROVE OneSpeed(Standing(x))
  <2>1. \A g \in Groups, t \in Speeds : GroupSpeed(g, t) \in Standing(x) <=> GroupSpeed(g, t) \in x
    BY <1>1, UnitOfPort
  <2>2. \A g \in Groups : SpeedsIn(Standing(x), g) = SpeedsIn(x, g)
    BY <2>1 DEF SpeedsIn
  <2> QED BY <1>4, <2>2, SpeedFacts
<1> QED BY <1>1, <1>2, <1>3, <1>4

(* What goes with ports is missed, unless it is right.                     *)
LEMMA StandingOrMissed ==
    ASSUME NEW d, NEW x, NEW y, NEW u
    PROVE  \/ Of(Standing(x), u) = Of(x, u)
           \/ Of(Standing(x), u) = Of(y, u)
           \/ <<d, u>> \in Uprooted(d, x, y)
<1>1. CASE u # Whole("vlan")
  BY <1>1, StandingElsewhere
<1>2. CASE u = Whole("vlan") /\ Standing(x) = x
  BY <1>2
<1>3. CASE u = Whole("vlan") /\ Standing(x) # x
  BY <1>3 DEF Uprooted
<1> QED BY <1>1, <1>2, <1>3

(* A request changes only its device, and there only the units it covers.  *)
LEMMA ExecuteChanges ==
    ASSUME TypeOK, NEW r \in Request, Execute(r), NEW d \in Devices, NEW u \in Units
    PROVE  \/ Of(dev'[d], u) = Of(dev[d], u)
           \/ d = Target(r) /\ \E f \in Changed(r) : UnitOf(f) = u
           \/ Of(dev'[d], u) = Of(db[d], u)
           \/ <<d, u>> \in missed'
<1>1. dev' = [dev EXCEPT ![Target(r)] = Executed(@, r)]
  BY DEF Execute
<1>2. Asked(dev[d], r) \ Changed(r) = dev[d] \ Changed(r)
  BY DEF Asked, Changed
<1>3. CASE d # Target(r)
  BY <1>1, <1>3 DEF TypeOK
<1>4. CASE d = Target(r) /\ \A f \in Changed(r) : UnitOf(f) # u
  <2>1. dev'[d] = Executed(dev[d], r)
    BY <1>1, <1>4 DEF TypeOK
  <2>2. Of(Asked(dev[d], r), u) = Of(dev[d], u)
    BY <1>2, <1>4 DEF Of
  <2>3. Uprooted(d, Asked(dev[d], r), db[d]) \subseteq missed'
    BY <1>4 DEF Execute
  <2>4. \/ Of(dev'[d], u) = Of(Asked(dev[d], r), u)
        \/ Of(dev'[d], u) = Of(db[d], u)
        \/ <<d, u>> \in Uprooted(d, Asked(dev[d], r), db[d])
    BY <2>1, StandingOrMissed DEF Executed
  <2> QED BY <2>2, <2>3, <2>4
<1> QED BY <1>3, <1>4

LEMMA ExecuteHardware ==
    ASSUME TypeOK, Hardware, NEW r \in Request, PortShape(r), GroupShape(r), NEW x,
           x \in SUBSET Facts, PortsWhole(x), OneSpeed(x)
    PROVE  PortsWhole(Executed(x, r)) /\ OneSpeed(Executed(x, r))
<1>0. Added(r) \in SUBSET Facts /\ Removed(r) \in SUBSET Facts
  BY DEF Request, Added, Removed
<1>1. PortsWhole(Asked(x, r))
  <2> SUFFICES ASSUME NEW f \in Asked(x, r), f[1] = "interface"
               PROVE  Port(f[2]) \in Asked(x, r)
    BY DEF PortsWhole
  <2>1. f \in Facts /\ f[2] \in Interfaces
    BY <1>0, InterfaceFact DEF Asked
  <2>2. Port(f[2])[1] = "interface" /\ Port(f[2])[2] = f[2]
    BY DEF Port
  <2>3. CASE \A i \in Interfaces : Port(i) \notin Removed(r)
    <3>1. Port(f[2]) \in x \cup Added(r)
      BY DEF Asked, PortsWhole
    <3> QED BY <2>1, <2>2, <2>3, <3>1 DEF Asked
  <2>4. CASE Added(r) = {} /\ \A i \in Interfaces : Port(i) \in Removed(r) =>
                 \A h \in Facts : h[1] = "interface" /\ h[2] = i => h \in Removed(r)
    <3>1. f \in x /\ f \notin Removed(r)
      BY <2>4 DEF Asked
    <3>2. Port(f[2]) \in x /\ Port(f[2]) \notin Removed(r)
      BY <2>1, <2>4, <3>1 DEF PortsWhole
    <3> QED BY <3>2 DEF Asked
  <2> QED BY <2>3, <2>4 DEF PortShape
<1>2. OneSpeed(Asked(x, r))
  <2>0. \A g \in Groups, s \in Speeds :
          /\ GroupSpeed(g, s) \in Facts /\ GroupSpeed(g, s)[1] = "port_group"
          /\ GroupSpeed(g, s)[2] = g /\ GroupSpeed(g, s)[4] = s
    BY OtherFacts DEF GroupSpeed
  <2>1. \A g \in Groups, s \in Speeds : GroupSpeed(g, s) \in Asked(x, r) <=>
            (GroupSpeed(g, s) \in x /\ GroupSpeed(g, s) \notin Removed(r)) \/ GroupSpeed(g, s) \in Added(r)
    BY <2>0 DEF Asked
  <2>2. CASE \A f \in Changed(r) : f[1] # "port_group"
    <3>1. \A g \in Groups : SpeedsIn(Asked(x, r), g) = SpeedsIn(x, g)
      BY <2>0, <2>1, <2>2 DEF SpeedsIn, Changed
    <3> QED BY <3>1, SpeedFacts
  <2>3. CASE \E g \in Groups, s \in Speeds : \A f \in Facts : f[1] = "port_group" =>
                 /\ f \in Added(r) <=> f = GroupSpeed(g, s)
                 /\ f \in Removed(r) <=> f[2] = g /\ f[4] # s
    <3>1. PICK g \in Groups, s \in Speeds : \A f \in Facts : f[1] = "port_group" =>
                 /\ f \in Added(r) <=> f = GroupSpeed(g, s)
                 /\ f \in Removed(r) <=> f[2] = g /\ f[4] # s
      BY <2>3
    <3>2. SpeedsIn(Asked(x, r), g) = {s}
      BY <2>0, <2>1, <3>1, SpeedFacts
    <3>3. \A h \in Groups \ {g} : SpeedsIn(Asked(x, r), h) = SpeedsIn(x, h)
      <4> SUFFICES ASSUME NEW h \in Groups \ {g}, NEW t \in Speeds
                   PROVE  GroupSpeed(h, t) \in Asked(x, r) <=> GroupSpeed(h, t) \in x
        BY DEF SpeedsIn
      <4>1. GroupSpeed(h, t) \notin Removed(r) /\ GroupSpeed(h, t) \notin Added(r)
        BY <2>0, <3>1
      <4> QED BY <2>1, <4>1
    <3> QED BY <3>2, <3>3, SpeedFacts
  <2> QED BY <2>2, <2>3 DEF GroupShape
<1> QED BY <1>1, <1>2, StandingElsewhere DEF Executed

LEMMA OrderOnto ==
    ASSUME NEW S, IsFiniteSet(S), NEW order \in Orders(S)
    PROVE  /\ \A x \in S : \E k \in DOMAIN order : order[k] = x
           /\ \A k \in DOMAIN order : order[k] \in S
<1> DEFINE n == Cardinality(S)
<1>1. n \in Nat
  BY FS_CardinalityType
<1>2. order \in [1..n -> S] /\ \A j, k \in 1..n : order[j] = order[k] => j = k
  BY DEF Orders
<1>3. order \in Injection(1..n, S)
  BY <1>2 DEF Injection, IsInjective
<1>4. IsFiniteSet(1..n) /\ Cardinality(1..n) = n
  BY <1>1, FS_Interval
<1>5. order \in Surjection(1..n, S)
  BY <1>3, <1>4, FS_Injection
<1> QED BY <1>2, <1>5 DEF Surjection

LEMMA SpeedOfGroup ==
    /\ \A f \in Facts : f[1] = "port_group" =>
           f[2] \in Groups /\ f[4] \in Speeds /\ f = GroupSpeed(f[2], f[4])
    /\ \A g \in Groups, s \in Speeds :
           /\ GroupSpeed(g, s) \in Facts /\ GroupSpeed(g, s)[1] = "port_group"
           /\ GroupSpeed(g, s)[2] = g /\ GroupSpeed(g, s)[4] = s
<1>1. \A f \in Facts : f[1] = "port_group" =>
           f[2] \in Groups /\ f[4] \in Speeds /\ f = GroupSpeed(f[2], f[4])
  BY DEF Facts, GroupSpeed
<1>2. \A g \in Groups, s \in Speeds :
           /\ GroupSpeed(g, s) \in Facts /\ GroupSpeed(g, s)[1] = "port_group"
           /\ GroupSpeed(g, s)[2] = g /\ GroupSpeed(g, s)[4] = s
  BY OtherFacts DEF GroupSpeed
<1> QED BY <1>1, <1>2

(* The notifications that a request causes.                                *)
LEMMA ExecuteQueue ==
    ASSUME TypeOK, NEW r \in Request, Execute(r)
    PROVE  \E order \in Seq(Groups \X Speeds) :
               /\ queue' = [queue EXCEPT ![Target(r)] = @ \o order]
               /\ \A f \in Changes(r) : \E k \in DOMAIN order : order[k] = <<f[2], f[4]>>
               /\ \A k \in DOMAIN order : \E f \in Changes(r) : order[k] = <<f[2], f[4]>>
<1> DEFINE pairs == {<<f[2], f[4]>> : f \in Changes(r)}
<1>1. Added(r) \in SUBSET Facts
  BY DEF Request, Added
<1>2. pairs \subseteq Groups \X Speeds
  BY <1>1, GroupFact DEF Changes
<1>3. IsFiniteSet(Groups \X Speeds)
  BY DevicesAssumption, FS_Product
<1>4. IsFiniteSet(pairs)
  BY <1>2, <1>3, FS_Subset
<1>5. PICK order \in Orders(pairs) : queue' = [queue EXCEPT ![Target(r)] = @ \o order]
  BY DEF Execute
<1>6. order \in Seq(pairs)
  BY <1>4, OrdersType
<1>7. order \in Seq(Groups \X Speeds)
  <2> HIDE DEF pairs
  <2> QED BY <1>2, <1>6
<1>8. /\ \A x \in pairs : \E k \in DOMAIN order : order[k] = x
      /\ \A k \in DOMAIN order : order[k] \in pairs
  <2> HIDE DEF pairs
  <2> QED BY <1>4, OrderOnto
<1> QED BY <1>5, <1>7, <1>8

LEMMA ExecuteAnnounces ==
    ASSUME TypeOK, Hardware, NEW r \in Request, GroupShape(r), Execute(r),
           NEW f \in Changed(r), f[1] = "port_group"
    PROVE  \/ Of(dev'[Target(r)], UnitOf(f)) = Of(dev[Target(r)], UnitOf(f))
           \/ Announced(Target(r), UnitOf(f))'
<1> DEFINE d == Target(r)
<1>1. /\ d \in Devices /\ Added(r) \in SUBSET Facts /\ Removed(r) \in SUBSET Facts
      /\ dev[d] \in SUBSET Facts
  BY DEF TypeOK, Request, Target, Added, Removed
<1>2. dev'[d] = Executed(dev[d], r)
  BY <1>1 DEF Execute, TypeOK
<1>3. PICK g \in Groups, s \in Speeds : \A h \in Facts : h[1] = "port_group" =>
          /\ h \in Added(r) <=> h = GroupSpeed(g, s)
          /\ h \in Removed(r) <=> h[2] = g /\ h[4] # s
  BY DEF GroupShape
<1>4. f[2] = g /\ UnitOf(f) = <<"port_group", g>>
  <2>1. f \in Facts
    BY <1>1 DEF Changed
  <2>2. f[2] = g
    BY <1>3, <2>1, SpeedOfGroup DEF Changed
  <2> QED BY <2>2, UnitKinds
<1>5. GroupSpeed(g, s) \in Added(r)
  BY <1>3, SpeedOfGroup
<1>6. CASE GroupSpeed(g, s) \in dev[d]
  <2>1. \A t \in Speeds : GroupSpeed(g, t) \in dev[d] <=> t = s
    <3>1. \E t \in Speeds : SpeedsIn(dev[d], g) = {t}
      BY <1>1, SpeedFacts DEF Hardware
    <3> QED BY <1>6, <3>1, SpeedFacts
  <2>2. \A h \in Facts : UnitOf(h) = <<"port_group", g>> => h[1] = "port_group" /\ h[2] = g
    BY UnitKinds
  <2>3. \A h \in Facts : h[1] = "port_group" /\ h[2] = g =>
            (h \in dev[d] <=> h = GroupSpeed(g, s))
    BY <2>1, SpeedOfGroup
  <2>4. \A h \in Facts : h[1] = "port_group" /\ h[2] = g =>
            (h \in Executed(dev[d], r) <=> h = GroupSpeed(g, s))
    <3> SUFFICES ASSUME NEW h \in Facts, h[1] = "port_group", h[2] = g
                 PROVE  h \in Executed(dev[d], r) <=> h = GroupSpeed(g, s)
      OBVIOUS
    <3>1. h \in Added(r) <=> h = GroupSpeed(g, s)
      BY <1>3
    <3>2. h = GroupSpeed(g, s) => h \in Asked(dev[d], r)
      BY <3>1 DEF Asked
    <3>3. h # GroupSpeed(g, s) => h \notin Asked(dev[d], r)
      BY <2>3, <3>1 DEF Asked
    <3>4. h \in Executed(dev[d], r) <=> h \in Asked(dev[d], r)
      BY StandingElsewhere DEF Executed
    <3> QED BY <3>2, <3>3, <3>4
  <2>5. Executed(dev[d], r) \in SUBSET Facts
    BY <1>1, StandingFacts DEF Executed, Asked
  <2> HIDE DEF d
  <2>6. Of(Executed(dev[d], r), <<"port_group", g>>) = Of(dev[d], <<"port_group", g>>)
    BY <1>1, <2>2, <2>3, <2>4, <2>5 DEF Of
  <2> QED BY <1>2, <1>4, <2>6 DEF d
<1>7. CASE GroupSpeed(g, s) \notin dev[d]
  <2>1. GroupSpeed(g, s) \in Changes(r)
    BY <1>5, <1>7, SpeedOfGroup DEF Changes
  <2>2. PICK order \in Seq(Groups \X Speeds) :
            /\ queue' = [queue EXCEPT ![d] = @ \o order]
            /\ \A h \in Changes(r) : \E k \in DOMAIN order : order[k] = <<h[2], h[4]>>
    BY ExecuteQueue
  <2>3. PICK k \in DOMAIN order : order[k] = <<g, s>>
    BY <2>1, <2>2, SpeedOfGroup
  <2>4. queue'[d] = queue[d] \o order /\ queue[d] \in Seq(Groups \X Speeds)
    BY <1>1, <2>2 DEF TypeOK
  <2>5. Len(queue[d]) + k \in DOMAIN queue'[d] /\ queue'[d][Len(queue[d]) + k] = <<g, s>>
    <3> HIDE DEF d
    <3> QED BY <2>3, <2>4
  <2>6. <<g, s>>[1] = g
    OBVIOUS
  <2>7. Announced(d, <<"port_group", g>>)'
    BY <2>5, <2>6 DEF Announced
  <2> QED BY <1>4, <2>7
<1> QED BY <1>6, <1>7

LEMMA Joined ==
    ASSUME NEW S, NEW q \in Seq(S), NEW o \in Seq(S)
    PROVE  /\ \A k \in DOMAIN q : k \in DOMAIN (q \o o) /\ (q \o o)[k] = q[k] /\ k <= Len(q)
           /\ \A k \in DOMAIN o : Len(q) + k \in DOMAIN (q \o o) /\ (q \o o)[Len(q) + k] = o[k]
           /\ \A k \in DOMAIN (q \o o) :
                  k \in DOMAIN q \/ \E j \in DOMAIN o : k = Len(q) + j
           /\ \A k \in DOMAIN q, j \in DOMAIN o : Len(q) + j > k
<1>1. /\ \A k \in DOMAIN q : k \in DOMAIN (q \o o) /\ (q \o o)[k] = q[k] /\ k <= Len(q)
      /\ \A k \in DOMAIN o : Len(q) + k \in DOMAIN (q \o o) /\ (q \o o)[Len(q) + k] = o[k]
      /\ \A k \in DOMAIN q, j \in DOMAIN o : Len(q) + j > k
  OBVIOUS
<1>2. ASSUME NEW k \in DOMAIN (q \o o), k \notin DOMAIN q
      PROVE  \E j \in DOMAIN o : k = Len(q) + j
  <2>1. k \in (Len(q) + 1)..(Len(q) + Len(o)) /\ Len(q) \in Nat /\ Len(o) \in Nat
    BY <1>2
  <2>2. k - Len(q) \in 1..Len(o) /\ k = Len(q) + (k - Len(q))
    BY <2>1
  <2> QED BY <2>2
<1> QED BY <1>1, <1>2

LEMMA ExecuteLast ==
    ASSUME TypeOK, Hardware, LastIsRight, NEW r \in Request, GroupShape(r), Execute(r)
    PROVE  LastIsRight'
<1> DEFINE t == Target(r)
<1>0. /\ t \in Devices /\ Added(r) \in SUBSET Facts /\ Removed(r) \in SUBSET Facts
  BY DEF TypeOK, Request, Target, Added, Removed
<1>1. PICK order \in Seq(Groups \X Speeds) :
          /\ queue' = [queue EXCEPT ![t] = @ \o order]
          /\ \A f \in Changes(r) : \E k \in DOMAIN order : order[k] = <<f[2], f[4]>>
          /\ \A k \in DOMAIN order : \E f \in Changes(r) : order[k] = <<f[2], f[4]>>
  BY ExecuteQueue
<1>2. dev' = [dev EXCEPT ![t] = Executed(@, r)]
  BY DEF Execute
<1>5. \A x, g, s : GroupSpeed(g, s) \in Executed(x, r) <=> GroupSpeed(g, s) \in Asked(x, r)
  BY StandingElsewhere, UnitOfPort DEF Executed
<1> SUFFICES ASSUME NEW d \in Devices, NEW k \in DOMAIN queue'[d],
                    \A j \in DOMAIN queue'[d] : j > k => queue'[d][j][1] # queue'[d][k][1]
             PROVE  GroupSpeed(queue'[d][k][1], queue'[d][k][2]) \in dev'[d]
  BY DEF LastIsRight
<1>3. CASE d # t
  BY <1>1, <1>2, <1>3 DEF TypeOK, LastIsRight
<1>4. CASE d = t
  <2> DEFINE q == queue[d]
             key == queue'[d][k][1]
             val == queue'[d][k][2]
  <2>1. queue'[d] = q \o order /\ q \in Seq(Groups \X Speeds) /\ dev'[d] = Executed(dev[d], r)
    BY <1>0, <1>1, <1>2, <1>4 DEF TypeOK
  <2>5. /\ \A i \in DOMAIN q : /\ i \in DOMAIN (q \o order) /\ i <= Len(q)
                              /\ (q \o order)[i] = q[i]
        /\ \A i \in DOMAIN order : /\ Len(q) + i \in DOMAIN (q \o order)
                                  /\ (q \o order)[Len(q) + i] = order[i]
        /\ \A i \in DOMAIN (q \o order) :
               i \in DOMAIN q \/ \E j \in DOMAIN order : i = Len(q) + j
        /\ \A i \in DOMAIN q, j \in DOMAIN order : Len(q) + j > i
    <3> HIDE DEF q
    <3> QED BY <2>1, Joined
  <2>2. ASSUME k \in DOMAIN q
        PROVE  GroupSpeed(key, val) \in dev[d] /\ key \in Groups /\ val \in Speeds
    <3>1. q[k] = queue'[d][k] /\ q[k] \in Groups \X Speeds
      BY <2>1, <2>2, <2>5
    <3>2. \A j \in DOMAIN q : j > k => q[j][1] # q[k][1]
      BY <2>1, <3>1, <2>5
    <3> QED BY <2>2, <3>1, <3>2 DEF LastIsRight
  <2>3. CASE \A f \in Changed(r) : f[1] # "port_group"
    <3>1. Changes(r) = {}
      BY <2>3 DEF Changes, Changed
    <3>2. k \in DOMAIN q
      BY <1>1, <2>1, <3>1, <2>5
    <3>3. GroupSpeed(key, val) \in dev[d] /\ GroupSpeed(key, val) \notin Removed(r)
      BY <2>2, <2>3, <3>2, SpeedOfGroup DEF Changed
    <3> QED BY <1>5, <2>1, <3>3 DEF Asked
  <2>4. CASE \E g \in Groups, s \in Speeds : \A h \in Facts : h[1] = "port_group" =>
                 /\ h \in Added(r) <=> h = GroupSpeed(g, s)
                 /\ h \in Removed(r) <=> h[2] = g /\ h[4] # s
    <3>1. PICK g \in Groups, s \in Speeds : \A h \in Facts : h[1] = "port_group" =>
                 /\ h \in Added(r) <=> h = GroupSpeed(g, s)
                 /\ h \in Removed(r) <=> h[2] = g /\ h[4] # s
      BY <2>4
    <3>2. \A f \in Changes(r) : f = GroupSpeed(g, s)
      BY <1>0, <3>1 DEF Changes
    <3>3. \A j \in DOMAIN order : order[j] = <<g, s>>
      BY <1>1, <3>2, SpeedOfGroup
    <3>4. GroupSpeed(g, s) \in Added(r)
      BY <3>1, SpeedOfGroup
    <3>5. GroupSpeed(g, s) \in dev'[d]
      BY <1>5, <2>1, <3>4, SpeedOfGroup DEF Asked
    <3>6. CASE k \notin DOMAIN q
      <4>1. PICK j \in DOMAIN order : k = Len(q) + j
        BY <2>1, <3>6, <2>5
      <4>2. (q \o order)[Len(q) + j] = order[j]
        BY <2>1, <2>5
      <4>3. queue'[d][k] = <<g, s>>
        BY <2>1, <3>3, <4>1, <4>2
      <4> QED BY <3>5, <4>3
    <3>7. CASE k \in DOMAIN q /\ key # g
      <4>1. GroupSpeed(key, val) \in dev[d] /\ GroupSpeed(key, val) \notin Removed(r)
        BY <2>2, <3>1, <3>7, SpeedOfGroup
      <4> QED BY <1>5, <2>1, <4>1 DEF Asked
    <3>8. CASE k \in DOMAIN q /\ key = g
      <4>1. DOMAIN order = {}
        <5> SUFFICES ASSUME NEW j \in DOMAIN order PROVE FALSE
          OBVIOUS
        <5>1. /\ Len(q) + j \in DOMAIN (q \o order) /\ Len(q) + j > k
              /\ (q \o order)[Len(q) + j] = order[j]
          BY <2>1, <3>8, <2>5
        <5>2. Len(q) + j \in DOMAIN queue'[d] /\ queue'[d][Len(q) + j] = <<g, s>>
          BY <2>1, <3>3, <5>1
        <5> QED BY <3>8, <5>1, <5>2
      <4>2. Changes(r) = {}
        BY <1>1, <4>1
      <4>3. GroupSpeed(g, s) \in dev[d]
        BY <1>4, <3>4, <4>2, SpeedOfGroup DEF Changes
      <4>4. GroupSpeed(g, val) \in dev[d] /\ val \in Speeds
        BY <2>2, <3>8
      <4>5. \E x \in Speeds : SpeedsIn(dev[d], g) = {x}
        BY SpeedFacts DEF Hardware
      <4>6. val = s
        BY <4>3, <4>4, <4>5, SpeedFacts
      <4> QED BY <3>5, <3>8, <4>6
    <3> QED BY <3>6, <3>7, <3>8
  <2> QED BY <2>3, <2>4 DEF GroupShape
<1> QED BY <1>3, <1>4

(* What a Set changes, the thread that sends it follows.                   *)
LEMMA ExecuteSettled ==
    ASSUME SyncInv, NEW c \in Clients, pc[c] = "busy", NEW r \in Request,
           GroupShape(r), CoveredBy(r, then[c]), Execute(r),
           pc' = pc, then' = then, got' = got, db' = db,
           NEW d \in Devices, NEW u \in Units
    PROVE  Settled(d, u)'
<1>0. TypeOK /\ Hardware
  BY DEF SyncInv
<1>1. missed \subseteq missed'
  BY DEF Execute
<1>2. Announced(d, u) => Announced(d, u)'
  <2> SUFFICES ASSUME NEW k \in DOMAIN queue[d], u = <<"port_group", queue[d][k][1]>>
               PROVE  \E j \in DOMAIN queue'[d] : u = <<"port_group", queue'[d][j][1]>>
    BY DEF Announced
  <2>1. PICK order \in Seq(Groups \X Speeds) : queue' = [queue EXCEPT ![Target(r)] = @ \o order]
    BY <1>0, ExecuteQueue
  <2>2. queue[d] \in Seq(Groups \X Speeds)
    BY <1>0 DEF TypeOK
  <2>3. k \in DOMAIN (queue[d] \o order) /\ (queue[d] \o order)[k] = queue[d][k]
    BY <2>1, <2>2, Joined
  <2>4. queue'[d] = queue[d] \/ queue'[d] = queue[d] \o order
    BY <1>0, <2>1 DEF TypeOK
  <2> QED BY <2>3, <2>4
<1>3. CASE Of(dev'[d], u) = Of(dev[d], u)
  <2>1. Seen(u, dev'[d]) = Seen(u, dev[d])
    BY <1>3, SeenOf
  <2>2. \A k \in Clients : SureFollows(k, d, u) => SureFollows(k, d, u)'
    BY <1>3 DEF SureFollows
  <2> QED BY <1>1, <1>2, <2>1, <2>2 DEF SyncInv, Settled
<1>5. CASE Of(dev'[d], u) = Of(db[d], u)
  <2>1. Seen(u, dev'[d]) = Seen(u, db'[d])
    BY <1>5, SeenOf
  <2> QED BY <2>1 DEF Settled
<1>6. CASE <<d, u>> \in missed'
  BY <1>6 DEF Settled
<1>4. CASE /\ Of(dev'[d], u) # Of(dev[d], u)
           /\ Of(dev'[d], u) # Of(db[d], u) /\ <<d, u>> \notin missed'
  <2>1. d = Target(r)
    BY <1>0, <1>4, ExecuteChanges
  <2>2. PICK f \in Changed(r) : UnitOf(f) = u
    BY <1>0, <1>4, ExecuteChanges
  <2>3. CASE UnitOf(f) \in Lost(r)
    BY <2>1, <2>2, <2>3 DEF Execute, Settled
  <2>4. CASE f[1] = "port_group"
    BY <1>0, <1>4, <2>1, <2>2, <2>4, ExecuteAnnounces DEF Settled
  <2>5. CASE \E k \in DOMAIN then[c] : DeviceOf(then[c][k]) = Target(r) /\ UnitOf(f) \in Sure(then[c][k])
    <3>1. SureFollows(c, d, u)'
      BY <2>1, <2>2, <2>5 DEF SureFollows
    <3> QED BY <3>1 DEF Settled
  <2> QED BY <2>3, <2>4, <2>5 DEF CoveredBy
<1> QED BY <1>3, <1>4, <1>5, <1>6

LEMMA SyncSets ==
    ASSUME SyncInv, TypeOK', NEW c \in Clients, Set(c) \/ SetNotSent(c) \/ SetRaises(c)
    PROVE  SyncInv'
<1> DEFINE r == Head(reqs[c])
<1>0. TypeOK /\ Hardware /\ LastIsRight
  BY DEF SyncInv
<1>1. pc[c] = "busy" /\ reqs[c] # <<>> /\ reqs[c] \in Seq(Request)
  BY <1>0 DEF Set, SetNotSent, SetRaises, Sending, TypeOK
<1>2. r \in Request /\ r = reqs[c][1] /\ 1 \in DOMAIN reqs[c]
  BY <1>1
<1>3. PortShape(r) /\ GroupShape(r) /\ CoveredBy(r, then[c])
  BY <1>2 DEF SyncInv, Covers
<1>4. /\ db' = db /\ pc' = pc /\ then' = then /\ got' = got
      /\ Execute(r) \/ (dev' = dev /\ queue' = queue /\ missed' = missed)
  BY DEF Set, SetNotSent, SetRaises
<1>5. \A k \in Clients : Covers(reqs'[k], then'[k]) /\ Alone(then'[k])
  <2>1. ASSUME NEW k \in DOMAIN Tail(reqs[c])
        PROVE  k + 1 \in DOMAIN reqs[c] /\ Tail(reqs[c])[k] = reqs[c][k + 1]
    BY <1>1
  <2>2. Covers(Tail(reqs[c]), then[c])
    BY <2>1 DEF SyncInv, Covers
  <2>3. Covers(<<>>, then[c])
    BY DEF Covers
  <2>4. reqs' = [reqs EXCEPT ![c] = Tail(reqs[c])] \/ reqs' = [reqs EXCEPT ![c] = <<>>]
    BY DEF Set, SetNotSent, SetRaises
  <2>5. \A k \in Clients \ {c} : reqs'[k] = reqs[k]
    BY <1>0, <2>4 DEF TypeOK
  <2>6. Covers(reqs'[c], then[c])
    BY <1>0, <2>2, <2>3, <2>4 DEF TypeOK
  <2> QED BY <1>4, <2>5, <2>6 DEF SyncInv
<1>6. GotCovered'
  BY <1>4 DEF SyncInv, GotCovered, Current
<1>7. CASE Execute(r)
  <2>1. \A d \in Devices : PortsWhole(dev'[d]) /\ OneSpeed(dev'[d])
    <3> TAKE d \in Devices
    <3>1. dev'[d] = dev[d] \/ dev'[d] = Executed(dev[d], r)
      BY <1>0, <1>7 DEF Execute, TypeOK
    <3>2. dev[d] \in SUBSET Facts /\ PortsWhole(dev[d]) /\ OneSpeed(dev[d])
      BY <1>0 DEF TypeOK, Hardware
    <3>3. PortsWhole(Executed(dev[d], r)) /\ OneSpeed(Executed(dev[d], r))
      BY <1>0, <1>2, <1>3, <3>2, ExecuteHardware
    <3> QED BY <3>1, <3>2, <3>3
  <2>2. Hardware'
    BY <1>0, <1>4, <2>1 DEF Hardware
  <2>3. LastIsRight'
    BY <1>0, <1>2, <1>3, <1>7, ExecuteLast
  <2>4. \A d \in Devices, u \in Units : Settled(d, u)'
    BY <1>1, <1>2, <1>3, <1>4, <1>7, ExecuteSettled
  <2> QED BY <1>5, <1>6, <2>2, <2>3, <2>4 DEF SyncInv
<1>8. CASE dev' = dev /\ queue' = queue /\ missed' = missed
  <2>1. Hardware' /\ LastIsRight'
    BY <1>0, <1>4, <1>8 DEF Hardware, LastIsRight
  <2>2. \A d \in Devices, u \in Units : Settled(d, u)'
    <3> HIDE DEF r
    <3>1. UNCHANGED <<dev, db, queue, missed, pc, then, got>>
      BY <1>4, <1>8
    <3>2. \A k \in Clients, d \in Devices, u \in Units : SureFollows(k, d, u)' <=> SureFollows(k, d, u)
      BY <3>1 DEF SureFollows
    <3>3. \A d \in Devices, u \in Units : Announced(d, u)' <=> Announced(d, u)
      BY <3>1 DEF Announced
    <3> QED BY <3>1, <3>2, <3>3 DEF SyncInv, Settled
  <2> QED BY <1>5, <1>6, <2>1, <2>2 DEF SyncInv
<1> QED BY <1>4, <1>7, <1>8

(* A step of a thread that has sent its requests, and its discoveries.     *)
LEMMA OthersFollow ==
    ASSUME SyncInv, NEW c \in Clients, reqs[c] = <<>>, reqs' = reqs,
           NEW th, then' = [then EXCEPT ![c] = th], Alone(th), dev' = dev,
           \A k \in Clients \ {c} : pc'[k] = pc[k] /\ got'[k] = got[k]
    PROVE  /\ \A k \in Clients : Covers(reqs'[k], then'[k]) /\ Alone(then'[k])
           /\ \A k \in Clients \ {c}, d \in Devices, u \in Units :
                  SureFollows(k, d, u) => SureFollows(k, d, u)'
<1>1. \A k \in Clients \ {c} : then'[k] = then[k]
  BY DEF SyncInv, TypeOK
<1>2. then'[c] = th
  BY DEF SyncInv, TypeOK
<1>3. \A k \in Clients : Covers(reqs'[k], then'[k]) /\ Alone(then'[k])
  BY <1>1, <1>2 DEF SyncInv, Covers
<1>4. \A k \in Clients \ {c}, d \in Devices, u \in Units :
          SureFollows(k, d, u) => SureFollows(k, d, u)'
  BY <1>1 DEF SureFollows
<1> QED BY <1>3, <1>4

LEMMA OnlyOne ==
    ASSUME SyncInv, NEW c \in Clients, then[c] # <<>>, Prelude(Current(c)) # "none",
           NEW d, NEW u, SureFollows(c, d, u)
    PROVE  d = DeviceOf(Current(c)) /\ u \in Sure(Current(c))
<1>1. then[c] \in Seq(Entry) /\ Current(c) = then[c][1] /\ 1 \in DOMAIN then[c]
  BY DEF SyncInv, TypeOK, Current
<1>2. Len(then[c]) = 1
  BY <1>1 DEF SyncInv, Alone
<1>3. DOMAIN then[c] = {1}
  BY <1>1, <1>2
<1> QED BY <1>1, <1>3 DEF SureFollows

LEMMA PortUnitsFacts ==
    /\ \A is, i : <<"interface", i>> \in PortUnits(is) <=> i \in is
    /\ \A is, js : PortUnits(is) = PortUnits(js) => is = js
<1>1. \A is, i : <<"interface", i>> \in PortUnits(is) <=> i \in is
  BY DEF PortUnits
<1>2. ASSUME NEW is, NEW js, PortUnits(is) = PortUnits(js) PROVE is = js
  <2>1. \A i : i \in is <=> i \in js
    BY <1>1, <1>2, Zenon
  <2> QED BY <2>1
<1> QED BY <1>1, <1>2

(* What forget_parts forgets is clear from what it covers.                 *)
LEMMA PartsClear ==
    ASSUME NEW i \in Interfaces, NEW j \in Interfaces,
           PortUnits({i} \cup Parts[i]) = PortUnits({j} \cup Parts[j])
    PROVE  i = j
<1>1. {i} \cup Parts[i] = {j} \cup Parts[j]
  BY PortUnitsFacts
<1>2. ASSUME i # j PROVE FALSE
  <2>1. i \in Parts[j] /\ j \in Parts[i]
    BY <1>1, <1>2
  <2>2. Parts[i] = {}
    BY <2>1, HardwareAssumption
  <2> QED BY <2>1, <2>2
<1> QED BY <1>2

LEMMA SyncForgetParts ==
    ASSUME SyncInv, TypeOK', NEW c \in Clients, ForgetParts(c)
    PROVE  SyncInv'
<1> DEFINE e == Current(c)
           d == DeviceOf(e)
<1>0. TypeOK /\ Hardware /\ LastIsRight /\ GotCovered
  BY DEF SyncInv
<1>1. /\ pc[c] = "busy" /\ reqs[c] = <<>> /\ then[c] # <<>> /\ Prelude(e) = "forget_parts"
      /\ dev' = dev /\ queue' = queue /\ pc' = pc /\ reqs' = reqs /\ got' = got
  BY DEF ForgetParts, Discovering
<1>2. d \in Devices
  BY <1>0, <1>1, CurrentType
<1>3. PICK i \in Interfaces :
        /\ PortUnits({i} \cup Parts[i]) = Covered(e)
        /\ db' = [db EXCEPT ![d] = Standing(db[d] \ OfAll(db[d], PortUnits(Parts[i])))]
        /\ missed' = (missed \ ({d} \X PortUnits(Parts[i])))
             \cup ({d} \X PortUnits({j \in Parts[i] : Of(dev[d], <<"interface", j>>) # {}}))
             \cup Uprooted(d, db[d] \ OfAll(db[d], PortUnits(Parts[i])), dev[d])
        /\ then' = [then EXCEPT ![c] = IF i \in PortsIn(db[d])
                                       THEN discover_interface(d, i) ELSE <<>>]
  BY DEF ForgetParts
<1> DEFINE gone == PortUnits(Parts[i])
           left == db[d] \ OfAll(db[d], gone)
           th == IF i \in PortsIn(db[d]) THEN discover_interface(d, i) ELSE <<>>
<1>4. Alone(th)
  <2>1. Alone(<<>>)
    BY DEF Alone
  <2>2. Alone(discover_interface(d, i))
    BY DEF Alone, discover_interface, Discover, Prelude
  <2> QED BY <2>1, <2>2
<1>5. /\ \A k \in Clients : Covers(reqs'[k], then'[k]) /\ Alone(then'[k])
      /\ \A k \in Clients \ {c}, x \in Devices, u \in Units :
             SureFollows(k, x, u) => SureFollows(k, x, u)'
  <2>1. then' = [then EXCEPT ![c] = th]
    BY <1>3
  <2> HIDE DEF th
  <2> QED BY <1>1, <1>4, <2>1, OthersFollow
<1>6. GotCovered'
  <2>1. \A k \in Clients : pc'[k] = "insert" => then'[k] = then[k]
    BY <1>0, <1>1, <1>3 DEF TypeOK
  <2> QED BY <1>0, <1>1, <2>1 DEF GotCovered, Current
<1>7. \A x \in Devices : db'[x] = IF x = d THEN Standing(left) ELSE db[x]
  BY <1>0, <1>3 DEF TypeOK
<1>8. ASSUME NEW x \in Devices PROVE PortsWhole(db'[x]) /\ OneSpeed(db'[x])
  <2>1. CASE x # d
    BY <1>0, <1>7, <2>1 DEF Hardware
  <2>2. CASE x = d
    <3>1. db'[x] = Standing(left) /\ PortsWhole(db[x]) /\ OneSpeed(db[x]) /\ x = d
      BY <1>0, <1>7, <2>2 DEF Hardware
    <3>2. \A f : f[1] = "interface" => UnitOf(f) = UnitOf(Port(f[2]))
      BY UnitOfPort, UnitKinds
    <3>3. PortsWhole(left)
      BY <3>1, <3>2 DEF PortsWhole, OfAll
    <3>4. \A g : <<"port_group", g>> \notin gone
      BY DEF PortUnits
    <3>5. \A g \in Groups : SpeedsIn(left, g) = SpeedsIn(db[x], g)
      BY <3>1, <3>4, UnitOfPort DEF SpeedsIn, OfAll
    <3>6. OneSpeed(left)
      BY <3>1, <3>5, SpeedFacts
    <3> HIDE DEF left
    <3> QED BY <3>1, <3>3, <3>6, StandingElsewhere
  <2> QED BY <2>1, <2>2
<1>9. Hardware' /\ LastIsRight'
  BY <1>0, <1>1, <1>8 DEF Hardware, LastIsRight
<1>10. ASSUME NEW x \in Devices, NEW u \in Units PROVE Settled(x, u)'
  <2>1. CASE x = d /\ u \in gone
    <3>1. PICK j \in Parts[i] : u = <<"interface", j>>
      BY <2>1 DEF PortUnits
    <3>2. CASE Of(dev[d], u) = {}
      <4>1. Of(db'[x], u) = {}
        <5>1. Of(left, u) = {}
          BY <2>1 DEF Of, OfAll
        <5> HIDE DEF left
        <5> QED BY <1>7, <2>1, <5>1, StandingFacts DEF Of
      <4> QED BY <1>1, <2>1, <3>2, <4>1, SeenOf DEF Settled
    <3>3. CASE Of(dev[d], u) # {}
      <4>1. u \in PortUnits({y \in Parts[i] : Of(dev[d], <<"interface", y>>) # {}})
        BY <3>1, <3>3 DEF PortUnits
      <4>2. <<x, u>> \in missed'
        BY <1>3, <2>1, <4>1
      <4> QED BY <4>2 DEF Settled
    <3> QED BY <3>2, <3>3
  <2>3. CASE <<x, u>> \in missed' \/ Of(db'[x], u) = Of(dev[x], u)
    BY <1>1, <2>3, SeenOf DEF Settled
  <2>2. CASE /\ ~(x = d /\ u \in gone)
             /\ <<x, u>> \notin missed' /\ Of(db'[x], u) # Of(dev[x], u)
    <3>1. Of(db'[x], u) = Of(db[x], u)
      <4>1. CASE x = d
        <5>1. Uprooted(d, left, dev[d]) \subseteq missed'
          BY <1>3
        <5>2. Of(left, u) = Of(db[d], u)
          BY <2>2, <4>1 DEF Of, OfAll
        <5> HIDE DEF left
        <5>3. \/ Of(Standing(left), u) = Of(left, u)
              \/ Of(Standing(left), u) = Of(dev[d], u)
              \/ <<d, u>> \in Uprooted(d, left, dev[d])
          BY StandingOrMissed
        <5> QED BY <1>7, <2>2, <4>1, <5>1, <5>2, <5>3
      <4>2. CASE x # d
        BY <1>7, <4>2
      <4> QED BY <4>1, <4>2
    <3>2. Seen(u, db'[x]) = Seen(u, db[x])
      BY <3>1, SeenOf
    <3>3. <<x, u>> \in missed => <<x, u>> \in missed'
      BY <1>3, <2>2
    <3>4. ~SureFollows(c, x, u)
      <4> SUFFICES ASSUME SureFollows(c, x, u) PROVE FALSE
        OBVIOUS
      <4>1. x = d /\ u \in Sure(e)
        BY <1>1, OnlyOne
      <4>2. PICK j \in Interfaces : PortUnits({j} \cup Parts[j]) = Covered(e) /\ u \in PortUnits(Parts[j])
        BY <1>1, <4>1 DEF Sure
      <4>3. i = j
        BY <1>3, <4>2, PartsClear
      <4> QED BY <2>2, <4>1, <4>2, <4>3
    <3> QED BY <1>1, <1>5, <3>2, <3>3, <3>4 DEF SyncInv, Settled, Announced
  <2> QED BY <2>1, <2>2, <2>3
<1> QED BY <1>5, <1>6, <1>9, <1>10 DEF SyncInv

LEMMA SyncLookUpMembers ==
    ASSUME SyncInv, TypeOK', NEW c \in Clients, LookUpMembers(c)
    PROVE  SyncInv'
<1> DEFINE e == Current(c)
           d == DeviceOf(e)
<1>0. TypeOK /\ Hardware /\ LastIsRight /\ GotCovered
  BY DEF SyncInv
<1>1. /\ pc[c] = "busy" /\ reqs[c] = <<>> /\ then[c] # <<>> /\ Prelude(e) = "look_up_members"
      /\ dev' = dev /\ db' = db /\ queue' = queue /\ pc' = pc /\ reqs' = reqs /\ got' = got
  BY DEF LookUpMembers, Discovering
<1>2. d \in Devices
  BY <1>0, <1>1, CurrentType
<1> PICK g \in Groups :
        /\ PortUnits(Members[g]) = Covered(e)
        /\ \E order \in Orders({i \in Members[g] : <<g, i>> \in ties[d]}) :
            then' = [then EXCEPT ![c] = [k \in DOMAIN order |-> Discover(d, PortUnits({order[k]}))]]
        /\ missed' = missed \cup ({d} \X PortUnits(
               {j \in Members[g] \ {i \in Members[g] : <<g, i>> \in ties[d]} :
                    Port(j) \in dev[d] \cup db[d]}))
  BY DEF LookUpMembers
<1> DEFINE members == Members[g]
           known == {i \in Members[g] : <<g, i>> \in ties[d]}
<1>3. PICK order \in Orders(known) :
        then' = [then EXCEPT ![c] = [k \in DOMAIN order |-> Discover(d, PortUnits({order[k]}))]]
  OBVIOUS
<1> DEFINE th == [k \in DOMAIN order |-> Discover(d, PortUnits({order[k]}))]
<1>4. missed' = missed \cup ({d} \X PortUnits(
                    {j \in members \ known : Port(j) \in dev[d] \cup db[d]}))
  OBVIOUS
<1>5. members \subseteq Interfaces /\ IsFiniteSet(known)
  BY PortsAssumption, DevicesAssumption, FS_Subset
<1>6. \A j \in known : \E k \in DOMAIN order : order[k] = j
  <2> HIDE DEF known
  <2> QED BY <1>5, OrderOnto
<1>7. Alone(th)
  BY DEF Alone, Discover, Prelude
<1>8. /\ \A k \in Clients : Covers(reqs'[k], then'[k]) /\ Alone(then'[k])
      /\ \A k \in Clients \ {c}, x \in Devices, u \in Units :
             SureFollows(k, x, u) => SureFollows(k, x, u)'
  <2>1. then' = [then EXCEPT ![c] = th]
    BY <1>3
  <2> HIDE DEF th
  <2> QED BY <1>1, <1>7, <2>1, OthersFollow
<1>9. GotCovered'
  <2>1. \A k \in Clients : pc'[k] = "insert" => then'[k] = then[k]
    BY <1>0, <1>1, <1>3 DEF TypeOK
  <2> QED BY <1>0, <1>1, <2>1 DEF GotCovered, Current
<1>10. Hardware' /\ LastIsRight'
  BY <1>0, <1>1 DEF Hardware, LastIsRight
<1>11. ASSUME NEW x \in Devices, NEW u \in Units PROVE Settled(x, u)'
  <2>1. CASE Seen(u, db[x]) = Seen(u, dev[x]) \/ <<x, u>> \in missed \/ Announced(x, u)
    BY <1>1, <1>4, <2>1 DEF Settled, Announced
  <2>2. ASSUME NEW k \in Clients \ {c}, SureFollows(k, x, u) PROVE Settled(x, u)'
    BY <1>8, <2>2 DEF Settled
  <2>3. ASSUME SureFollows(c, x, u) PROVE Settled(x, u)'
    <3>1. x = d /\ u \in Sure(e)
      BY <1>1, <2>3, OnlyOne
    <3>2. PICK j \in Interfaces : u = <<"interface", j>> /\ j \in members
      <4>1. u \in PortUnits(members)
        BY <3>1 DEF Sure
      <4> QED BY <1>5, <4>1 DEF PortUnits
    <3>3. CASE j \in known
      <4>1. PICK k \in DOMAIN order : order[k] = j
        BY <1>6, <3>3
      <4>2. then'[c] = th
        BY <1>0, <1>3 DEF TypeOK
      <4>3. k \in DOMAIN then'[c] /\ then'[c][k] = Discover(d, PortUnits({j}))
        BY <4>1, <4>2
      <4>4. u \in PortUnits({j})
        BY <3>2 DEF PortUnits
      <4>5. DeviceOf(then'[c][k]) = x /\ u \in Sure(then'[c][k])
        <5>1. then'[c][k] = <<x, PortUnits({j}), "none">>
          BY ONLY <3>1, <4>3 DEF Discover
        <5> QED BY ONLY <4>4, <5>1 DEF Sure, DeviceOf, Covered, Prelude
      <4>6. SureFollows(c, x, u)'
        BY <1>1, <4>3, <4>5 DEF SureFollows
      <4> QED BY <4>6 DEF Settled
    <3>4. CASE j \notin known /\ Port(j) \in dev[d] \cup db[d]
      <4>1. u \in PortUnits({y \in members \ known : Port(y) \in dev[d] \cup db[d]})
        BY <3>2, <3>4 DEF PortUnits
      <4>2. <<x, u>> \in missed'
        BY <1>4, <3>1, <4>1
      <4> QED BY <4>2 DEF Settled
    <3>5. CASE j \notin known /\ Port(j) \notin dev[d] \cup db[d]
      <4>1. ASSUME NEW y, PortsWhole(y), Port(j) \notin y PROVE Of(y, u) = {}
        <5> SUFFICES ASSUME NEW f \in y, UnitOf(f) = u PROVE FALSE
          BY DEF Of
        <5>1. f[1] = "interface" /\ f[2] = j
          BY <3>2, UnitKinds
        <5> QED BY <4>1, <5>1 DEF PortsWhole
      <4>2. Of(db[d], u) = {} /\ Of(dev[d], u) = {}
        BY <1>0, <1>2, <3>5, <4>1 DEF Hardware
      <4>3. Seen(u, db[x]) = Seen(u, dev[x])
        BY ONLY <3>1, <4>2, SeenOf
      <4> QED BY ONLY <1>1, <4>3 DEF Settled
    <3> QED BY <3>3, <3>4, <3>5
  <2> QED BY <2>1, <2>2, <2>3 DEF SyncInv, Settled
<1> QED BY <1>8, <1>9, <1>10, <1>11 DEF SyncInv

LEMMA SyncAnswers ==
    ASSUME SyncInv, TypeOK', NEW c \in Clients, Get(c) \/ GetNothing(c)
    PROVE  SyncInv'
<1> DEFINE e == Current(c)
           d == DeviceOf(e)
           full == OfAll(dev[d], Covered(e))
<1>0. TypeOK /\ Hardware /\ LastIsRight /\ GotCovered
  BY DEF SyncInv
<1>1. /\ pc[c] = "busy" /\ reqs[c] = <<>> /\ then[c] # <<>> /\ Prelude(e) = "none"
      /\ pc' = [pc EXCEPT ![c] = "insert"]
      /\ dev' = dev /\ db' = db /\ queue' = queue /\ reqs' = reqs /\ then' = then
  BY DEF Get, GetNothing, Ask, Discovering
<1>2. d \in Devices /\ then[c] \in Seq(Entry)
  BY <1>0, <1>1, CurrentType
<1>3. \/ got' = [got EXCEPT ![c] = full] /\ missed' = missed
      \/ got' = [got EXCEPT ![c] = {}] /\ missed' = missed \cup ({d} \X Covered(e))
  BY DEF Get, GetNothing, Ask
<1>4. \A k \in Clients \ {c} : pc'[k] = pc[k] /\ got'[k] = got[k]
  BY <1>0, <1>1, <1>3 DEF TypeOK
<1>5. pc'[c] = "insert" /\ got'[c] \in {full, {}}
  BY <1>0, <1>1, <1>3 DEF TypeOK
<1>6. /\ \A k \in Clients : Covers(reqs'[k], then'[k]) /\ Alone(then'[k])
      /\ \A k \in Clients \ {c}, x \in Devices, u \in Units :
             SureFollows(k, x, u) => SureFollows(k, x, u)'
  <2>1. then' = [then EXCEPT ![c] = then[c]] /\ Alone(then[c])
    BY <1>0, <1>1 DEF TypeOK, SyncInv
  <2> QED BY <1>1, <1>4, <2>1, OthersFollow
<1>7. GotCovered'
  <2>1. \A f \in got'[c] : UnitOf(f) \in Covered(e)
    BY <1>5 DEF OfAll
  <2>2. \A k \in Clients : Head(then'[k]) = Head(then[k])
    BY <1>1
  <2> QED BY <1>0, <1>4, <2>1, <2>2 DEF GotCovered, Current
<1>8. Hardware'
  <2>1. PortsWhole(full)
    <3>1. \A f : f[1] = "interface" => UnitOf(f) = UnitOf(Port(f[2]))
      BY UnitOfPort, UnitKinds
    <3> QED BY <1>0, <1>2, <3>1 DEF Hardware, PortsWhole, OfAll
  <2>2. PortsWhole({})
    BY DEF PortsWhole
  <2>3. ASSUME NEW g \in Groups, NEW s \in Speeds, NEW t \in Speeds,
               GroupSpeed(g, s) \in dev[d], GroupSpeed(g, t) \in dev[d]
        PROVE  s = t
    <3>1. \E x \in Speeds : SpeedsIn(dev[d], g) = {x}
      BY <1>0, <1>2, SpeedFacts DEF Hardware
    <3> QED BY <2>3, <3>1, SpeedFacts
  <2>4. PortsWhole(got'[c]) /\ got'[c] \subseteq dev[d]
    BY <1>5, <2>1, <2>2 DEF OfAll
  <2>5. \A k \in Clients :
          /\ PortsWhole(got'[k])
          /\ \A g \in Groups, s, t \in Speeds :
              GroupSpeed(g, s) \in got'[k] /\ GroupSpeed(g, t) \in got'[k] => s = t
    BY <1>0, <1>4, <2>3, <2>4 DEF Hardware
  <2> QED BY <1>0, <1>1, <2>5 DEF Hardware
<1>9. LastIsRight'
  BY <1>0, <1>1 DEF LastIsRight
<1>10. ASSUME NEW x \in Devices, NEW u \in Units PROVE Settled(x, u)'
  <2>1. CASE Seen(u, db[x]) = Seen(u, dev[x]) \/ <<x, u>> \in missed \/ Announced(x, u)
    BY <1>1, <1>3, <2>1 DEF Settled, Announced
  <2>2. ASSUME NEW k \in Clients \ {c}, SureFollows(k, x, u) PROVE Settled(x, u)'
    BY <1>6, <2>2 DEF Settled
  <2>3. ASSUME SureFollows(c, x, u) PROVE Settled(x, u)'
    <3>1. PICK k \in DOMAIN then[c] : DeviceOf(then[c][k]) = x /\ u \in Sure(then[c][k])
      BY <2>3 DEF SureFollows
    <3>2. then[c][1] = e
      BY <1>1, <1>2 DEF Current
    <3>3. CASE k # 1
      BY <1>1, <3>1, <3>3 DEF Settled, SureFollows
    <3>4. CASE k = 1 /\ got'[c] = full
      <4>1. x = d /\ u \in Covered(e)
        BY <3>1, <3>2, <3>4 DEF Sure
      <4>2. Of(got'[c], u) = Of(dev'[x], u)
        BY <1>1, <3>4, <4>1 DEF Of, OfAll
      <4> QED BY <1>1, <3>1, <4>2 DEF Settled, SureFollows
    <3>5. CASE k = 1 /\ got'[c] # full
      <4>1. x = d /\ u \in Covered(e)
        BY <3>1, <3>2, <3>5 DEF Sure
      <4>2. missed' = missed \cup ({d} \X Covered(e))
        BY <1>0, <1>3, <3>5 DEF TypeOK
      <4> QED BY <4>1, <4>2 DEF Settled
    <3> QED BY <1>5, <3>3, <3>4, <3>5
  <2> QED BY <2>1, <2>2, <2>3 DEF SyncInv, Settled
<1> QED BY <1>6, <1>7, <1>8, <1>9, <1>10 DEF SyncInv

LEMMA TailAlone ==
    ASSUME NEW S, NEW th \in Seq(S), th # <<>>, Alone(th)
    PROVE  /\ Alone(Tail(th))
           /\ \A k \in DOMAIN th : k # 1 => k - 1 \in DOMAIN Tail(th) /\ Tail(th)[k - 1] = th[k]
<1>1. \A k \in DOMAIN Tail(th) : k + 1 \in DOMAIN th /\ Tail(th)[k] = th[k + 1]
  OBVIOUS
<1>2. \A k \in DOMAIN th : k # 1 => k - 1 \in DOMAIN Tail(th) /\ Tail(th)[k - 1] = th[k]
  OBVIOUS
<1>3. ASSUME NEW k \in DOMAIN Tail(th), Prelude(Tail(th)[k]) # "none" PROVE FALSE
  <2>1. Len(th) = 1
    BY <1>1, <1>3 DEF Alone
  <2>2. k \in 1..(Len(th) - 1)
    OBVIOUS
  <2> QED BY <2>1, <2>2
<1> QED BY <1>2, <1>3 DEF Alone

LEMMA SyncGetRaises ==
    ASSUME SyncInv, TypeOK', NEW c \in Clients, GetRaises(c)
    PROVE  SyncInv'
<1> DEFINE dropped == IF resume[c] THEN {1} ELSE DOMAIN then[c]
           th == IF resume[c] THEN Tail(then[c]) ELSE <<>>
<1>0. TypeOK /\ Hardware /\ LastIsRight /\ GotCovered
  BY DEF SyncInv
<1>1. /\ pc[c] = "busy" /\ reqs[c] = <<>> /\ then[c] # <<>>
      /\ dev' = dev /\ db' = db /\ queue' = queue /\ pc' = pc /\ reqs' = reqs /\ got' = got
      /\ then' = [then EXCEPT ![c] = th]
      /\ missed' = missed
           \cup UNION {{DeviceOf(then[c][k])} \X Covered(then[c][k]) : k \in dropped}
  BY DEF GetRaises, Discovering
<1>2. then[c] \in Seq(Entry) /\ Alone(then[c])
  BY DEF SyncInv, TypeOK
<1>3. /\ Alone(Tail(then[c]))
      /\ \A k \in DOMAIN then[c] : k # 1 =>
             k - 1 \in DOMAIN Tail(then[c]) /\ Tail(then[c])[k - 1] = then[c][k]
  BY <1>1, <1>2, TailAlone
<1>4. Alone(th)
  BY <1>3 DEF Alone
<1>5. /\ \A k \in Clients : Covers(reqs'[k], then'[k]) /\ Alone(then'[k])
      /\ \A k \in Clients \ {c}, x \in Devices, u \in Units :
             SureFollows(k, x, u) => SureFollows(k, x, u)'
  <2> HIDE DEF th
  <2> QED BY <1>1, <1>4, OthersFollow
<1>6. GotCovered'
  <2>1. \A k \in Clients : pc'[k] = "insert" => then'[k] = then[k]
    BY <1>0, <1>1 DEF TypeOK
  <2> QED BY <1>0, <1>1, <2>1 DEF GotCovered, Current
<1>7. Hardware' /\ LastIsRight'
  BY <1>0, <1>1 DEF Hardware, LastIsRight
<1>8. ASSUME NEW x \in Devices, NEW u \in Units PROVE Settled(x, u)'
  <2>1. CASE Seen(u, db[x]) = Seen(u, dev[x]) \/ <<x, u>> \in missed \/ Announced(x, u)
    BY <1>1, <2>1 DEF Settled, Announced
  <2>2. ASSUME NEW k \in Clients \ {c}, SureFollows(k, x, u) PROVE Settled(x, u)'
    BY <1>5, <2>2 DEF Settled
  <2>3. ASSUME SureFollows(c, x, u) PROVE Settled(x, u)'
    <3>1. PICK k \in DOMAIN then[c] : DeviceOf(then[c][k]) = x /\ u \in Sure(then[c][k])
      BY <2>3 DEF SureFollows
    <3>2. CASE k \in dropped
      <4>1. <<x, u>> \in {DeviceOf(then[c][k])} \X Covered(then[c][k])
        BY <3>1 DEF Sure
      <4>2. <<x, u>> \in missed'
        BY <1>1, <3>2, <4>1
      <4> QED BY <4>2 DEF Settled
    <3>3. CASE k \notin dropped
      <4>1. k # 1 /\ then'[c] = Tail(then[c])
        BY <1>0, <1>1, <3>1, <3>3 DEF TypeOK
      <4>2. k - 1 \in DOMAIN then'[c] /\ then'[c][k - 1] = then[c][k]
        BY <1>3, <3>1, <4>1
      <4>3. SureFollows(c, x, u)'
        BY <1>1, <3>1, <4>2 DEF SureFollows
      <4> QED BY <4>3 DEF Settled
    <3> QED BY <3>2, <3>3
  <2> QED BY <2>1, <2>2, <2>3 DEF SyncInv, Settled
<1> QED BY <1>5, <1>6, <1>7, <1>8 DEF SyncInv

(* What an answer decides is among what was asked for: all features, and   *)
(* the groups and ports that it has, at least.                             *)
LEMMA DecidedFacts ==
    ASSUME NEW us \in SUBSET Units, NEW answer
    PROVE  /\ Decided(us, answer) \subseteq us
           /\ \A f \in Features : Whole(f) \in us => Whole(f) \in Decided(us, answer)
           /\ \A g \in Groups : <<"port_group", g>> \in Decided(us, answer)
                                    => g \in GroupsIn(answer)
<1>1. Decided(us, answer) \subseteq us
  BY DEF Decided, insert_device_interfaces_in_db, insert_device_port_groups_in_db
<1>2. \A f \in Features : Whole(f) \in us => Whole(f) \in Decided(us, answer)
  BY DEF Decided, Whole
<1>3. ASSUME NEW g \in Groups, <<"port_group", g>> \in Decided(us, answer)
      PROVE  g \in GroupsIn(answer)
  <2>1. \A is : <<"port_group", g>> \notin PortUnits(is)
    BY DEF PortUnits
  <2>2. <<"port_group", g>>[1] \notin Features
    BY DEF Features
  <2>3. <<"port_group", g>> \notin insert_device_interfaces_in_db(us, answer)
    BY <2>1 DEF insert_device_interfaces_in_db
  <2>4. <<"port_group", g>> \in insert_device_port_groups_in_db(us, answer)
    BY <1>3, <2>2, <2>3 DEF Decided
  <2> QED BY <2>4 DEF insert_device_port_groups_in_db
<1> QED BY <1>1, <1>2, <1>3

LEMMA SyncInsert ==
    ASSUME SyncInv, TypeOK', NEW c \in Clients, Insert(c)
    PROVE  SyncInv'
<1> DEFINE e == Current(c)
           d == DeviceOf(e)
           answer == got[c]
           decided == Decided(Covered(e), answer)
           current == {u \in decided : Of(answer, u) = Of(dev[d], u)}
               \cup {u \in Covered(e) \ decided : Of(db[d], u) = {} /\ Of(dev[d], u) = {}}
           th == Tail(then[c])
<1>0. TypeOK /\ Hardware /\ LastIsRight /\ GotCovered
  BY DEF SyncInv
<1>1. /\ pc[c] = "insert" /\ reqs[c] = <<>> /\ then[c] # <<>>
      /\ dev' = dev /\ queue' = queue /\ reqs' = reqs
      /\ pc' = [pc EXCEPT ![c] = "busy"] /\ got' = [got EXCEPT ![c] = {}]
      /\ then' = [then EXCEPT ![c] = th]
  BY <1>0 DEF Insert, InsertAnswer, TypeOK
<1>2. /\ d \in Devices /\ Covered(e) \in SUBSET Units /\ then[c] \in Seq(Entry)
      /\ then[c][1] = e /\ Alone(then[c])
  BY <1>0, <1>1, CurrentType DEF Current, SyncInv
<1>3. PICK kept \in _create_bgp_graph_objects(GlobalsOf(answer)) :
        LET store == (db[d] \ OfAll(db[d], decided)) \cup Stored(db[d], answer, kept, decided)
        IN  /\ db' = [db EXCEPT ![d] = Standing(store)]
            /\ missed' = (missed \ ({d} \X current)) \cup ({d} \X (Covered(e) \ current))
                         \cup Uprooted(d, store, dev[d])
  BY DEF Insert, InsertAnswer
<1> DEFINE new == (db[d] \ OfAll(db[d], decided)) \cup Stored(db[d], answer, kept, decided)
<1>16. missed' = (missed \ ({d} \X current)) \cup ({d} \X (Covered(e) \ current))
                 \cup Uprooted(d, new, dev[d])
  BY <1>3
<1>4. \A x \in Devices : db'[x] = IF x = d THEN Standing(new) ELSE db[x]
  <2>1. db' = [db EXCEPT ![d] = Standing(new)]
    BY <1>3
  <2> HIDE DEF new
  <2> QED BY <1>0, <2>1 DEF TypeOK
<1>5. /\ Alone(th)
      /\ \A k \in DOMAIN then[c] : k # 1 => k - 1 \in DOMAIN th /\ th[k - 1] = then[c][k]
  BY <1>1, <1>2, TailAlone
<1>6. \A k \in Clients \ {c} : pc'[k] = pc[k] /\ got'[k] = got[k]
  BY <1>0, <1>1 DEF TypeOK
<1>7. pc'[c] = "busy" /\ got'[c] = {} /\ then'[c] = th
  BY <1>0, <1>1 DEF TypeOK
<1>8. /\ \A k \in Clients : Covers(reqs'[k], then'[k]) /\ Alone(then'[k])
      /\ \A k \in Clients \ {c}, x \in Devices, u \in Units :
             SureFollows(k, x, u) => SureFollows(k, x, u)'
  <2> HIDE DEF th
  <2> QED BY <1>1, <1>5, <1>6, OthersFollow
<1>9. GotCovered'
  <2>1. \A k \in Clients \ {c} : then'[k] = then[k]
    BY <1>0, <1>1 DEF TypeOK
  <2> QED BY <1>0, <1>6, <1>7, <2>1 DEF GotCovered, Current
<1>10. decided \subseteq Covered(e)
  BY <1>2, DecidedFacts
<1>11. \A f \in answer : f[1] = "bgp" => Whole("bgp") \in decided
  <2>1. \A f \in answer : UnitOf(f) \in Covered(e)
    BY <1>0, <1>1 DEF GotCovered
  <2>2. \A f \in answer : f[1] = "bgp" => Whole("bgp") \in Covered(e)
    BY <2>1, UnitKinds DEF Features
  <2> QED BY <1>2, <2>2, DecidedFacts DEF Features
<1>12. PortsWhole(new) /\ OneSpeed(new)
  <2>1. PortsWhole(db[d]) /\ OneSpeed(db[d]) /\ PortsWhole(answer)
    BY <1>0, <1>2 DEF Hardware
  <2>2. PortsWhole(new)
    <3> HIDE DEF decided, answer, d
    <3> QED BY <2>1, InsertionWhole
  <2>3. ASSUME NEW g \in Groups PROVE \E s \in Speeds : SpeedsIn(new, g) = {s}
    <3>1. SpeedsIn(new, g) = IF <<"port_group", g>> \in decided
                             THEN SpeedsIn(answer, g) ELSE SpeedsIn(db[d], g)
      <4> HIDE DEF decided, answer, d
      <4> QED BY InsertionSpeeds
    <3>2. CASE <<"port_group", g>> \in decided
      <4>1. g \in GroupsIn(answer)
        BY <1>2, <3>2, DecidedFacts
      <4>2. PICK s \in Speeds : GroupSpeed(g, s) \in answer
        BY <4>1 DEF GroupsIn
      <4>3. SpeedsIn(answer, g) = {s}
        BY <1>0, <4>2, SpeedFacts DEF Hardware
      <4> QED BY <3>1, <3>2, <4>3
    <3>3. CASE <<"port_group", g>> \notin decided
      BY <2>1, <3>1, <3>3, SpeedFacts
    <3> QED BY <3>2, <3>3
  <2> QED BY <2>2, <2>3, SpeedFacts
<1>13. Hardware'
  <2> HIDE DEF new
  <2>1. \A x \in Devices : PortsWhole(db'[x]) /\ OneSpeed(db'[x])
    BY <1>0, <1>4, <1>12, StandingElsewhere DEF Hardware
  <2>2. PortsWhole({})
    BY DEF PortsWhole
  <2> QED BY <1>0, <1>1, <1>6, <1>7, <2>1, <2>2 DEF Hardware
<1>14. LastIsRight'
  BY <1>0, <1>1 DEF LastIsRight
<1>15. ASSUME NEW x \in Devices, NEW u \in Units PROVE Settled(x, u)'
  <2>1. CASE x = d /\ u \in Covered(e) /\ u \notin current
    <3>1. <<x, u>> \in missed'
      BY <1>16, <2>1
    <3> QED BY <3>1 DEF Settled
  <2>5. CASE <<x, u>> \in missed' \/ Of(db'[x], u) = Of(dev[x], u)
    BY <1>1, <2>5, SeenOf DEF Settled
  <2>6. ASSUME <<x, u>> \notin missed', Of(db'[x], u) # Of(dev[x], u), x = d
        PROVE  Of(db'[x], u) = Of(new, u)
    <3>1. Uprooted(d, new, dev[d]) \subseteq missed'
      BY <1>16
    <3> HIDE DEF new
    <3>2. \/ Of(Standing(new), u) = Of(new, u)
          \/ Of(Standing(new), u) = Of(dev[d], u)
          \/ <<d, u>> \in Uprooted(d, new, dev[d])
      BY StandingOrMissed
    <3> QED BY <1>4, <2>6, <3>1, <3>2
  <2>2. CASE /\ x = d /\ u \in decided /\ u \in current
             /\ <<x, u>> \notin missed' /\ Of(db'[x], u) # Of(dev[x], u)
    <3>1. Of(answer, u) = Of(dev[d], u)
      BY <2>2
    <3>2. Of(new, u) = Of(Stored(db[d], answer, kept, decided), u)
      BY <2>2 DEF Of, OfAll
    <3>3. db[d] \in SUBSET Facts /\ answer \in SUBSET Facts
      BY <1>0, <1>2 DEF TypeOK
    <3>4. Seen(u, Stored(db[d], answer, kept, decided)) = Seen(u, answer)
      <4> HIDE DEF decided, answer, d
      <4> QED BY <2>2, <3>3, StoredSeen
    <3>5. Seen(u, new) = Seen(u, Stored(db[d], answer, kept, decided))
      BY <3>2, SeenOf
    <3>6. Seen(u, answer) = Seen(u, dev[d])
      BY <3>1, SeenOf
    <3>7. Seen(u, db'[x]) = Seen(u, dev'[x])
      <4>1. Seen(u, db'[x]) = Seen(u, new)
        BY <2>2, <2>6, SeenOf
      <4> HIDE DEF new
      <4> QED BY <1>1, <2>2, <3>4, <3>5, <3>6, <4>1
    <3> QED BY <3>7 DEF Settled
  <2>3. CASE /\ x # d \/ u \notin decided
             /\ <<x, u>> \notin missed' /\ Of(db'[x], u) # Of(dev[x], u)
    <3>1. Of(db'[x], u) = Of(db[x], u)
      <4>1. CASE x # d
        BY <1>4, <4>1
      <4>2. CASE x = d /\ u \notin decided
        <5>1. \A f \in Stored(db[d], answer, kept, decided) : UnitOf(f) \in decided
          <6> HIDE DEF decided, answer, d
          <6> QED BY <1>11, StoredElsewhere
        <5>2. Of(new, u) = Of(db[d], u)
          <6> HIDE DEF decided
          <6> QED BY <4>2, <5>1 DEF Of, OfAll
        <5> HIDE DEF new
        <5> QED BY <2>3, <2>6, <4>2, <5>2
      <4> QED BY <2>3, <4>1, <4>2
    <3>2. Seen(u, db'[x]) = Seen(u, db[x])
      BY <3>1, SeenOf
    <3>3. CASE x = d /\ u \in Covered(e)
      <4>1. CASE u \in current
        <5>1. Of(db[d], u) = {} /\ Of(dev[d], u) = {}
          BY <2>3, <3>3, <4>1
        <5>2. Seen(u, db[d]) = Seen(u, dev[d])
          BY <5>1, SeenOf
        <5> QED BY <1>1, <3>2, <3>3, <5>2 DEF Settled
      <4> QED BY <2>1, <3>3, <4>1
    <3>4. CASE ~(x = d /\ u \in Covered(e))
      <4>1. ~(x = d /\ u \in current)
        BY <1>10, <3>4
      <4>2. CASE Seen(u, db[x]) = Seen(u, dev[x]) \/ <<x, u>> \in missed \/ Announced(x, u)
        <5>1. <<x, u>> \in missed => <<x, u>> \in missed'
          <6> HIDE DEF current
          <6> QED BY <1>16, <4>1
        <5> QED BY <1>1, <3>2, <4>2, <5>1 DEF Settled, Announced
      <4>3. ASSUME NEW k \in Clients \ {c}, SureFollows(k, x, u) PROVE Settled(x, u)'
        BY <1>8, <4>3 DEF Settled
      <4>4. ASSUME SureFollows(c, x, u) PROVE Settled(x, u)'
        <5>1. PICK k \in DOMAIN then[c] : DeviceOf(then[c][k]) = x /\ u \in Sure(then[c][k])
          BY <4>4 DEF SureFollows
        <5>2. k # 1
          BY <1>2, <3>4, <5>1 DEF Sure
        <5>3. k - 1 \in DOMAIN then'[c] /\ then'[c][k - 1] = then[c][k]
          BY <1>5, <1>7, <5>2
        <5>4. SureFollows(c, x, u)'
          BY <1>7, <5>1, <5>3 DEF SureFollows
        <5> QED BY <5>4 DEF Settled
      <4> QED BY <4>2, <4>3, <4>4 DEF SyncInv, Settled
    <3> QED BY <3>3, <3>4
  <2>4. u \in decided => u \in Covered(e)
    BY <1>10
  <2> QED BY <2>1, <2>2, <2>3, <2>4, <2>5
<1> QED BY <1>8, <1>9, <1>13, <1>14, <1>15 DEF SyncInv

LEMMA Tailed ==
    ASSUME NEW S, NEW q \in Seq(S), q # <<>>
    PROVE  /\ \A k \in DOMAIN q : k = 1 \/ (k - 1 \in DOMAIN Tail(q) /\ Tail(q)[k - 1] = q[k])
           /\ \A k \in DOMAIN Tail(q) : k + 1 \in DOMAIN q /\ Tail(q)[k] = q[k + 1] /\ k \in Nat
           /\ 1 \in DOMAIN q /\ Head(q) = q[1] /\ \A k \in DOMAIN q : k \in Nat /\ k >= 1
OBVIOUS

LEMMA SyncNotification ==
    ASSUME SyncInv, TypeOK', NEW x \in Devices, handle_port_group_config_update(x)
    PROVE  SyncInv'
<1> DEFINE q == queue[x]
           g == Head(queue[x])[1]
           s == Head(queue[x])[2]
           u0 == <<"port_group", g>>
           new == (db[x] \ Of(db[x], u0)) \cup {GroupSpeed(g, s)}
<1>0. TypeOK /\ Hardware /\ LastIsRight /\ GotCovered
  BY DEF SyncInv
<1>1. /\ q # <<>> /\ queue' = [queue EXCEPT ![x] = Tail(q)]
      /\ dev' = dev /\ pc' = pc /\ reqs' = reqs /\ then' = then /\ got' = got /\ missed' = missed
      /\ db' = [db EXCEPT ![x] = IF g \in GroupsIn(@)
                                 THEN (@ \ Of(@, u0)) \cup {GroupSpeed(g, s)} ELSE @]
  BY DEF handle_port_group_config_update, client
<1>2. q \in Seq(Groups \X Speeds) /\ Head(q) = q[1]
  BY <1>0, <1>1 DEF TypeOK
<1>3. /\ \A k \in DOMAIN q : k = 1 \/ (k - 1 \in DOMAIN Tail(q) /\ Tail(q)[k - 1] = q[k])
      /\ \A k \in DOMAIN Tail(q) : k + 1 \in DOMAIN q /\ Tail(q)[k] = q[k + 1] /\ k \in Nat
      /\ 1 \in DOMAIN q /\ \A k \in DOMAIN q : k \in Nat /\ k >= 1
  <2> HIDE DEF q
  <2> QED BY <1>1, <1>2, Tailed
<1>4. g \in Groups /\ s \in Speeds
  BY <1>1, <1>2
<1>5. g \in GroupsIn(db[x])
  <2>1. \E t \in Speeds : SpeedsIn(db[x], g) = {t}
    BY <1>0, <1>4, SpeedFacts DEF Hardware
  <2> QED BY <1>4, <2>1, SpeedFacts DEF GroupsIn
<1>6. \A d \in Devices : db'[d] = IF d = x THEN new ELSE db[d]
  BY <1>0, <1>1, <1>5 DEF TypeOK
<1>7. \A d \in Devices : queue'[d] = IF d = x THEN Tail(q) ELSE queue[d]
  BY <1>0, <1>1 DEF TypeOK
<1>8. PortsWhole(new) /\ OneSpeed(new)
  <2>1. PortsWhole(db[x]) /\ OneSpeed(db[x])
    BY <1>0 DEF Hardware
  <2>2. \A f : f[1] = "interface" => UnitOf(f) # u0
    BY UnitKinds
  <2>3. PortsWhole(new)
    BY <2>1, <2>2, UnitOfPort DEF PortsWhole, Of
  <2>4. SpeedsIn(new, g) = {s}
    <3>1. \A t \in Speeds : GroupSpeed(g, t) \in new <=> t = s
      BY <1>4, UnitOfPort, SpeedOfGroup DEF Of
    <3> HIDE DEF new
    <3> QED BY <1>4, <3>1 DEF SpeedsIn
  <2>5. \A h \in Groups \ {g} : SpeedsIn(new, h) = SpeedsIn(db[x], h)
    <3> SUFFICES ASSUME NEW h \in Groups \ {g}, NEW t \in Speeds
                 PROVE  GroupSpeed(h, t) \in new <=> GroupSpeed(h, t) \in db[x]
      BY DEF SpeedsIn
    <3>1. UnitOf(GroupSpeed(h, t)) # u0 /\ GroupSpeed(h, t) # GroupSpeed(g, s)
      BY <1>4, UnitOfPort, SpeedOfGroup
    <3> QED BY <3>1 DEF Of
  <2> HIDE DEF new
  <2> QED BY <1>4, <2>1, <2>3, <2>4, <2>5, SpeedFacts
<1>9. Hardware'
  <2> HIDE DEF new
  <2> QED BY <1>0, <1>1, <1>6, <1>8 DEF Hardware
<1>10. GotCovered' /\ \A c \in Clients : Covers(reqs'[c], then'[c]) /\ Alone(then'[c])
  BY <1>0, <1>1 DEF SyncInv, GotCovered, Current
<1>11. LastIsRight'
  <2> SUFFICES ASSUME NEW d \in Devices, NEW k \in DOMAIN queue'[d],
                      \A j \in DOMAIN queue'[d] : j > k => queue'[d][j][1] # queue'[d][k][1]
               PROVE  GroupSpeed(queue'[d][k][1], queue'[d][k][2]) \in dev'[d]
    BY DEF LastIsRight
  <2>1. CASE d # x
    BY <1>0, <1>1, <1>7, <2>1 DEF LastIsRight
  <2>2. CASE d = x
    <3> HIDE DEF q
    <3>1. k + 1 \in DOMAIN q /\ Tail(q)[k] = q[k + 1] /\ k \in Nat /\ queue'[d] = Tail(q)
      BY <1>3, <1>7, <2>2
    <3>2. \A j \in DOMAIN q : j > k + 1 => q[j][1] # q[k + 1][1]
      <4> SUFFICES ASSUME NEW j \in DOMAIN q, j > k + 1 PROVE q[j][1] # q[k + 1][1]
        OBVIOUS
      <4>1. j \in Nat /\ j # 1 /\ j - 1 > k
        BY <1>3, <3>1
      <4>2. j - 1 \in DOMAIN Tail(q) /\ Tail(q)[j - 1] = q[j]
        BY <1>3, <4>1
      <4> QED BY <3>1, <4>1, <4>2
    <3>3. GroupSpeed(q[k + 1][1], q[k + 1][2]) \in dev[d]
      BY <1>0, <2>2, <3>1, <3>2 DEF LastIsRight, q
    <3> QED BY <1>1, <3>1, <3>3
  <2> QED BY <2>1, <2>2
<1>12. ASSUME NEW d \in Devices, NEW u \in Units PROVE Settled(d, u)'
  <2>1. \A k \in Clients : SureFollows(k, d, u) => SureFollows(k, d, u)'
    BY <1>1 DEF SureFollows
  <2>2. CASE d # x \/ u # u0
    <3>1. Of(db'[d], u) = Of(db[d], u)
      <4>1. CASE d # x
        BY <1>6, <4>1
      <4>2. CASE d = x /\ u # u0
        <5>1. UnitOf(GroupSpeed(g, s)) = u0
          BY UnitOfPort
        <5> QED BY <1>6, <4>2, <5>1 DEF Of
      <4> QED BY <2>2, <4>1, <4>2
    <3>2. Seen(u, db'[d]) = Seen(u, db[d])
      BY <3>1, SeenOf
    <3>3. Announced(d, u) => Announced(d, u)'
      <4>1. CASE d # x
        BY <1>7, <4>1 DEF Announced
      <4>2. CASE d = x /\ u # u0
        <5> SUFFICES ASSUME NEW k \in DOMAIN q, u = <<"port_group", q[k][1]>>
                     PROVE  \E j \in DOMAIN queue'[d] : u = <<"port_group", queue'[d][j][1]>>
          BY <4>2 DEF Announced
        <5>1. k # 1
          BY <1>2, <4>2
        <5>2. k - 1 \in DOMAIN Tail(q) /\ Tail(q)[k - 1] = q[k]
          BY <1>3, <5>1
        <5> QED BY <1>7, <4>2, <5>2
      <4> QED BY <2>2, <4>1, <4>2
    <3> QED BY <1>1, <2>1, <3>2, <3>3 DEF SyncInv, Settled
  <2>3. CASE d = x /\ u = u0
    <3>1. CASE \E k \in DOMAIN Tail(q) : Tail(q)[k][1] = g
      BY <1>7, <2>3, <3>1 DEF Settled, Announced
    <3>2. CASE \A k \in DOMAIN Tail(q) : Tail(q)[k][1] # g
      <4>1. \A j \in DOMAIN q : j > 1 => q[j][1] # q[1][1]
        <5> SUFFICES ASSUME NEW j \in DOMAIN q, j > 1 PROVE q[j][1] # q[1][1]
          OBVIOUS
        <5>1. j - 1 \in DOMAIN Tail(q) /\ Tail(q)[j - 1] = q[j]
          BY <1>3
        <5> QED BY <1>2, <3>2, <5>1
      <4>2. GroupSpeed(g, s) \in dev[x]
        BY <1>0, <1>2, <1>3, <4>1 DEF LastIsRight
      <4>3. \A t \in Speeds : GroupSpeed(g, t) \in dev[x] <=> t = s
        <5>1. \E t \in Speeds : SpeedsIn(dev[x], g) = {t}
          BY <1>0, <1>4, SpeedFacts DEF Hardware
        <5> QED BY <1>4, <4>2, <5>1, SpeedFacts
      <4>4. dev[x] \in SUBSET Facts
        BY <1>0 DEF TypeOK
      <4>5. Of(dev[x], u0) = {GroupSpeed(g, s)}
        <5>1. ASSUME NEW f \in dev[x], UnitOf(f) = u0 PROVE f = GroupSpeed(g, s)
          <6>1. f \in Facts /\ f[1] = "port_group" /\ f[2] = g
            BY <4>4, <5>1, UnitKinds
          <6>2. f = GroupSpeed(g, f[4]) /\ f[4] \in Speeds
            BY <6>1, SpeedOfGroup
          <6> QED BY <4>3, <6>2
        <5>2. UnitOf(GroupSpeed(g, s)) = u0
          BY UnitOfPort
        <5> HIDE DEF u0, g, s
        <5> QED BY <4>2, <5>1, <5>2 DEF Of
      <4>6. Of(new, u0) = {GroupSpeed(g, s)}
        BY UnitOfPort DEF Of
      <4>7. Seen(u, db'[d]) = Seen(u, dev'[d])
        <5> HIDE DEF new, u0
        <5>1. Seen(u, new) = Seen(u, dev[x])
          BY <2>3, <4>5, <4>6, SeenOf
        <5>2. db'[d] = new
          BY <1>6, <2>3
        <5>3. dev'[d] = dev[x]
          BY <1>1, <2>3
        <5> QED BY <5>1, <5>2, <5>3
      <4> QED BY <4>7 DEF Settled
    <3> QED BY <3>1, <3>2
  <2> QED BY <2>2, <2>3
<1> QED BY <1>9, <1>10, <1>11, <1>12 DEF SyncInv

-----------------------------------------------------------------------------
(* What functions discover covers what they change.                        *)

(* Discovery e asks device d for interface i, or forgets it as a part.     *)
Plain(e, d, i) == Prelude(e) = "none" /\ DeviceOf(e) = d /\ <<"interface", i>> \in Covered(e)
Forgets(e, d, i) ==
    /\ Prelude(e) = "forget_parts" /\ DeviceOf(e) = d
    /\ \E x \in Interfaces : Covered(e) = PortUnits({x} \cup Parts[x]) /\ i \in Parts[x]

(* Of what r changes only neighbors and VLANs are not discovered again; th *)
(* asks for the ports that r adds, which are parts of others, and forgets  *)
(* those that it removes.                                                  *)
Excused == {Whole("bgp_neighbor"), Whole("vlan")} \cup PortUnits(PartMembers)
PartPorts == UNION {Parts[x] : x \in Interfaces}
Apt(r, th) ==
    /\ Lost(r) \subseteq Excused
    /\ \A i \in Interfaces : Port(i) \in Added(r) =>
           i \in PartPorts /\ \E k \in DOMAIN th : Plain(th[k], Target(r), i)
    /\ \A i \in Interfaces : Port(i) \in Removed(r) =>
           \E k \in DOMAIN th : Forgets(th[k], Target(r), i)

(* What th forgets the devices dv have not, or the requests rs take it     *)
(* from them, and these add nothing.                                       *)
Clears(r, d, i) ==
    Target(r) = d /\ \A f \in Facts : UnitOf(f) = <<"interface", i>> => f \in Removed(r)
Freed(dv, rs, th) == \A k \in DOMAIN th : Prelude(th[k]) = "forget_parts" =>
    /\ \A m \in DOMAIN rs : Added(rs[m]) = {}
    /\ \A d \in Devices, i \in Interfaces : Forgets(th[k], d, i) =>
           Of(dv[d], <<"interface", i>>) = {} \/ \E m \in DOMAIN rs : Clears(rs[m], d, i)

Fits(dv, rs, th) == (\A k \in DOMAIN rs : Apt(rs[k], th)) /\ Freed(dv, rs, th)

CoversRequest(r, th) == PortShape(r) /\ GroupShape(r) /\ CoveredBy(r, th)
SafeCall(c) == \E rs, th :
    Begin(c, rs, th) /\ Covers(rs, th) /\ Alone(th) /\ Fits(dev, rs, th)

(* Nothing is forgotten by discoveries without a prelude.                  *)
LEMMA PlainFits ==
    ASSUME NEW rs, NEW th, \A k \in DOMAIN th : Prelude(th[k]) # "forget_parts",
           \A k \in DOMAIN rs : /\ Lost(rs[k]) \subseteq Excused
                               /\ \A i \in Interfaces : Port(i) \notin Changed(rs[k])
    PROVE  Fits(dev, rs, th)
BY DEF Fits, Apt, Freed, Changed

(* Request r changes, on device d, only facts of the kinds ks.             *)
OnlyKinds(r, d, ks) == Target(r) = d /\ Lost(r) = {} /\ \A f \in Changed(r) : f[1] \in ks

LEMMA RequestParts ==
    ASSUME NEW d, NEW old, NEW new, NEW us
    PROVE  /\ Target(Update(d, new)) = d /\ Changed(Update(d, new)) = new
           /\ Removed(Update(d, new)) = {} /\ Added(Update(d, new)) = new
           /\ Target(Delete(d, old)) = d /\ Changed(Delete(d, old)) = old
           /\ Removed(Delete(d, old)) = old /\ Added(Delete(d, old)) = {}
           /\ Target(Replace(d, old, new)) = d /\ Changed(Replace(d, old, new)) = old \cup new
           /\ Removed(Replace(d, old, new)) = old \ new /\ Added(Replace(d, old, new)) = new
BY DEF Target, Changed, Removed, Added, Update, Delete, Replace

LEMMA LosingParts ==
    ASSUME NEW r, NEW us
    PROVE  /\ Target(Losing(r, us)) = Target(r) /\ Changed(Losing(r, us)) = Changed(r)
           /\ Removed(Losing(r, us)) = Removed(r) /\ Added(Losing(r, us)) = Added(r)
           /\ Lost(Losing(r, us)) = us
BY DEF Target, Changed, Removed, Added, Lost, Losing

LEMMA FactKinds ==
    /\ \A v, a : Global(v, a)[1] = "bgp" /\ GlobalAf(v, a)[1] = "bgp"
                 /\ Network(v, a)[1] = "bgp" /\ Aggregate(v, a)[1] = "bgp"
    /\ \A n, a : RemoteAsn(n, a)[1] = "bgp_neighbor" /\ NeighborAf(n, a)[1] = "bgp_neighbor"
    /\ \A p : Protocol(p)[1] = "stp" /\ DisabledVlan(p)[1] = "stp"
              /\ StpVlan(p)[1] = "stp_vlan" /\ GatewayMac(p)[1] = "gw_mac"
    /\ \A v, how, a : VlanAddress(v, how, a)[1] = "vlan"
    /\ \A v, i : VlanMember(v, i)[1] = "vlan"
BY DEF Global, GlobalAf, Network, Aggregate, RemoteAsn, NeighborAf, Protocol, DisabledVlan,
       StpVlan, GatewayMac, VlanAddress, VlanMember

(* A discovery without a prelude brings all that it covers up to date.     *)
LEMMA PlainSure ==
    ASSUME NEW d, NEW us
    PROVE  /\ Sure(Discover(d, us)) = us /\ DeviceOf(Discover(d, us)) = d
           /\ Prelude(Discover(d, us)) = "none"
BY DEF Sure, Discover, DeviceOf, Covered, Prelude

(* A request that leaves ports and the speeds of groups alone.             *)
LEMMA PlainCovers ==
    ASSUME NEW r, NEW us, NEW th, NEW j \in DOMAIN th, th[j] = Discover(Target(r), us),
           \A i \in Interfaces : Port(i) \notin Removed(r),
           \A f \in Changed(r) : f[1] # "port_group" /\ (UnitOf(f) \in us \/ UnitOf(f) \in Lost(r))
    PROVE  CoversRequest(r, th)
<1>1. PortShape(r) /\ GroupShape(r)
  BY DEF PortShape, GroupShape
<1>2. CoveredBy(r, th)
  BY PlainSure DEF CoveredBy
<1> QED BY <1>1, <1>2 DEF CoversRequest

LEMMA OneCovers ==
    ASSUME NEW c, NEW r, NEW th, Configure(c, <<r>>, th), CoversRequest(r, th), Alone(th),
           Fits(dev, <<r>>, th)
    PROVE  SafeCall(c)
<1>1. Covers(<<r>>, th)
  BY DEF Covers, CoversRequest
<1> QED BY <1>1 DEF SafeCall, Configure

(* One discovery, or one of each device, is of the device that changed.    *)
DiscoversOf(th, d, us) ==
    \/ th = <<Discover(d, us)>>
    \/ \E order \in Orders(Devices) \cup {<<d>>} : th = DiscoverEach(order, us)

LEMMA DiscoversIt ==
    ASSUME NEW d \in Devices, NEW us, NEW th, DiscoversOf(th, d, us)
    PROVE  /\ Alone(th) /\ \A j \in DOMAIN th : Prelude(th[j]) = "none"
           /\ \E j \in DOMAIN th : th[j] = Discover(d, us)
<1>1. CASE th = <<Discover(d, us)>>
  <2>1. DOMAIN th = {1} /\ th[1] = Discover(d, us)
    BY <1>1
  <2> QED BY <2>1, PlainSure DEF Alone
<1>2. ASSUME NEW order \in Orders(Devices) \cup {<<d>>}, th = DiscoverEach(order, us)
      PROVE  /\ Alone(th) /\ \A j \in DOMAIN th : Prelude(th[j]) = "none"
             /\ \E j \in DOMAIN th : th[j] = Discover(d, us)
  <2>1. \E k \in DOMAIN order : order[k] = d
    <3>1. CASE order \in Orders(Devices)
      BY <3>1, OrderOnto, DevicesAssumption
    <3>2. CASE order = <<d>>
      <4>1. 1 \in DOMAIN order /\ order[1] = d
        BY <3>2
      <4> QED BY <4>1
    <3> QED BY <3>1, <3>2
  <2>2. DOMAIN th = DOMAIN order /\ \A k \in DOMAIN order : th[k] = Discover(order[k], us)
    BY <1>2 DEF DiscoverEach
  <2> QED BY <2>1, <2>2, PlainSure DEF Alone
<1> QED BY <1>1, <1>2 DEF DiscoversOf

(* A function that changes one feature and discovers it, or loses it.      *)
LEMMA FeatureCall ==
    ASSUME NEW c, NEW d \in Devices, NEW k, NEW r, NEW th,
           Configure(c, <<r>>, th), DiscoversOf(th, d, {Whole(k)}), OnlyKinds(r, d, {k}),
           k \in Features
    PROVE  SafeCall(c)
<1>1. /\ Alone(th) /\ \A j \in DOMAIN th : Prelude(th[j]) = "none"
      /\ \E j \in DOMAIN th : th[j] = Discover(d, {Whole(k)})
  BY DiscoversIt
<1>2. \A i \in Interfaces : Port(i) \notin Changed(r)
  BY UnitOfPort DEF OnlyKinds, Features
<1>3. \A f \in Changed(r) : f[1] # "port_group" /\ UnitOf(f) \in {Whole(k)}
  BY UnitKinds DEF OnlyKinds, Features
<1>4. CoversRequest(r, th)
  BY <1>1, <1>2, <1>3, PlainCovers DEF OnlyKinds, Changed
<1>5. Fits(dev, <<r>>, th)
  BY <1>1, <1>2, PlainFits DEF OnlyKinds
<1> QED BY <1>1, <1>4, <1>5, OneCovers

LEMMA LosingCall ==
    ASSUME NEW c, NEW d \in Devices, NEW k, NEW r, NEW us, NEW th,
           Configure(c, <<Losing(r, {Whole(k)})>>, th), DiscoversOf(th, d, us),
           OnlyKinds(r, d, {k}), k \in {"bgp_neighbor", "vlan"}
    PROVE  SafeCall(c)
<1> DEFINE rl == Losing(r, {Whole(k)})
<1>1. /\ Alone(th) /\ \A j \in DOMAIN th : Prelude(th[j]) = "none"
      /\ \E j \in DOMAIN th : th[j] = Discover(d, us)
  BY DiscoversIt
<1>2. Target(rl) = d /\ Changed(rl) = Changed(r) /\ Removed(rl) = Removed(r)
      /\ Lost(rl) = {Whole(k)}
  BY LosingParts DEF OnlyKinds
<1> HIDE DEF rl
<1>3. \A i \in Interfaces : Port(i) \notin Changed(rl)
  BY <1>2, UnitOfPort DEF OnlyKinds
<1>4. \A f \in Changed(rl) : f[1] # "port_group" /\ UnitOf(f) \in Lost(rl)
  BY <1>2, UnitKinds DEF OnlyKinds, Features
<1>5. CoversRequest(rl, th)
  BY <1>1, <1>2, <1>3, <1>4, PlainCovers DEF Changed
<1>6. Fits(dev, <<rl>>, th)
  BY <1>1, <1>2, <1>3, PlainFits DEF Excused
<1> QED BY <1>1, <1>5, <1>6, OneCovers DEF rl

LEMMA SafeDiscoveries ==
    ASSUME NEW d \in Devices
    PROVE  /\ \A order \in Orders(Devices) \cup {<<d>>} :
                /\ DiscoversOf(discover_bgp(order), d, {Whole("bgp")})
                /\ DiscoversOf(discover_stp(order), d, {Whole("stp")})
           /\ DiscoversOf(discover_bgp_neighbors(d), d, {Whole("bgp_neighbor")})
           /\ DiscoversOf(discover_stp_vlan(d), d, {Whole("stp_vlan")})
           /\ DiscoversOf(discover_vlan(d), d, {Whole("vlan")})
           /\ DiscoversOf(discover_mclag_gw_macs(d), d, {Whole("gw_mac")})
           /\ \A i : DiscoversOf(discover_interface(d, i), d, PortUnits({i}))
BY DEF DiscoversOf, discover_bgp, discover_stp, discover_bgp_neighbors, discover_stp_vlan,
       discover_vlan, discover_mclag_gw_macs, discover_interface

LEMMA BgpOnly ==
    ASSUME NEW d, NEW a, NEW v, NEW p, NEW fs, NEW vs
    PROVE  /\ OnlyKinds(config_bgp_global_on_device(d, a, v), d, {"bgp"})
           /\ OnlyKinds(del_bgp_global_from_device(d, v), d, {"bgp"})
           /\ OnlyKinds(config_bgp_global_af_on_device(d, a, v), d, {"bgp"})
           /\ OnlyKinds(del_all_bgp_global_af_from_device(d), d, {"bgp"})
           /\ OnlyKinds(del_bgp_global_af_from_device(d, v, fs), d, {"bgp"})
           /\ OnlyKinds(config_bgp_global_af_network_on_device(d, v, p), d, {"bgp"})
           /\ OnlyKinds(del_bgp_global_af_network_on_device(d, vs, p), d, {"bgp"})
           /\ OnlyKinds(config_bgp_global_af_aggregate_addr_on_device(d, v, p), d, {"bgp"})
           /\ OnlyKinds(del_bgp_global_af_aggregate_addr_on_device(d, vs, p), d, {"bgp"})
<1> USE DEF OnlyKinds, Target, Changed, Removed, Added, Lost, Update, Delete, Replace
<1>1. /\ \A f \in AllAf : f[1] = "bgp"
      /\ \A f \in AllNetworks : f[1] = "bgp"
      /\ \A f \in AllAggregates : f[1] = "bgp"
  BY FactKinds DEF AllAf, AllNetworks, AllAggregates
<1>2. /\ OnlyKinds(config_bgp_global_on_device(d, a, v), d, {"bgp"})
      /\ OnlyKinds(del_bgp_global_from_device(d, v), d, {"bgp"})
      /\ OnlyKinds(config_bgp_global_af_on_device(d, a, v), d, {"bgp"})
      /\ OnlyKinds(del_all_bgp_global_af_from_device(d), d, {"bgp"})
  BY <1>1, FactKinds DEF config_bgp_global_on_device,
     del_bgp_global_from_device, config_bgp_global_af_on_device,
     del_all_bgp_global_af_from_device
<1>3. /\ OnlyKinds(config_bgp_global_af_network_on_device(d, v, p), d, {"bgp"})
      /\ OnlyKinds(config_bgp_global_af_aggregate_addr_on_device(d, v, p), d, {"bgp"})
  BY FactKinds DEF config_bgp_global_af_network_on_device,
     config_bgp_global_af_aggregate_addr_on_device
<1>4. OnlyKinds(del_bgp_global_af_from_device(d, v, fs), d, {"bgp"})
  <2>1. \A f \in IF fs = {} THEN AllAf ELSE {GlobalAf(v, g) : g \in fs} : f[1] = "bgp"
    BY <1>1, FactKinds
  <2> QED BY <2>1 DEF del_bgp_global_af_from_device
<1>5. OnlyKinds(del_bgp_global_af_network_on_device(d, vs, p), d, {"bgp"})
  <2>1. \A f \in IF vs = {} THEN AllNetworks ELSE {Network(w, p) : w \in vs} : f[1] = "bgp"
    BY <1>1, FactKinds
  <2> QED BY <2>1 DEF del_bgp_global_af_network_on_device
<1>6. OnlyKinds(del_bgp_global_af_aggregate_addr_on_device(d, vs, p), d, {"bgp"})
  <2>1. \A f \in IF vs = {} THEN AllAggregates ELSE {Aggregate(w, p) : w \in vs} : f[1] = "bgp"
    BY <1>1, FactKinds
  <2> QED BY <2>1 DEF del_bgp_global_af_aggregate_addr_on_device
<1> QED BY <1>2, <1>3, <1>4, <1>5, <1>6

LEMMA NeighborOnly ==
    ASSUME NEW d, NEW n, NEW a, NEW how \in BOOLEAN
    PROVE  /\ OnlyKinds(config_bgp_neighbors_on_device(d, n, a), d, {"bgp_neighbor"})
           /\ OnlyKinds(del_all_bgp_neighbors_from_device(d), d, {"bgp_neighbor"})
           /\ OnlyKinds(del_bgp_neighbor_from_device(d, n, how), d, {"bgp_neighbor"})
           /\ OnlyKinds(config_bgp_neighbor_af_on_device(d, a, n), d, {"bgp_neighbor"})
           /\ OnlyKinds(del_all_neighbor_af_from_device(d), d, {"bgp_neighbor"})
<1> USE DEF OnlyKinds, Target, Changed, Removed, Added, Lost, Update, Delete, Replace
<1>1. \A f \in AllNeighborAf : f[1] = "bgp_neighbor"
  BY FactKinds DEF AllNeighborAf
<1>2. \A f \in IF how THEN {RemoteAsn(n, b) : b \in Asns} ELSE {} : f[1] = "bgp_neighbor"
  BY FactKinds
<1> QED BY <1>1, <1>2, FactKinds DEF config_bgp_neighbors_on_device,
           del_all_bgp_neighbors_from_device, del_bgp_neighbor_from_device,
           config_bgp_neighbor_af_on_device, del_all_neighbor_af_from_device

LEMMA OtherOnly ==
    ASSUME NEW d, NEW ps, NEW vs, NEW v, NEW a, NEW i
    PROVE  /\ OnlyKinds(config_stp_global_on_device(d, ps, vs), d, {"stp"})
           /\ OnlyKinds(delete_stp_global_from_device(d), d, {"stp"})
           /\ OnlyKinds(delete_stp_global_disabled_vlans_from_device(d, vs), d, {"stp"})
           /\ OnlyKinds(config_stp_vlan_on_device(d, v), d, {"stp_vlan"})
           /\ OnlyKinds(delete_stp_vlan_from_device(d, v), d, {"stp_vlan"})
           /\ OnlyKinds(set_if_vlan_on_device(d, i, v), d, {"vlan"})
           /\ OnlyKinds(remove_vlan_from_if_from_device(d, i, vs), d, {"vlan"})
           /\ OnlyKinds(remove_ip_from_vlan_on_device(d, v), d, {"vlan"})
           /\ OnlyKinds(remove_anycast_addr_from_vlan_on_device(d, v, a), d, {"vlan"})
           /\ OnlyKinds(config_mclag_gateway_mac_on_device(d, a), d, {"gw_mac"})
           /\ OnlyKinds(del_mclag_gateway_mac_from_device(d), d, {"gw_mac"})
<1> USE DEF OnlyKinds, Target, Changed, Removed, Added, Lost, Update, Delete, Replace
<1>1. (\A f \in AllProtocols : f[1] = "stp") /\ (\A f \in AllDisabled : f[1] = "stp")
  BY FactKinds DEF AllProtocols, AllDisabled
<1>2. /\ OnlyKinds(config_stp_global_on_device(d, ps, vs), d, {"stp"})
      /\ OnlyKinds(delete_stp_global_from_device(d), d, {"stp"})
      /\ OnlyKinds(delete_stp_global_disabled_vlans_from_device(d, vs), d, {"stp"})
  BY <1>1, FactKinds DEF config_stp_global_on_device,
     delete_stp_global_from_device, delete_stp_global_disabled_vlans_from_device
<1>3. /\ OnlyKinds(config_stp_vlan_on_device(d, v), d, {"stp_vlan"})
      /\ OnlyKinds(delete_stp_vlan_from_device(d, v), d, {"stp_vlan"})
  BY FactKinds DEF config_stp_vlan_on_device,
     delete_stp_vlan_from_device, get_stp_vlan_path
<1>4. /\ OnlyKinds(set_if_vlan_on_device(d, i, v), d, {"vlan"})
      /\ OnlyKinds(remove_vlan_from_if_from_device(d, i, vs), d, {"vlan"})
      /\ OnlyKinds(remove_ip_from_vlan_on_device(d, v), d, {"vlan"})
      /\ OnlyKinds(remove_anycast_addr_from_vlan_on_device(d, v, a), d, {"vlan"})
  BY FactKinds DEF set_if_vlan_on_device,
     remove_vlan_from_if_from_device, remove_ip_from_vlan_on_device,
     remove_anycast_addr_from_vlan_on_device
<1>5. /\ OnlyKinds(config_mclag_gateway_mac_on_device(d, a), d, {"gw_mac"})
      /\ OnlyKinds(del_mclag_gateway_mac_from_device(d), d, {"gw_mac"})
  BY FactKinds DEF config_mclag_gateway_mac_on_device,
     del_mclag_gateway_mac_from_device
<1> QED BY <1>2, <1>3, <1>4, <1>5

(* The functions that change one feature.                                  *)
LEMMA SafeBgpGlobal ==
    ASSUME NEW c, NEW d \in Devices,
           \/ config_bgp_global(c, d)
           \/ del_bgp_global(c, d)
           \/ config_bgp_global_af(c, d)
           \/ del_bgp_global_af_all(c, d)
           \/ del_bgp_global_af(c, d)
           \/ config_bgp_global_af_network(c, d)
           \/ del_bgp_global_af_network(c, d)
           \/ config_bgp_global_af_aggregate_addr(c, d)
           \/ del_bgp_global_af_aggregate_addr(c, d)
    PROVE  SafeCall(c)
<1> USE SafeDiscoveries DEF Features
<1>1. CASE config_bgp_global(c, d)
  <2>1. PICK a \in Asns, v \in Vrfs :
            Configure(c, <<config_bgp_global_on_device(d, a, v)>>,
                      discover_bgp(<<d>>))
    BY <1>1 DEF config_bgp_global
  <2>2. OnlyKinds(config_bgp_global_on_device(d, a, v), d, {"bgp"})
    BY BgpOnly
  <2> QED BY <2>1, <2>2, FeatureCall
<1>2. CASE del_bgp_global(c, d)
  <2>1. PICK v \in Vrfs :
            Configure(c, <<del_bgp_global_from_device(d, v)>>,
                      discover_bgp(<<d>>))
    BY <1>2 DEF del_bgp_global
  <2>2. OnlyKinds(del_bgp_global_from_device(d, v), d, {"bgp"})
    BY BgpOnly
  <2> QED BY <2>1, <2>2, FeatureCall
<1>3. CASE config_bgp_global_af(c, d)
  <2>1. PICK f \in Families, v \in Vrfs :
            Configure(c, <<config_bgp_global_af_on_device(d, f, v)>>,
                      discover_bgp(<<d>>))
    BY <1>3 DEF config_bgp_global_af
  <2>2. OnlyKinds(config_bgp_global_af_on_device(d, f, v), d, {"bgp"})
    BY BgpOnly
  <2> QED BY <2>1, <2>2, FeatureCall
<1>4. CASE del_bgp_global_af_all(c, d)
  <2>1. PICK order \in Orders(Devices) :
            Configure(c, <<del_all_bgp_global_af_from_device(d)>>,
                      discover_bgp(order))
    BY <1>4 DEF del_bgp_global_af_all
  <2>2. OnlyKinds(del_all_bgp_global_af_from_device(d), d, {"bgp"})
    BY BgpOnly
  <2> QED BY <2>1, <2>2, FeatureCall
<1>5. CASE del_bgp_global_af(c, d)
  <2>1. PICK v \in Vrfs, fs \in SUBSET Families :
            Configure(c, <<del_bgp_global_af_from_device(d, v, fs)>>,
                      discover_bgp(<<d>>))
    BY <1>5 DEF del_bgp_global_af
  <2>2. OnlyKinds(del_bgp_global_af_from_device(d, v, fs), d, {"bgp"})
    BY BgpOnly
  <2> QED BY <2>1, <2>2, FeatureCall
<1>6. CASE config_bgp_global_af_network(c, d)
  <2>1. PICK v \in Vrfs, p \in Prefixes :
            Configure(c, <<config_bgp_global_af_network_on_device(d, v, p)>>,
                      discover_bgp(<<d>>))
    BY <1>6 DEF config_bgp_global_af_network
  <2>2. OnlyKinds(config_bgp_global_af_network_on_device(d, v, p), d, {"bgp"})
    BY BgpOnly
  <2> QED BY <2>1, <2>2, FeatureCall
<1>7. CASE del_bgp_global_af_network(c, d)
  <2>1. PICK vs \in SUBSET Vrfs, p \in Prefixes :
            Configure(c, <<del_bgp_global_af_network_on_device(d, vs, p)>>,
                      discover_bgp(<<d>>))
    BY <1>7 DEF del_bgp_global_af_network
  <2>2. OnlyKinds(del_bgp_global_af_network_on_device(d, vs, p), d, {"bgp"})
    BY BgpOnly
  <2> QED BY <2>1, <2>2, FeatureCall
<1>8. CASE config_bgp_global_af_aggregate_addr(c, d)
  <2>1. PICK v \in Vrfs, p \in Prefixes :
            Configure(c, <<config_bgp_global_af_aggregate_addr_on_device(d, v, p)>>,
                      discover_bgp(<<d>>))
    BY <1>8 DEF config_bgp_global_af_aggregate_addr
  <2>2. OnlyKinds(config_bgp_global_af_aggregate_addr_on_device(d, v, p), d, {"bgp"})
    BY BgpOnly
  <2> QED BY <2>1, <2>2, FeatureCall
<1>9. CASE del_bgp_global_af_aggregate_addr(c, d)
  <2>1. PICK vs \in SUBSET Vrfs, p \in Prefixes :
            Configure(c, <<del_bgp_global_af_aggregate_addr_on_device(d, vs, p)>>,
                      discover_bgp(<<d>>))
    BY <1>9 DEF del_bgp_global_af_aggregate_addr
  <2>2. OnlyKinds(del_bgp_global_af_aggregate_addr_on_device(d, vs, p), d, {"bgp"})
    BY BgpOnly
  <2> QED BY <2>1, <2>2, FeatureCall
<1> QED BY <1>1, <1>2, <1>3, <1>4, <1>5, <1>6, <1>7, <1>8, <1>9

LEMMA SafeBgpNeighbor ==
    ASSUME NEW c, NEW d \in Devices,
           \/ config_bgp_neighbors(c, d)
           \/ del_all_bgp_neighbors(c, d)
           \/ delete_bgp_neighbor(c, d)
           \/ config_bgp_neighbor_af(c, d)
           \/ del_all_bgp_neighbour_af(c, d)
           \/ delete_all_bgp_neighbor_af(c, d)
    PROVE  SafeCall(c)
<1> USE SafeDiscoveries DEF Features
<1>1. CASE config_bgp_neighbors(c, d)
  <2>1. PICK n \in Neighbors, a \in Asns :
            Configure(c, <<config_bgp_neighbors_on_device(d, n, a)>>,
                      discover_bgp_neighbors(d))
    BY <1>1 DEF config_bgp_neighbors
  <2>2. OnlyKinds(config_bgp_neighbors_on_device(d, n, a), d, {"bgp_neighbor"})
    BY NeighborOnly
  <2> QED BY <2>1, <2>2, FeatureCall
<1>2. CASE del_all_bgp_neighbors(c, d)
  <2>1. PICK order \in Orders(Devices) :
            Configure(c, <<Losing(del_all_bgp_neighbors_from_device(d), {Whole("bgp_neighbor")})>>,
                      discover_bgp(order))
    BY <1>2 DEF del_all_bgp_neighbors
  <2>2. OnlyKinds(del_all_bgp_neighbors_from_device(d), d, {"bgp_neighbor"})
    BY NeighborOnly
  <2> QED BY <2>1, <2>2, LosingCall
<1>3. CASE delete_bgp_neighbor(c, d)
  <2>1. PICK n \in Neighbors, withVrf \in BOOLEAN :
            Configure(c, <<del_bgp_neighbor_from_device(d, n, withVrf)>>,
                      discover_bgp_neighbors(d))
    BY <1>3 DEF delete_bgp_neighbor
  <2>2. OnlyKinds(del_bgp_neighbor_from_device(d, n, withVrf), d, {"bgp_neighbor"})
    BY NeighborOnly
  <2> QED BY <2>1, <2>2, FeatureCall
<1>4. CASE config_bgp_neighbor_af(c, d)
  <2>1. PICK f \in Families, n \in Neighbors :
            Configure(c, <<config_bgp_neighbor_af_on_device(d, f, n)>>,
                      discover_bgp_neighbors(d))
    BY <1>4 DEF config_bgp_neighbor_af
  <2>2. OnlyKinds(config_bgp_neighbor_af_on_device(d, f, n), d, {"bgp_neighbor"})
    BY NeighborOnly
  <2> QED BY <2>1, <2>2, FeatureCall
<1>5. CASE del_all_bgp_neighbour_af(c, d)
  <2>1. Configure(c, <<Losing(del_all_neighbor_af_from_device(d), {Whole("bgp_neighbor")})>>, discover_bgp(<<d>>))
    BY <1>5 DEF del_all_bgp_neighbour_af
  <2>2. OnlyKinds(del_all_neighbor_af_from_device(d), d, {"bgp_neighbor"})
    BY NeighborOnly
  <2> QED BY <2>1, <2>2, LosingCall
<1>6. CASE delete_all_bgp_neighbor_af(c, d)
  <2>1. Configure(c, <<del_all_neighbor_af_from_device(d)>>, discover_bgp_neighbors(d))
    BY <1>6 DEF delete_all_bgp_neighbor_af
  <2>2. OnlyKinds(del_all_neighbor_af_from_device(d), d, {"bgp_neighbor"})
    BY NeighborOnly
  <2> QED BY <2>1, <2>2, FeatureCall
<1> QED BY <1>1, <1>2, <1>3, <1>4, <1>5, <1>6

LEMMA SafeSpanning ==
    ASSUME NEW c, NEW d \in Devices,
           SpanningCall(c, d)
    PROVE  SafeCall(c)
<1> USE SafeDiscoveries DEF Features
<1>1. CASE config_stp_global(c, d)
  <2>1. PICK ps \in SUBSET Protocols, vs \in SUBSET Vlans, order \in Orders(Devices) :
            Configure(c, <<config_stp_global_on_device(d, ps, vs)>>,
                      discover_stp(order))
    BY <1>1 DEF config_stp_global
  <2>2. OnlyKinds(config_stp_global_on_device(d, ps, vs), d, {"stp"})
    BY OtherOnly
  <2> QED BY <2>1, <2>2, FeatureCall
<1>2. CASE delete_stp_global_config(c, d)
  <2>1. PICK order \in Orders(Devices) :
            Configure(c, <<delete_stp_global_from_device(d)>>,
                      discover_stp(order))
    BY <1>2 DEF delete_stp_global_config
  <2>2. OnlyKinds(delete_stp_global_from_device(d), d, {"stp"})
    BY OtherOnly
  <2> QED BY <2>1, <2>2, FeatureCall
<1>3. CASE delete_stp_global_config_disabled_vlans(c, d)
  <2>1. PICK v \in Vlans :
            Configure(c, <<delete_stp_global_disabled_vlans_from_device(d, {v})>>,
                      discover_stp(<<d>>))
    BY <1>3 DEF delete_stp_global_config_disabled_vlans
  <2>2. OnlyKinds(delete_stp_global_disabled_vlans_from_device(d, {v}), d, {"stp"})
    BY OtherOnly
  <2> QED BY <2>1, <2>2, FeatureCall
<1>4. CASE config_stp_vlan(c, d)
  <2>1. PICK v \in Vlans :
            Configure(c, <<config_stp_vlan_on_device(d, v)>>,
                      discover_stp_vlan(d))
    BY <1>4 DEF config_stp_vlan
  <2>2. OnlyKinds(config_stp_vlan_on_device(d, v), d, {"stp_vlan"})
    BY OtherOnly
  <2> QED BY <2>1, <2>2, FeatureCall
<1>5. CASE delete_stp_vlan(c, d)
  <2>1. PICK v \in Vlans :
            Configure(c, <<delete_stp_vlan_from_device(d, v)>>,
                      discover_stp_vlan(d))
    BY <1>5 DEF delete_stp_vlan
  <2>2. OnlyKinds(delete_stp_vlan_from_device(d, v), d, {"stp_vlan"})
    BY OtherOnly
  <2> QED BY <2>1, <2>2, FeatureCall
<1> QED BY <1>1, <1>2, <1>3, <1>4, <1>5 DEF SpanningCall

LEMMA SafeFeaturePort ==
    ASSUME NEW c, NEW d \in Devices,
           \/ set_if_mode(c, d)
           \/ remove_vlan(c, d)
           \/ remove_ip_from_vlan(c, d)
           \/ remove_anycast_ip_from_vlan(c, d)
           \/ config_mclag_gw_mac(c, d)
           \/ del_mclag_gw_mac(c, d)
    PROVE  SafeCall(c)
<1> USE SafeDiscoveries DEF Features
<1>1. CASE set_if_mode(c, d)
  <2>1. PICK i \in Interfaces, v \in Vlans :
            Configure(c, <<Losing(set_if_vlan_on_device(d, i, v), {Whole("vlan")})>>,
                      discover_interface(d, i))
    BY <1>1 DEF set_if_mode
  <2>2. OnlyKinds(set_if_vlan_on_device(d, i, v), d, {"vlan"})
    BY OtherOnly
  <2> QED BY <2>1, <2>2, LosingCall
<1>2. CASE remove_vlan(c, d)
  <2>1. PICK i \in Interfaces, vs \in SUBSET Vlans :
            Configure(c, <<Losing(remove_vlan_from_if_from_device(d, i, vs), {Whole("vlan")})>>,
                      discover_interface(d, i))
    BY <1>2 DEF remove_vlan
  <2>2. OnlyKinds(remove_vlan_from_if_from_device(d, i, vs), d, {"vlan"})
    BY OtherOnly
  <2> QED BY <2>1, <2>2, LosingCall
<1>3. CASE remove_ip_from_vlan(c, d)
  <2>1. PICK v \in Vlans :
            Configure(c, <<remove_ip_from_vlan_on_device(d, v)>>,
                      discover_vlan(d))
    BY <1>3 DEF remove_ip_from_vlan
  <2>2. OnlyKinds(remove_ip_from_vlan_on_device(d, v), d, {"vlan"})
    BY OtherOnly
  <2> QED BY <2>1, <2>2, FeatureCall
<1>4. CASE remove_anycast_ip_from_vlan(c, d)
  <2>1. PICK v \in Vlans, a \in Addresses :
            Configure(c, <<remove_anycast_addr_from_vlan_on_device(d, v, a)>>,
                      discover_vlan(d))
    BY <1>4 DEF remove_anycast_ip_from_vlan
  <2>2. OnlyKinds(remove_anycast_addr_from_vlan_on_device(d, v, a), d, {"vlan"})
    BY OtherOnly
  <2> QED BY <2>1, <2>2, FeatureCall
<1>5. CASE config_mclag_gw_mac(c, d)
  <2>1. PICK m \in Macs :
            Configure(c, <<config_mclag_gateway_mac_on_device(d, m)>>,
                      discover_mclag_gw_macs(d))
    BY <1>5 DEF config_mclag_gw_mac
  <2>2. OnlyKinds(config_mclag_gateway_mac_on_device(d, m), d, {"gw_mac"})
    BY OtherOnly
  <2> QED BY <2>1, <2>2, FeatureCall
<1>6. CASE del_mclag_gw_mac(c, d)
  <2>1. Configure(c, <<del_mclag_gateway_mac_from_device(d)>>, discover_mclag_gw_macs(d))
    BY <1>6 DEF del_mclag_gw_mac
  <2>2. OnlyKinds(del_mclag_gateway_mac_from_device(d), d, {"gw_mac"})
    BY OtherOnly
  <2> QED BY <2>1, <2>2, FeatureCall
<1> QED BY <1>1, <1>2, <1>3, <1>4, <1>5, <1>6

(* Requests that change addresses of the interfaces is.                    *)
OnlyAddresses(r, d, is) ==
    /\ Target(r) = d /\ Lost(r) = {}
    /\ \A f \in Changed(r) : \E i \in is, x \in Indices, a \in Addresses : f = Address(i, x, a)

LEMMA AddressFacts ==
    \A i, x, a : /\ Address(i, x, a)[1] = "interface" /\ Address(i, x, a)[3] = x
                 /\ UnitOf(Address(i, x, a)) = <<"interface", i>>
BY DEF Address, UnitOf, PerName

LEMMA AddressCovers ==
    ASSUME NEW d, NEW r, NEW is, OnlyAddresses(r, d, is), NEW th,
           NEW j \in DOMAIN th, th[j] = Discover(d, PortUnits(is))
    PROVE  /\ CoversRequest(r, th) /\ Lost(r) = {}
           /\ \A i \in Interfaces : Port(i) \notin Changed(r)
<1>1. \A f \in Changed(r) : f[1] = "interface" /\ f[3] \in Indices /\ UnitOf(f) \in PortUnits(is)
  BY AddressFacts, PortUnitsFacts DEF OnlyAddresses
<1>2. \A i \in Interfaces : Port(i) \notin Changed(r)
  BY <1>1, UnitOfPort
<1>3. Target(r) = d /\ Lost(r) = {}
  BY DEF OnlyAddresses
<1>4. CoversRequest(r, th)
  BY <1>1, <1>2, <1>3, PlainCovers DEF Changed
<1> QED BY <1>2, <1>3, <1>4

LEMMA AddressCall ==
    ASSUME NEW c, NEW d \in Devices, NEW i, NEW r, Configure(c, <<r>>, discover_interface(d, i)),
           OnlyAddresses(r, d, {i})
    PROVE  SafeCall(c)
<1> DEFINE th == discover_interface(d, i)
<1>1. /\ Alone(th) /\ \A j \in DOMAIN th : Prelude(th[j]) = "none"
      /\ \E j \in DOMAIN th : th[j] = Discover(d, PortUnits({i}))
  BY SafeDiscoveries, DiscoversIt
<1> HIDE DEF th
<1>2. /\ CoversRequest(r, th) /\ Lost(r) = {}
      /\ \A j \in Interfaces : Port(j) \notin Changed(r)
  BY <1>1, AddressCovers
<1>3. Fits(dev, <<r>>, th)
  BY <1>1, <1>2, PlainFits
<1> QED BY <1>1, <1>2, <1>3, OneCovers DEF th

LEMMA AddressesOnly ==
    ASSUME NEW d, NEW i
    PROVE  /\ \A x \in Indices, a \in Addresses :
                OnlyAddresses(set_interface_config_on_device(d, i, x, a), d, {i})
           /\ \A as \in SUBSET Addresses :
                OnlyAddresses(delete_interface_ip_from_device(d, i, as), d, {i})
           /\ OnlyAddresses(del_all_subinterfaces_of_interface_from_device(d, i), d, {i})
<1> USE DEF OnlyAddresses, Target, Changed, Removed, Added, Lost, Update, Delete
<1>1. ASSUME NEW x \in Indices, NEW a \in Addresses
      PROVE  OnlyAddresses(set_interface_config_on_device(d, i, x, a), d, {i})
  BY DEF set_interface_config_on_device
<1>2. ASSUME NEW as \in SUBSET Addresses
      PROVE  OnlyAddresses(delete_interface_ip_from_device(d, i, as), d, {i})
  BY DEF delete_interface_ip_from_device, Indices
<1>3. OnlyAddresses(del_all_subinterfaces_of_interface_from_device(d, i), d, {i})
  BY DEF del_all_subinterfaces_of_interface_from_device, AddressesOf
<1> QED BY <1>1, <1>2, <1>3

LEMMA SafeAddresses ==
    ASSUME NEW c, NEW d \in Devices,
           \/ config_interface(c, d)
           \/ del_ip_from_intf(c, d)
           \/ del_all_subinterfaces_of_interface(c, d)
    PROVE  SafeCall(c)
<1> USE AddressesOnly, AddressCall
<1>1. CASE config_interface(c, d)
  BY <1>1 DEF config_interface
<1>2. CASE del_ip_from_intf(c, d)
  <2>1. PICK i \in Interfaces, as \in SUBSET Addresses :
            Configure(c, <<delete_interface_ip_from_device(d, i, as)>>,
                      discover_interface(d, i))
    BY <1>2 DEF del_ip_from_intf
  <2> QED BY <2>1
<1>3. CASE del_all_subinterfaces_of_interface(c, d)
  BY <1>3 DEF del_all_subinterfaces_of_interface
<1> QED BY <1>1, <1>2, <1>3

LEMMA SafeAllSubinterfaces ==
    ASSUME NEW c, NEW d \in Devices, del_all_subinterfaces_of_all_interfaces(c, d)
    PROVE  SafeCall(c)
<1> DEFINE th == discover_interfaces(d)
<1>1. PICK order \in Orders(PortsIn(db[d])) :
          Configure(c, del_all_subinterfaces_of_all_interfaces_from_device(d, order), th)
  BY DEF del_all_subinterfaces_of_all_interfaces
<1>2. PortsIn(db[d]) \subseteq Interfaces /\ IsFiniteSet(PortsIn(db[d]))
  BY DevicesAssumption, FS_Subset DEF PortsIn
<1>3. \A k \in DOMAIN order : order[k] \in Interfaces
  BY <1>2, OrderOnto
<1>4. /\ Alone(th) /\ 1 \in DOMAIN th /\ th[1] = Discover(d, PortUnits(Interfaces))
      /\ \A j \in DOMAIN th : Prelude(th[j]) = "none"
  BY PlainSure DEF discover_interfaces, Alone
<1> HIDE DEF th
<1> DEFINE One(i) == del_all_subinterfaces_of_interface_from_device(d, i)
<1>5. ASSUME NEW i \in Interfaces
      PROVE  /\ CoversRequest(One(i), th) /\ Lost(One(i)) = {}
             /\ \A j \in Interfaces : Port(j) \notin Changed(One(i))
  <2> DEFINE r == del_all_subinterfaces_of_interface_from_device(d, i)
  <2>1. OnlyAddresses(r, d, {i})
    BY AddressesOnly
  <2>2. OnlyAddresses(r, d, Interfaces)
    BY <2>1 DEF OnlyAddresses
  <2> HIDE DEF r
  <2>3. /\ CoversRequest(r, th) /\ Lost(r) = {}
        /\ \A j \in Interfaces : Port(j) \notin Changed(r)
    BY <1>4, <2>2, AddressCovers
  <2> QED BY <2>3 DEF r
<1> DEFINE rs == del_all_subinterfaces_of_all_interfaces_from_device(d, order)
<1>6. \A k \in DOMAIN rs : order[k] \in Interfaces /\ rs[k] = One(order[k])
  BY <1>3 DEF del_all_subinterfaces_of_all_interfaces_from_device
<1> HIDE DEF rs, One
<1>7. Covers(rs, th)
  BY <1>5, <1>6 DEF Covers, CoversRequest
<1>8. Fits(dev, rs, th)
  BY <1>4, <1>5, <1>6, PlainFits
<1> QED BY <1>1, <1>4, <1>7, <1>8 DEF SafeCall, Configure, rs

LEMMA PreludeSure ==
    ASSUME NEW d, NEW us, NEW prelude, NEW th, th = << <<d, us, prelude>> >>
    PROVE  /\ Alone(th) /\ 1 \in DOMAIN th
           /\ DeviceOf(th[1]) = d /\ Covered(th[1]) = us /\ Prelude(th[1]) = prelude
BY DEF Alone, DeviceOf, Covered, Prelude

LEMMA SafeBreakout ==
    ASSUME NEW c, NEW d \in Devices, config_interface_breakout(c, d)
    PROVE  SafeCall(c)
<1> DEFINE th == discover_interfaces(d)
<1>1. PICK i \in Interfaces : Configure(c, <<config_interface_breakout_on_device(d, i)>>, th)
  BY DEF config_interface_breakout
<1> DEFINE r == config_interface_breakout_on_device(d, i)
<1>2. /\ Target(r) = d /\ Removed(r) = {} /\ Changed(r) = {Port(j) : j \in Parts[i]}
      /\ Lost(r) = {}
  BY DEF config_interface_breakout_on_device, Target, Removed, Added, Changed, Lost, Update
<1>3. /\ Alone(th) /\ 1 \in DOMAIN th /\ th[1] = Discover(d, PortUnits(Interfaces))
      /\ \A j \in DOMAIN th : Prelude(th[j]) = "none"
  BY PlainSure DEF discover_interfaces, Alone
<1>4. Parts[i] \subseteq Interfaces
  BY PortsAssumption
<1>5. \A f \in Changed(r) : f[1] # "port_group" /\ UnitOf(f) \in PortUnits(Interfaces)
  BY <1>2, <1>4, UnitOfPort, PortUnitsFacts
<1> HIDE DEF r, th
<1>6. CoversRequest(r, th)
  BY <1>2, <1>3, <1>5, PlainCovers
<1>7. \A j \in Interfaces : Plain(th[1], d, j)
  <2>1. /\ Prelude(th[1]) = "none" /\ DeviceOf(th[1]) = d
        /\ Covered(th[1]) = PortUnits(Interfaces)
    BY <1>3 DEF Discover, Covered, DeviceOf, Prelude
  <2> QED BY <2>1, PortUnitsFacts DEF Plain
<1>8. \A j \in Interfaces : Port(j) \in Added(r) => j \in PartPorts
  <2> SUFFICES ASSUME NEW j \in Interfaces, Port(j) \in Changed(r) PROVE j \in PartPorts
    BY DEF Changed
  <2>1. j \in Parts[i]
    BY <1>2, UnitOfPort
  <2> QED BY <2>1 DEF PartPorts
<1>9. Fits(dev, <<r>>, th)
  <2>1. Apt(r, th)
    BY <1>2, <1>3, <1>7, <1>8 DEF Apt
  <2>2. Freed(dev, <<r>>, th)
    BY <1>3 DEF Freed
  <2> QED BY <2>1, <2>2 DEF Fits
<1> QED BY <1>1, <1>3, <1>6, <1>9, OneCovers DEF r

LEMMA SafeDeleteBreakout ==
    ASSUME NEW c, NEW d \in Devices, delete_interface_breakout(c, d)
    PROVE  SafeCall(c)
<1>1. PICK i \in Interfaces :
          Configure(c, <<delete_interface_breakout_from_device(d, i)>>,
                    << <<d, PortUnits({i} \cup Parts[i]), "forget_parts">> >>)
  BY DEF delete_interface_breakout
<1> DEFINE r == delete_interface_breakout_from_device(d, i)
           th == << <<d, PortUnits({i} \cup Parts[i]), "forget_parts">> >>
           gone == {f \in Facts : UnitOf(f) \in PortUnits(Parts[i])}
<1>2. /\ Target(r) = d /\ Removed(r) = gone /\ Added(r) = {} /\ Changed(r) = gone
      /\ Lost(r) = {}
  BY DEF delete_interface_breakout_from_device, Target, Removed, Added, Changed, Lost, Delete
<1>3. /\ Alone(th) /\ 1 \in DOMAIN th /\ DeviceOf(th[1]) = d
      /\ Covered(th[1]) = PortUnits({i} \cup Parts[i]) /\ Prelude(th[1]) = "forget_parts"
  BY PreludeSure
<1> HIDE DEF r, th
<1>4. ASSUME NEW f \in gone
      PROVE  f[1] = "interface" /\ UnitOf(f) \in Sure(th[1])
  <2>1. PICK j \in Parts[i] : UnitOf(f) = <<"interface", j>>
    BY DEF PortUnits
  <2>2. UnitOf(f) \in PortUnits({i} \cup Parts[i])
    BY <2>1, PortUnitsFacts
  <2> QED BY <1>3, <2>1, <2>2, UnitKinds DEF Sure
<1>5. PortShape(r)
  <2>1. ASSUME NEW j \in Interfaces, Port(j) \in gone,
               NEW f \in Facts, f[1] = "interface", f[2] = j
        PROVE  f \in gone
    BY <2>1, UnitKinds, UnitOfPort
  <2> QED BY <1>2, <2>1 DEF PortShape
<1>6. GroupShape(r)
  BY <1>2, <1>4 DEF GroupShape
<1>7. CoveredBy(r, th)
  BY <1>2, <1>3, <1>4 DEF CoveredBy
<1>8. ASSUME NEW j \in Interfaces, Port(j) \in gone PROVE Forgets(th[1], d, j)
  <2>1. j \in Parts[i]
    BY <1>8, UnitOfPort, PortUnitsFacts
  <2> QED BY <1>3, <2>1 DEF Forgets
<1>9. ASSUME NEW x \in Devices, NEW j \in Interfaces, Forgets(th[1], x, j)
      PROVE  Clears(r, x, j)
  <2>1. PICK y \in Interfaces : Covered(th[1]) = PortUnits({y} \cup Parts[y]) /\ j \in Parts[y]
    BY <1>9 DEF Forgets
  <2>2. y = i /\ x = d
    BY <1>3, <1>9, <2>1, PartsClear DEF Forgets
  <2> QED BY <1>2, <2>1, <2>2, PortUnitsFacts DEF Clears
<1>10. DOMAIN th = {1}
  BY DEF th
<1>11. Fits(dev, <<r>>, th)
  <2>1. Apt(r, th)
    BY <1>2, <1>3, <1>8 DEF Apt
  <2>2. Freed(dev, <<r>>, th)
    BY <1>2, <1>9, <1>10 DEF Freed
  <2> QED BY <2>1, <2>2 DEF Fits
<1> QED BY <1>1, <1>3, <1>5, <1>6, <1>7, <1>11, OneCovers DEF CoversRequest, r, th

LEMMA SafeGroupSpeed ==
    ASSUME NEW c, NEW d \in Devices, set_port_group_speed(c, d)
    PROVE  SafeCall(c)
<1>1. PICK g \in Groups, s \in Speeds :
          Configure(c, <<set_port_group_speed_on_device(d, g, s)>>,
                    << <<d, PortUnits(Members[g]), "look_up_members">> >>)
  BY DEF set_port_group_speed
<1> DEFINE r == set_port_group_speed_on_device(d, g, s)
           th == << <<d, PortUnits(Members[g]), "look_up_members">> >>
           new == {GroupSpeed(g, s)} \cup {PortSpeed(i, s) : i \in Members[g]}
<1>2. /\ Target(r) = d /\ Removed(r) = SpeedsOf(g) \ new /\ Added(r) = new
      /\ Changed(r) = SpeedsOf(g) \cup new /\ Lost(r) = {}
  BY DEF set_port_group_speed_on_device, Target, Removed, Added, Changed, Lost, Replace
<1>3. /\ Alone(th) /\ 1 \in DOMAIN th /\ DeviceOf(th[1]) = d
      /\ Covered(th[1]) = PortUnits(Members[g]) /\ Prelude(th[1]) = "look_up_members"
  BY PreludeSure
<1>4. Members[g] \subseteq Interfaces
  BY PortsAssumption
<1>5. \A i, t : /\ PortSpeed(i, t)[1] = "interface" /\ PortSpeed(i, t)[3] = "speed"
                /\ UnitOf(PortSpeed(i, t)) = <<"interface", i>>
  BY DEF PortSpeed, UnitOf, PerName
<1>6. ASSUME NEW f \in SpeedsOf(g) \cup new
      PROVE  \/ \E t \in Speeds : f = GroupSpeed(g, t)
             \/ \E i \in Members[g], t \in Speeds : f = PortSpeed(i, t)
  BY DEF SpeedsOf
<1> HIDE DEF r, th
<1>7. PortShape(r) /\ Fits(dev, <<r>>, th)
  <2>1. \A i : Port(i)[1] = "interface" /\ Port(i)[3] = "name"
    BY DEF Port
  <2>2. \A i \in Interfaces : Port(i) \notin SpeedsOf(g) \cup new
    BY <1>5, <1>6, <2>1, UnitOfPort
  <2>3. \A k \in DOMAIN th : Prelude(th[k]) # "forget_parts"
    BY DEF th, Prelude
  <2>4. Fits(dev, <<r>>, th)
    BY <1>2, <2>2, <2>3, PlainFits
  <2> QED BY <1>2, <2>2, <2>4 DEF PortShape
<1>8. GroupShape(r)
  <2>1. ASSUME NEW f \in Facts, f[1] = "port_group"
        PROVE  /\ f \in new <=> f = GroupSpeed(g, s)
               /\ f \in SpeedsOf(g) \ new <=> f[2] = g /\ f[4] # s
    <3>1. f[2] \in Groups /\ f[4] \in Speeds /\ f = GroupSpeed(f[2], f[4])
      BY <2>1, SpeedOfGroup
    <3>2. f \in new <=> f = GroupSpeed(g, s)
      BY <1>5, <2>1
    <3>3. f \in SpeedsOf(g) <=> f[2] = g
      BY <1>5, <2>1, <3>1, SpeedOfGroup DEF SpeedsOf
    <3>4. f[2] = g => (f = GroupSpeed(g, s) <=> f[4] = s)
      BY <3>1, SpeedOfGroup
    <3> QED BY <3>2, <3>3, <3>4, SpeedOfGroup
  <2> QED BY <1>2, <2>1 DEF GroupShape
<1>9. CoveredBy(r, th)
  <2>1. ASSUME NEW i \in Members[g], NEW t \in Speeds
        PROVE  UnitOf(PortSpeed(i, t)) \in Sure(th[1])
    BY <1>3, <1>4, <1>5, PortUnitsFacts DEF Sure
  <2> QED BY <1>2, <1>3, <1>6, <2>1, UnitOfPort DEF CoveredBy
<1> QED BY <1>1, <1>3, <1>7, <1>8, <1>9, OneCovers DEF CoversRequest, r, th

LEMMA EveryCallSafe ==
    ASSUME NEW c, NEW d \in Devices, BgpCall(c, d) \/ SpanningCall(c, d) \/ PortCall(c, d)
    PROVE  SafeCall(c)
<1>1. CASE BgpCall(c, d)
  BY <1>1, SafeBgpGlobal, SafeBgpNeighbor DEF BgpCall
<1>2. CASE PortCall(c, d)
  BY <1>2, SafeAddresses, SafeAllSubinterfaces, SafeFeaturePort, SafeBreakout,
     SafeDeleteBreakout, SafeGroupSpeed DEF PortCall
<1> QED BY <1>1, <1>2, SafeSpanning

LEMMA SafeDiscoverDevice ==
    ASSUME NEW c \in Clients, discover_device(c)
    PROVE  SafeCall(c)
<1>1. PICK order \in Orders(Devices) :
          Begin(c, <<>>, discover_nw_features(order, PortDiscoveries)
                         \o discover_nw_features(order, FeatureDiscoveries))
  BY DEF discover_device
<1> DEFINE s == discover_nw_features(order, PortDiscoveries)
           t == discover_nw_features(order, FeatureDiscoveries)
<1>2. s \in Seq(Entry) /\ t \in Seq(Entry)
  BY RoundsType
<1>3. (\A k \in DOMAIN s : Prelude(s[k]) = "none") /\ (\A k \in DOMAIN t : Prelude(t[k]) = "none")
  BY PlainSure DEF discover_nw_features
<1> HIDE DEF s, t
<1>4. \A k \in DOMAIN (s \o t) : Prelude((s \o t)[k]) = "none"
  <2> SUFFICES ASSUME NEW k \in DOMAIN (s \o t) PROVE Prelude((s \o t)[k]) = "none"
    OBVIOUS
  <2>1. k \in 1..(Len(s) + Len(t))
    BY <1>2
  <2>2. CASE k <= Len(s)
    BY <1>2, <1>3, <2>1, <2>2
  <2>3. CASE k > Len(s)
    <3>1. k - Len(s) \in DOMAIN t /\ (s \o t)[k] = t[k - Len(s)]
      BY <1>2, <2>1, <2>3
    <3> QED BY <1>3, <3>1
  <2> QED BY <1>2, <2>1, <2>2, <2>3
<1>5. Alone(s \o t)
  BY <1>4 DEF Alone
<1>6. Covers(<<>>, s \o t)
  BY DEF Covers
<1>7. Fits(dev, <<>>, s \o t)
  <2> DEFINE th == s \o t
  <2>1. \A k \in DOMAIN th : Prelude(th[k]) # "forget_parts"
    BY <1>4
  <2>2. \A k : k \notin DOMAIN <<>>
    OBVIOUS
  <2> HIDE DEF th
  <2>3. Fits(dev, <<>>, th)
    BY <2>1, <2>2, PlainFits
  <2> QED BY <2>3 DEF th
<1> QED BY <1>1, <1>5, <1>6, <1>7 DEF SafeCall, s, t

LEMMA SyncCall ==
    ASSUME SyncInv, TypeOK', NEW c \in Clients, SafeCall(c)
    PROVE  SyncInv'
BY SyncBegin DEF SafeCall

(* SyncInv holds of every reachable state.                                 *)
LEMMA NetworkSync == Spec => []SyncInv
<1>1. SyncInv /\ TypeOK' /\ [Next]_vars => SyncInv'
  <2> SUFFICES ASSUME SyncInv, TypeOK', [Next]_vars PROVE SyncInv'
    OBVIOUS
  <2>1. ASSUME NEW c \in Clients, NEW d \in Devices,
               BgpCall(c, d) \/ SpanningCall(c, d) \/ PortCall(c, d)
        PROVE  SyncInv'
    BY <2>1, EveryCallSafe, SyncCall
  <2>2. ASSUME NEW c \in Clients, ClientStep(c) PROVE SyncInv'
    BY <2>2, SyncSets, SyncForgetParts, SyncLookUpMembers, SyncAnswers,
       SyncGetRaises, SyncInsert, SyncReturn DEF ClientStep
  <2>3. ASSUME NEW c \in Clients, discover_device(c) PROVE SyncInv'
    BY <2>3, SafeDiscoverDevice, SyncCall
  <2>4. ASSUME NEW d \in Devices, handle_port_group_config_update(d) PROVE SyncInv'
    BY <2>4, SyncNotification
  <2>5. CASE UNCHANGED vars
    <3>1. TypeOK' /\ Hardware' /\ LastIsRight' /\ GotCovered'
      BY <2>5 DEF vars, client, SyncInv, Hardware, LastIsRight, GotCovered, Current
    <3>2. \A c \in Clients : Covers(reqs'[c], then'[c]) /\ Alone(then'[c])
      BY <2>5 DEF vars, client, SyncInv
    <3>3. \A d \in Devices, u \in Units : Settled(d, u)'
      BY <2>5 DEF vars, client, SyncInv, Settled, SureFollows, Announced
    <3> QED BY <3>1, <3>2, <3>3 DEF SyncInv
  <2> QED BY <2>1, <2>2, <2>3, <2>4, <2>5 DEF Next
<1> QED BY SyncInit, NetworkTypeCorrect, <1>1, PTL DEF Spec

(* For any devices, threads, configurations and failures: what a reader    *)
(* of the graph DB sees of a feature, interface or port group is what the  *)
(* device has, unless a discovery of it failed or was overtaken, or the    *)
(* function that changed it discovers something else, or a thread is about *)
(* to discover it or a notification of it is on its way.                   *)
THEOREM NetworkStaysInSync == Spec => []InSync
<1>1. SyncInv => InSync
  <2>1. ASSUME NEW c, NEW d, NEW u, SureFollows(c, d, u) PROVE Follows(c, d, u)
    BY <2>1 DEF SureFollows, Follows, Sure
  <2> QED BY <2>1 DEF SyncInv, InSync, Settled
<1> QED BY NetworkSync, <1>1, PTL
=============================================================================
