-------------------------- MODULE NetworkFeatures --------------------------
(***************************************************************************)
(* The machine that runs the configuration functions of Bgp, Spanning and  *)
(* PortConfig, and complete discoveries, in several threads.  A step is a  *)
(* Set, a Get, or the transactions that insert one answer.                 *)
(***************************************************************************)
EXTENDS Bgp, Spanning, PortConfig

(* What the DB stores when it had old and the device answered, for the     *)
(* units decided.  kept: the BGP nodes, one for each AS number.            *)
Stored(old, answer, kept, decided) ==
    LET of(f) == OfAll(answer, {Whole(f)} \cap decided)
        named(k) == {f \in OfAll(answer, decided) : f[1] = k}
    IN  insert_device_bgp_in_db(kept, of("bgp"))
        \cup insert_device_bgp_neighbors_in_db(
                 OfAll(old, {Whole("bgp_neighbor")} \cap decided),
                 _create_bgp_neighbors_graph_objects(of("bgp_neighbor")))
        \cup insert_device_stp_in_db(_create_stp_graph_object(of("stp")))
        \cup insert_device_stp_vlan_in_db(of("stp_vlan"))
        \cup _create_vlan_db_obj(of("vlan"))
        \cup insert_device_mclag_gw_macs_in_db(of("gw_mac"))
        \cup _create_interface_graph_objects(named("interface"))
        \cup _create_port_group_graph_objects(named("port_group"))

Decided(us, answer) ==
    {u \in us : u[1] \in Features} \cup insert_device_interfaces_in_db(us, answer)
    \cup insert_device_port_groups_in_db(us, answer)

(* What a reader of the DB sees of a unit, also when he reads the device   *)
(* itself: the AS numbers of BGP and what hangs on them, the addresses of  *)
(* the neighbors (not their AS numbers, which the DB never updates) and    *)
(* their families.                                                         *)
Seen(u, facts) ==
    LET own == Of(facts, u)
        hung(roots) == IF roots = {} THEN {} ELSE own \ roots
    IN  CASE u = Whole("bgp") ->
               {<<"bgp", "asn", "asn", f[4]>> : f \in GlobalsOf(own)} \cup hung(GlobalsOf(own))
          [] u = Whole("bgp_neighbor") ->
               {<<"neighbor", n>> : n \in NeighborIps(own)}
               \cup {<<"family", f[4]>> : f \in hung(NeighborsOf(own))}
          [] u = Whole("stp") -> _create_stp_graph_object(own)
          [] u[1] = "interface" -> _create_interface_graph_objects(own)
          [] OTHER -> own

-----------------------------------------------------------------------------
(* The devices have been discovered before.                                *)
CONSTANTS
    Configurations,   \* what a device may have at first
    Discoverers       \* the threads that run complete discoveries

ASSUME DiscoverersAssumption == Discoverers \subseteq Clients
ASSUME ConfigurationsAssumption == Configurations \subseteq SUBSET Facts

(* Only a port of the device has addresses and a speed and is a member of  *)
(* VLANs; a port group has one speed; parts of an interface are not broken *)
(* out again.                                                              *)
PortsWhole(x) == \A f \in x : f[1] = "interface" => Port(f[2]) \in x
OneSpeed(x) == \A g \in Groups : \E s \in Speeds : {t \in Speeds : GroupSpeed(g, t) \in x} = {s}

ASSUME HardwareAssumption ==
    /\ \A x \in Configurations : PortsWhole(x) /\ OneSpeed(x) /\ Standing(x) = x
    /\ \A i \in Interfaces : \A j \in Parts[i] : Parts[j] = {}

Init ==
    /\ dev \in [Devices -> Configurations]
    /\ \E kept \in [Devices -> UNION {_create_bgp_graph_objects(GlobalsOf(x)) : x \in Configurations}] :
        /\ \A d \in Devices : kept[d] \in _create_bgp_graph_objects(GlobalsOf(dev[d]))
        /\ db = [d \in Devices |-> Stored({}, dev[d], kept[d], Units)]
    /\ rels = connect_bgp_neighbor_to_bgp_global(db)
    /\ ties = [d \in Devices |-> TiedMembers({}, Units, db[d])]
    /\ queue = [d \in Devices |-> <<>>]
    /\ calls = 0 /\ faults = 0
    /\ pc = [c \in Clients |-> "idle"]
    /\ reqs = [c \in Clients |-> <<>>] /\ then = [c \in Clients |-> <<>>]
    /\ resume = [c \in Clients |-> FALSE]
    /\ got = [c \in Clients |-> {}]
    /\ missed = {}

-----------------------------------------------------------------------------
(* Sets.                                                                   *)

Sending(c) == pc[c] = "busy" /\ reqs[c] # <<>>
Fault == faults < MaxFaults /\ faults' = faults + 1

(* What x says of VLANs is Standing(x), and it differs from what y says,   *)
(* the other side.                                                         *)
Uprooted(d, x, y) == {u \in {<<d, Whole("vlan")>>} :
    Standing(x) # x /\ Of(Standing(x), Whole("vlan")) # Of(y, Whole("vlan"))}

(* The device does what the request says, except for ports it has not.     *)
Asked(facts, r) ==
    (facts \ Removed(r)) \cup {f \in Added(r) : f[1] = "interface" => Port(f[2]) \in facts \cup Added(r)}
Executed(facts, r) == Standing(Asked(facts, r))

Changes(r) == {f \in Added(r) : f[1] = "port_group" /\ f \notin dev[Target(r)]}

Execute(r) ==
    /\ dev' = [dev EXCEPT ![Target(r)] = Executed(@, r)]
    /\ \E order \in Orders({<<f[2], f[4]>> : f \in Changes(r)}) :
        queue' = [queue EXCEPT ![Target(r)] = @ \o order]
    /\ missed' = missed \cup ({Target(r)} \X Lost(r))
                 \cup Uprooted(Target(r), Asked(dev[Target(r)], r), db[Target(r)])

Set(c) ==
    /\ Sending(c)
    /\ Execute(Head(reqs[c]))
    /\ reqs' = [reqs EXCEPT ![c] = Tail(@)]
    /\ UNCHANGED <<db, rels, ties, calls, faults, pc, then, resume, got>>

(* A mutant of SetRaises: the function raises without its finally clause. *)
SetRaisesAtOnce(c) ==
    /\ Sending(c) /\ Fault
    /\ reqs' = [reqs EXCEPT ![c] = <<>>]
    /\ pc' = [pc EXCEPT ![c] = "idle"]
    /\ UNCHANGED <<dev, queue, missed, db, rels, ties, calls, then, resume, got>>

(* Without a stub nothing is sent, and nothing raised.                     *)
SetNotSent(c) ==
    /\ Sending(c) /\ Fault
    /\ reqs' = [reqs EXCEPT ![c] = Tail(@)]
    /\ UNCHANGED <<dev, queue, missed, db, rels, ties, calls, pc, then, resume, got>>

(* The device refuses, or does it and the answer is lost: the function     *)
(* raises, after its finally clause.                                       *)
SetRaises(c) ==
    /\ Sending(c) /\ Fault
    /\ \/ Execute(Head(reqs[c]))
       \/ UNCHANGED <<dev, queue, missed>>
    /\ reqs' = [reqs EXCEPT ![c] = <<>>]
    /\ UNCHANGED <<db, rels, ties, calls, pc, then, resume, got>>

-----------------------------------------------------------------------------
(* Discoveries.                                                            *)

Current(c) == Head(then[c])
Discovering(c) == pc[c] = "busy" /\ reqs[c] = <<>> /\ then[c] # <<>>

(* delete_interface_breakout deletes the nodes of the parts from the DB,   *)
(* with their relations, then discovers the interface if the DB has it.    *)
ForgetParts(c) ==
    LET e == Current(c)
        d == DeviceOf(e)
    IN  /\ Discovering(c) /\ Prelude(e) = "forget_parts"
        /\ \E i \in Interfaces :
            /\ PortUnits({i} \cup Parts[i]) = Covered(e)
            /\ LET left == db[d] \ OfAll(db[d], PortUnits(Parts[i]))
               IN  /\ db' = [db EXCEPT ![d] = Standing(left)]
                   /\ ties' = [ties EXCEPT ![d] = TiedMembers(@, {}, left)]
                   /\ missed' = (missed \ ({d} \X PortUnits(Parts[i])))
                        \cup ({d} \X PortUnits({j \in Parts[i] : Of(dev[d], <<"interface", j>>) # {}}))
                        \cup Uprooted(d, left, dev[d])
            /\ then' = [then EXCEPT ![c] = IF i \in PortsIn(db[d])
                                           THEN discover_interface(d, i) ELSE <<>>]
        /\ UNCHANGED <<dev, rels, queue, calls, faults, pc, reqs, resume, got>>

(* set_port_group_speed discovers, one after the other, those interfaces   *)
(* that the DB has tied to the group.                                      *)
LookUpMembers(c) ==
    LET e == Current(c)
        d == DeviceOf(e)
    IN  /\ Discovering(c) /\ Prelude(e) = "look_up_members"
        /\ \E g \in Groups :
            /\ PortUnits(Members[g]) = Covered(e)
            /\ LET known == {i \in Members[g] : <<g, i>> \in ties[d]}
               IN  /\ \E order \in Orders(known) :
                       then' = [then EXCEPT ![c] = [k \in DOMAIN order |->
                                                       Discover(d, PortUnits({order[k]}))]]
                   /\ missed' = missed \cup ({d} \X PortUnits(
                           {j \in Members[g] \ known : Port(j) \in dev[d] \cup db[d]}))
        /\ UNCHANGED <<dev, db, rels, ties, queue, calls, faults, pc, reqs, resume, got>>

Ask(c, answer) ==
    /\ Discovering(c) /\ Prelude(Current(c)) = "none"
    /\ got' = [got EXCEPT ![c] = answer]
    /\ pc' = [pc EXCEPT ![c] = "insert"]
    /\ UNCHANGED <<dev, db, rels, ties, queue, calls, reqs, then, resume>>

Get(c) ==
    /\ Ask(c, OfAll(dev[DeviceOf(Current(c))], Covered(Current(c))))
    /\ UNCHANGED <<faults, missed>>

(* Without a stub the answer is empty.  So it is for every error when the  *)
(* VLANs of STP are asked for, and the DB is pruned.                       *)
GetNothing(c) ==
    /\ Ask(c, {}) /\ Fault
    /\ missed' = missed \cup ({DeviceOf(Current(c))} \X Covered(Current(c)))

(* An error is raised to the caller, unless discover_nw_features logs it.  *)
(* Neighbors are connected all the same.                                   *)
GetRaises(c) ==
    LET e == Current(c)
        dropped == IF resume[c] THEN {1} ELSE DOMAIN then[c]
    IN  /\ Discovering(c) /\ Prelude(e) = "none" /\ Fault
        /\ Covered(e) # {Whole("stp_vlan")}
        /\ then' = [then EXCEPT ![c] = IF resume[c] THEN Tail(@) ELSE <<>>]
        /\ missed' = missed \cup UNION {{DeviceOf(then[c][k])} \X Covered(then[c][k]) : k \in dropped}
        /\ rels' = IF Covered(e) = {Whole("bgp_neighbor")}
                   THEN connect_bgp_neighbor_to_bgp_global(db) ELSE rels
        /\ UNCHANGED <<dev, db, ties, queue, calls, pc, reqs, resume, got>>

(* The units of e that the answer decides for what the device has no       *)
(* longer are missed, and those it does not decide, unless neither has any.*)
InsertAnswer(e, answer) ==
    LET d == DeviceOf(e)
        decided == Decided(Covered(e), answer)
        current == {u \in decided : Of(answer, u) = Of(dev[d], u)}
            \cup {u \in Covered(e) \ decided : Of(db[d], u) = {} /\ Of(dev[d], u) = {}}
    IN  /\ \E kept \in _create_bgp_graph_objects(GlobalsOf(answer)) :
            LET new == (db[d] \ OfAll(db[d], decided)) \cup Stored(db[d], answer, kept, decided)
            IN  /\ db' = [db EXCEPT ![d] = Standing(new)]
                /\ ties' = [ties EXCEPT ![d] = TiedMembers(@, decided, new)]
                /\ missed' = (missed \ ({d} \X current)) \cup ({d} \X (Covered(e) \ current))
                             \cup Uprooted(d, new, dev[d])
        /\ rels' = IF Covered(e) = {Whole("bgp_neighbor")}
                   THEN connect_bgp_neighbor_to_bgp_global(db') ELSE Attached(rels, db')

Insert(c) ==
    /\ pc[c] = "insert"
    /\ InsertAnswer(Current(c), got[c])
    /\ pc' = [pc EXCEPT ![c] = "busy"]
    /\ then' = [then EXCEPT ![c] = Tail(@)]
    /\ got' = [got EXCEPT ![c] = {}]
    /\ UNCHANGED <<dev, queue, calls, faults, reqs, resume>>

Return(c) ==
    /\ pc[c] = "busy" /\ reqs[c] = <<>> /\ then[c] = <<>>
    /\ pc' = [pc EXCEPT ![c] = "idle"]
    /\ UNCHANGED <<dev, db, rels, ties, queue, calls, faults, reqs, then, resume, got, missed>>

-----------------------------------------------------------------------------
(* The stream of a device brings the speed of a port group.                *)

handle_port_group_config_update(d) ==
    LET g == Head(queue[d])[1]
        s == Head(queue[d])[2]
    IN  /\ queue[d] # <<>>
        /\ queue' = [queue EXCEPT ![d] = Tail(@)]
        /\ db' = [db EXCEPT ![d] = IF g \in GroupsIn(@)
                                   THEN (@ \ Of(@, <<"port_group", g>>)) \cup {GroupSpeed(g, s)}
                                   ELSE @]
        /\ UNCHANGED <<dev, rels, ties, calls, faults, client, missed>>

(* discover_device, for devices that the DB has: the ports of each, then   *)
(* the features of each.                                                   *)
PortDiscoveries == <<PortUnits(Interfaces), GroupUnits>>

(* A mutant of FeatureDiscoveries: gateway MACs are not rediscovered.      *)
FeatureDiscoveriesButMacs == <<{Whole("vlan")}, {Whole("bgp")}, {Whole("bgp_neighbor")},
                               {Whole("stp")}, {Whole("stp_vlan")}>>

FeatureDiscoveries == <<{Whole("vlan")}, {Whole("gw_mac")}, {Whole("bgp")},
                        {Whole("bgp_neighbor")}, {Whole("stp")}, {Whole("stp_vlan")}>>

discover_nw_features(order, discoveries) ==
    [k \in 1..(Len(order) * Len(discoveries)) |->
        Discover(order[((k - 1) \div Len(discoveries)) + 1],
                 discoveries[((k - 1) % Len(discoveries)) + 1])]

discover_device(c) == \E order \in Orders(Devices) :
    /\ c \in Discoverers
    /\ Begin(c, <<>>, discover_nw_features(order, PortDiscoveries)
                      \o discover_nw_features(order, FeatureDiscoveries))
    /\ resume' = [resume EXCEPT ![c] = TRUE]
    /\ UNCHANGED calls

-----------------------------------------------------------------------------
ClientStep(c) ==
    \/ Set(c) \/ SetNotSent(c) \/ SetRaises(c)
    \/ ForgetParts(c) \/ LookUpMembers(c)
    \/ Get(c) \/ GetNothing(c) \/ GetRaises(c)
    \/ Insert(c) \/ Return(c)

Next ==
    \/ \E c \in Clients, d \in Devices : BgpCall(c, d) \/ SpanningCall(c, d) \/ PortCall(c, d)
    \/ \E c \in Clients : ClientStep(c) \/ discover_device(c)
    \/ \E d \in Devices : handle_port_group_config_update(d)

Spec == Init /\ [][Next]_vars

(* Threads go on, streams deliver, and the application runs a complete     *)
(* discovery again and again.                                              *)
FairSpec ==
    /\ Spec
    /\ \A c \in Clients : WF_vars(ClientStep(c)) /\ WF_vars(discover_device(c))
    /\ \A d \in Devices : WF_vars(handle_port_group_config_update(d))

-----------------------------------------------------------------------------
(* Types.                                                                  *)
TypeOK ==
    /\ dev \in [Devices -> SUBSET Facts] /\ db \in [Devices -> SUBSET Facts]
    /\ rels \subseteq Links /\ ties \in [Devices -> SUBSET (Groups \X Interfaces)]
    /\ queue \in [Devices -> Seq(Groups \X Speeds)]
    /\ calls \in 0..MaxCalls /\ faults \in 0..MaxFaults
    /\ pc \in [Clients -> {"idle", "busy", "insert"}]
    /\ reqs \in [Clients -> Seq(Request)] /\ then \in [Clients -> Seq(Entry)]
    /\ resume \in [Clients -> BOOLEAN]
    /\ got \in [Clients -> SUBSET Facts]
    /\ missed \subseteq Devices \X Units
    /\ \A c \in Clients :
        /\ pc[c] = "insert" => then[c] # <<>> /\ Prelude(Current(c)) = "none"
        /\ pc[c] # "busy" => reqs[c] = <<>>
        /\ pc[c] = "idle" => then[c] = <<>>

(* Thread c is yet to discover unit u of device d, or has an answer that   *)
(* is what the device has.                                                 *)
Follows(c, d, u) == \E k \in DOMAIN then[c] :
    /\ DeviceOf(then[c][k]) = d /\ u \in Covered(then[c][k])
    /\ k = 1 /\ pc[c] = "insert" => Of(got[c], u) = Of(dev[d], u)

Announced(d, u) == \E k \in DOMAIN queue[d] : u = <<"port_group", queue[d][k][1]>>

(* What a reader of the DB sees of a device is what the device has, unless *)
(* a discovery of it failed or was overtaken, or the function that changed *)
(* it discovers something else; while functions run, unless one of them is *)
(* about to discover it or a notification of it is on its way.             *)
InSync == \A d \in Devices, u \in Units :
    \/ Seen(u, db[d]) = Seen(u, dev[d])
    \/ <<d, u>> \in missed
    \/ \E c \in Clients : Follows(c, d, u)
    \/ Announced(d, u)

(* The ports that come and go and belong to a port group.                  *)
PartMembers == (UNION {Parts[i] : i \in Interfaces}) \cap (UNION {Members[g] : g \in Groups})

(* With one thread and no failure, what the DB does not follow is only     *)
(* what the functions that discover something else have changed: the       *)
(* neighbors of BGP, the members of VLANs, and the speed of the parts of a *)
(* breakout, which the DB ties to their port group in no other discovery   *)
(* than a complete one.  No answer is overtaken, an interface that is      *)
(* forgotten is one that the device gave up, and other ports stay tied.    *)
OneThreadMissesOnly ==
    Cardinality(Clients) = 1 /\ faults = 0
        => missed \subseteq Devices \X
               ({Whole("bgp_neighbor"), Whole("vlan")} \cup PortUnits(PartMembers))

(* A relation leads from a neighbor to BGP nodes of its AS number, in any  *)
(* order of the discoveries that create and delete both.                   *)
RelationsMatch == rels \subseteq connect_bgp_neighbor_to_bgp_global(db)

(* When no more is configured and no request fails, complete discoveries   *)
(* bring DB and devices together, relations between devices and those of   *)
(* port groups included.                                                   *)
DiscoveryHeals ==
    <>[](/\ \A d \in Devices, u \in Units : Seen(u, db[d]) = Seen(u, dev[d])
         /\ rels = connect_bgp_neighbor_to_bgp_global(db)
         /\ \A d \in Devices : ties[d] = TiedMembers({}, Units, dev[d]))

(* What the DB has of a neighbor is what the device has.                   *)
NeighborsUpToDate ==
    (\A c \in Clients : pc[c] = "idle") /\ faults = 0 /\ missed = {}
        => \A d \in Devices : NeighborsOf(db[d]) = NeighborsOf(dev[d])
=============================================================================
