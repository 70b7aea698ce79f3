------------------------------ MODULE Topology ------------------------------
(***************************************************************************)
(* Discovery of a network by its LLDP neighbours: discovery.py, lldp.py,   *)
(* lldp_db.py and the device node of device.py and device_db.py, on        *)
(* devices that reboot, are cabled anew and fail, and whose LLDP tables    *)
(* fill and empty with a delay.                                            *)
(*                                                                         *)
(* The recursion of _discover_device_and_lldp_info is a list of the tasks  *)
(* that a thread still has, in order: a call replaces its task by those of *)
(* its body.  Features other than interfaces are in NetworkFeatures and    *)
(* FeatureStores, the subscription of each device is in Subscription.      *)
(* What one function inserts into the DB is one step.                      *)
(***************************************************************************)
EXTENDS Naturals, Sequences, FiniteSets

CONSTANTS
    Devices, Clients,
    Ports, Owner,   \* the interfaces of all devices, and whose each is
    Asked,          \* the devices that the application asks for
    Lists,          \* ... in lists
    Cablings,       \* how the network may be cabled
    MaxTroubles     \* how many reboots, new cablings, deletions and failures

ASSUME PortsAssumption ==
    Owner \in [Ports -> Devices] /\ IsFiniteSet(Ports) /\ IsFiniteSet(Devices)
ASSUME ListsAssumption == Asked \subseteq Devices /\ Lists \subseteq Seq(Asked)
ASSUME CablesAssumption ==
    Cablings \subseteq {x \in SUBSET (Ports \X Ports) : \A r \in x : <<r[2], r[1]>> \in x}
ASSUME LimitsAssumption == MaxTroubles \in Nat

VARIABLES
    power,     \* of each device: "off", "booting" (and listening) or "ready"
    cables,    \* the pairs of ports that are connected
    on,        \* the ports that are enabled
    heard,     \* the LLDP tables: a port and one that it lists
    known,     \* the Device nodes of the DB
    unready,   \* ... those whose system_status is that the system is not ready
    ports,     \* the Interface nodes
    told,      \* their lldp_nbrs: a port and one that it lists
    links,     \* the lldp_neighbour relations
    pc,        \* what each thread does
    tasks,     \* the tasks it has yet to do
    troubles,  \* how often something has changed or failed
    met,       \* history: the devices that have ever been known
    wired,     \* history: the pairs that have ever been cabled
    smooth     \* history: nothing changed, no request failed, and no LLDP
               \* table was incomplete when it was read

device == <<power, cables, on, heard>>
graph == <<known, unready, ports, told, links>>
history == <<met, wired, smooth>>
vars == <<device, graph, pc, tasks, troubles, history>>

PortsOf(d) == {p \in Ports : Owner[p] = d}
From(pairs, ps) == {r \in pairs : r[1] \in ps}
Ends(r) == {Owner[r[1]], Owner[r[2]]}

Stages == {"device", "info", "interfaces", "enable", "lldp", "neighbors", "neighbor", "link"}
Task == Stages \X Devices

(* The orders in which a set of nodes, or the keys of a table, may come.   *)
Orders(S) == {s \in [1..Cardinality(S) -> S] : \A j, k \in DOMAIN s : s[j] = s[k] => j = k}
Each(stage, ds) == [k \in DOMAIN ds |-> <<stage, ds[k]>>]

Init ==
    /\ power = [d \in Devices |-> "ready"]
    /\ cables \in Cablings
    /\ on \in {{}, Ports}
    /\ heard = IF on = Ports THEN cables ELSE {}
    /\ known = {} /\ unready = {} /\ ports = {} /\ told = {} /\ links = {}
    /\ pc = [c \in Clients |-> "idle"]
    /\ tasks = [c \in Clients |-> <<>>]
    /\ troubles = 0
    /\ met = {} /\ wired = cables /\ smooth = TRUE

-----------------------------------------------------------------------------
(* The network.                                                            *)

Trouble == troubles < MaxTroubles /\ troubles' = troubles + 1 /\ smooth' = FALSE
NoTrouble == UNCHANGED <<troubles, smooth>>

install_image_on_device(d) ==
    /\ Trouble
    /\ power' = [power EXCEPT ![d] = "off"]
    /\ UNCHANGED <<cables, on, heard, graph, pc, tasks, met, wired>>

Listens(d) ==
    /\ power[d] = "off"
    /\ power' = [power EXCEPT ![d] = "booting"]
    /\ UNCHANGED <<cables, on, heard, graph, pc, tasks, troubles, history>>

BecomesReady(d) ==
    /\ power[d] = "booting"
    /\ power' = [power EXCEPT ![d] = "ready"]
    /\ UNCHANGED <<cables, on, heard, graph, pc, tasks, troubles, history>>

Boot == \E d \in Devices : Listens(d) \/ BecomesReady(d)

Recable == \E x \in Cablings \ {cables} :
    /\ Trouble
    /\ cables' = x
    /\ wired' = wired \cup x
    /\ UNCHANGED <<power, on, heard, graph, pc, tasks, met>>

Up(r) == r \in cables /\ {r[1], r[2]} \subseteq on /\ \A d \in Ends(r) : power[d] = "ready"

Both(r) == {r, <<r[2], r[1]>>}

(* The tables of both ends at once.                                        *)
Hear(r) ==
    /\ Up(r) /\ r \notin heard
    /\ heard' = heard \cup Both(r)
    /\ UNCHANGED <<power, cables, on, graph, pc, tasks, troubles, history>>

Expire(r) ==
    /\ r \in heard /\ ~Up(r)
    /\ heard' = heard \ Both(r)
    /\ UNCHANGED <<power, cables, on, graph, pc, tasks, troubles, history>>

Lldp == \E r \in cables \cup heard : Hear(r) \/ Expire(r)

-----------------------------------------------------------------------------
(* The calls of the application.                                           *)

(* A mutant of the next: neighbours first.                                 *)
neighbours_and_their_devices(ds) == Each("neighbors", ds) \o Each("device", ds)

(* _discover_device_and_lldp_info: first all devices, then the neighbours  *)
(* of each.                                                                *)
_discover_device_and_lldp_info(ds) == Each("device", ds) \o Each("neighbors", ds)

Begin(c, what, ts) ==
    /\ pc[c] = "idle"
    /\ pc' = [pc EXCEPT ![c] = what]
    /\ tasks' = [tasks EXCEPT ![c] = ts]

discover_device(c, list) ==
    /\ Begin(c, "exploring", _discover_device_and_lldp_info(list))
    /\ UNCHANGED <<device, graph, troubles, history>>

(* The device reboots; the thread waits for it, and then discovers it.     *)
switch_image_on_device(c, d) ==
    /\ d \in Asked /\ Trouble
    /\ Begin(c, "waiting", _discover_device_and_lldp_info(<<d>>))
    /\ power' = [power EXCEPT ![d] = "off"]
    /\ UNCHANGED <<cables, on, heard, graph, met, wired>>

(* It waits for a minute and more, and gives up.                           *)
Reconnect(c) ==
    /\ pc[c] = "waiting"
    /\ \/ /\ power[Head(tasks[c])[2]] # "off"
          /\ pc' = [pc EXCEPT ![c] = "exploring"]
          /\ UNCHANGED tasks
       \/ /\ power[Head(tasks[c])[2]] = "off"
          /\ pc' = [pc EXCEPT ![c] = "idle"]
          /\ tasks' = [tasks EXCEPT ![c] = <<>>]
    /\ UNCHANGED <<device, graph, troubles, history>>

(* A mutant of delete_device: the interfaces are not detached.             *)
delete_device_alone(d) ==
    /\ d \in known /\ Trouble
    /\ known' = known \ {d}
    /\ unready' = unready \ {d}
    /\ ports' = ports \ PortsOf(d)
    /\ told' = told \ From(told, PortsOf(d))
    /\ UNCHANGED <<device, links, pc, tasks, met, wired>>

(* By any thread, at any time.                                             *)
delete_device(d) ==
    /\ d \in known /\ Trouble
    /\ known' = known \ {d}
    /\ unready' = unready \ {d}
    /\ ports' = ports \ PortsOf(d)
    /\ told' = told \ From(told, PortsOf(d))
    /\ links' = {r \in links : d \notin Ends(r)}
    /\ UNCHANGED <<device, pc, tasks, met, wired>>

-----------------------------------------------------------------------------
(* The steps of a discovery.                                               *)

At(c, stage, d) ==
    pc[c] \in {"exploring", "linking"} /\ tasks[c] # <<>> /\ Head(tasks[c]) = <<stage, d>>
Done(c) == tasks' = [tasks EXCEPT ![c] = Tail(@)]
Instead(c, ts) == tasks' = [tasks EXCEPT ![c] = ts \o Tail(@)]

(* is_device_ready: a device that the DB has as not ready is sent nothing. *)
Answers(d) == d \notin unready /\ power[d] # "off"

(* The body of _discover_device_and_enable_ifs.                            *)
_discover_device_and_enable_ifs(c, d) ==
    /\ At(c, "device", d)
    /\ IF power[d] = "off" THEN Done(c)
       ELSE Instead(c, << <<"info", d>>, <<"interfaces", d>>, <<"enable", d>>, <<"lldp", d>> >>)
    /\ UNCHANGED <<device, graph, pc, troubles, history>>

(* The node of the device, with the status of its last event.              *)
discover_device_basic_system_details(c, d) ==
    /\ At(c, "info", d) /\ Answers(d)
    /\ known' = known \cup {d}
    /\ met' = met \cup {d}
    /\ \/ unready' = unready \ {d}
       \/ power[d] = "booting" /\ unready' = unready \cup {d}
    /\ Done(c)
    /\ UNCHANGED <<device, ports, told, links, pc, troubles, wired, smooth>>

(* The properties that are copied to nodes that exist are not lldp_nbrs.   *)
discover_interfaces(c, d) ==
    /\ At(c, "interfaces", d) /\ Answers(d) /\ d \in known
    /\ ports' = ports \cup PortsOf(d)
    /\ Done(c)
    /\ UNCHANGED <<device, known, unready, told, links, pc, troubles, history>>

(* Each port on its own; failures, and a missing subscription, are logged. *)
enable_all_ifs(c, d) ==
    /\ At(c, "enable", d)
    /\ \E ps \in SUBSET (ports \cap PortsOf(d)) :
        /\ \/ ps = ports \cap PortsOf(d) /\ Answers(d) /\ NoTrouble
           \/ ps = {} /\ ~Answers(d) /\ NoTrouble
           \/ Trouble
        /\ on' = on \cup ps
    /\ Done(c)
    /\ UNCHANGED <<power, cables, heard, graph, pc, met, wired>>

(* Two neighbours of one address on a port raise an error, which ends the  *)
(* loop over the ports.                                                    *)
Unreadable(p) == \E q, r \in From(heard, {p}) : q # r /\ Owner[q[2]] = Owner[r[2]]

(* A mutant of discover_lldp_info: what is there is not overwritten.       *)
discover_lldp_info_once(c, d) ==
    /\ At(c, "lldp", d) /\ Answers(d)
    /\ told' = told \cup From(heard, {p \in PortsOf(d) \cap ports : From(told, {p}) = {}})
    /\ smooth' = (smooth /\ From(heard, PortsOf(d)) = From(cables, PortsOf(d)))
    /\ Done(c)
    /\ UNCHANGED <<device, known, unready, ports, links, pc, troubles, met, wired>>

(* The tables that are read before the error; an empty one is not saved.   *)
discover_lldp_info(c, d) ==
    /\ At(c, "lldp", d) /\ Answers(d)
    /\ \E ps \in SUBSET {p \in PortsOf(d) : ~Unreadable(p)} :
        /\ (\A p \in PortsOf(d) : ~Unreadable(p)) => ps = PortsOf(d)
        /\ LET new == From(heard, ps \cap ports)
           IN  told' = (told \ From(told, {r[1] : r \in new})) \cup new
    /\ smooth' = (smooth /\ From(heard, PortsOf(d)) = From(cables, PortsOf(d)))
    /\ Done(c)
    /\ UNCHANGED <<device, known, unready, ports, links, pc, troubles, met, wired>>

(* A mutant of discover_nw_features_fails: what fails is tried again.      *)
discover_nw_features_again(c, d) == \E stage \in {"info", "interfaces", "lldp"} :
    /\ At(c, stage, d)
    /\ \/ ~Answers(d) /\ NoTrouble
       \/ stage = "interfaces" /\ d \notin known /\ NoTrouble
       \/ Trouble
    /\ UNCHANGED <<device, graph, pc, tasks, met, wired>>

(* discover_nw_features logs what is raised: the device is not asked, does *)
(* not answer, or has no node.                                             *)
discover_nw_features_fails(c, d) == \E stage \in {"info", "interfaces", "lldp"} :
    /\ At(c, stage, d)
    /\ \/ ~Answers(d) /\ NoTrouble
       \/ stage = "interfaces" /\ d \notin known /\ NoTrouble
       \/ Trouble
    /\ Done(c)
    /\ UNCHANGED <<device, graph, pc, met, wired>>

get_all_lldp_neighbor_device_ips(c, d) ==
    /\ At(c, "neighbors", d)
    /\ \E order \in Orders({Owner[r[2]] : r \in From(told, ports \cap PortsOf(d))}) :
        Instead(c, Each("neighbor", order))
    /\ UNCHANGED <<device, graph, pc, troubles, history>>

(* The recursion.                                                          *)
discover_neighbor(c, d) ==
    /\ At(c, "neighbor", d)
    /\ IF d \in known THEN Done(c)
       ELSE Instead(c, _discover_device_and_lldp_info(<<d>>))
    /\ UNCHANGED <<device, graph, pc, troubles, history>>

(* The second part of discover_device, for all devices of the DB.          *)
Relate(c) ==
    /\ pc[c] = "exploring" /\ tasks[c] = <<>>
    /\ pc' = [pc EXCEPT ![c] = "linking"]
    /\ \E order \in Orders(known) : tasks' = [tasks EXCEPT ![c] = Each("link", order)]
    /\ UNCHANGED <<device, graph, troubles, history>>

(* A mutant of the next: the other port is not looked up.                  *)
create_lldp_relations_blindly(c, d) ==
    /\ At(c, "link", d)
    /\ links' = links \cup From(told, ports \cap PortsOf(d))
    /\ Done(c)
    /\ UNCHANGED <<device, known, unready, ports, told, pc, troubles, history>>

create_lldp_relations_in_db(c, d) ==
    /\ At(c, "link", d)
    /\ links' = links \cup {r \in From(told, ports \cap PortsOf(d)) : r[2] \in ports}
    /\ Done(c)
    /\ UNCHANGED <<device, known, unready, ports, told, pc, troubles, history>>

Return(c) ==
    /\ pc[c] = "linking" /\ tasks[c] = <<>>
    /\ pc' = [pc EXCEPT ![c] = "idle"]
    /\ UNCHANGED <<device, graph, tasks, troubles, history>>

-----------------------------------------------------------------------------
ClientStep(c) ==
    \/ Reconnect(c) \/ Relate(c) \/ Return(c)
    \/ \E d \in Devices :
        \/ _discover_device_and_enable_ifs(c, d)
        \/ discover_device_basic_system_details(c, d) \/ discover_interfaces(c, d)
        \/ enable_all_ifs(c, d) \/ discover_lldp_info(c, d) \/ discover_nw_features_fails(c, d)
        \/ get_all_lldp_neighbor_device_ips(c, d) \/ discover_neighbor(c, d)
        \/ create_lldp_relations_in_db(c, d)

Next ==
    \/ \E c \in Clients : ClientStep(c)
    \/ \E c \in Clients, list \in Lists : discover_device(c, list)
    \/ \E c \in Clients, d \in Devices : switch_image_on_device(c, d)
    \/ \E d \in Devices :
        install_image_on_device(d) \/ delete_device(d)
    \/ Boot \/ Recable \/ Lldp

Spec == Init /\ [][Next]_vars

(* Threads go on, devices boot and hear their neighbours, and every list   *)
(* is discovered again and again.                                          *)
FairSpec ==
    /\ Spec
    /\ \A c \in Clients : WF_vars(ClientStep(c))
    /\ \A list \in Lists : SF_vars(\E c \in Clients : discover_device(c, list))
    /\ WF_vars(Boot) /\ WF_vars(Lldp)

-----------------------------------------------------------------------------
(* Types.                                                                  *)
TypeOK ==
    /\ power \in [Devices -> {"off", "booting", "ready"}]
    /\ cables \subseteq Ports \X Ports /\ on \subseteq Ports /\ heard \subseteq Ports \X Ports
    /\ known \subseteq Devices /\ unready \subseteq known
    /\ ports \subseteq {p \in Ports : Owner[p] \in known}
    /\ told \subseteq ports \X Ports /\ links \subseteq ports \X ports
    /\ pc \in [Clients -> {"idle", "waiting", "exploring", "linking"}]
    /\ tasks \in [Clients -> Seq(Task)]
    /\ troubles \in 0..MaxTroubles
    /\ known \subseteq met /\ met \subseteq Devices
    /\ wired \subseteq Ports \X Ports /\ smooth \in BOOLEAN
    /\ \A c \in Clients : pc[c] = "idle" => tasks[c] = <<>>

(* Whatever the application asks for first, and in which order the         *)
(* recursion meets the devices: when nothing failed or changed and the     *)
(* LLDP tables were complete, no device and no cable that leads from the   *)
(* devices of the DB is missing when no discovery runs.                    *)
NothingMissed ==
    (\A c \in Clients : pc[c] = "idle") /\ smooth
        => \A r \in From(cables, ports) : Owner[r[2]] \in known /\ r \in links

(* A discovery ends, also in cycles of devices, some of which cannot be    *)
(* discovered, and when devices are deleted while it runs.                 *)
DiscoveryReturns == \A c \in Clients : pc[c] # "idle" ~> pc[c] = "idle"

(* When all devices are discovered again and again, devices and cables     *)
(* stay as they are and no more requests fail, the DB has all cables       *)
(* between the devices that it does not have as not ready.                 *)
DiscoveryHeals ==
    <>[](\A r \in cables : Ends(r) \cap unready = {} => Ends(r) \subseteq known /\ r \in links)

(* The DB is a picture of the network as Inventory promises.               *)
Picture == INSTANCE Inventory WITH
    Devices <- Devices, Ports <- Ports, Owner <- Owner, Asked <- Asked,
    known <- known, links <- links, met <- met, wired <- wired
PictureSpec == Picture!Spec
=============================================================================
