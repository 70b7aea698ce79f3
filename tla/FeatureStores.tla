---------------------------- MODULE FeatureStores ----------------------------
(***************************************************************************)
(* Port channels, VLANs, MCLAG domains and STP ports of one device, and    *)
(* the graph DB's copy of them.                                            *)
(*                                                                         *)
(* An application thread calls the functions of port_chnl.py, vlan.py,     *)
(* mclag.py and stp_port.py one after the other.  All but the last have    *)
(* one form: send gNMI Sets to the device and, in a finally clause, get    *)
(* what the device has of that feature, insert it and prune the rest       *)
(* (insert_device_port_chnl_in_db and its likes).  STP ports come in       *)
(* notifications, which the subscription thread inserts by itself.         *)
(*                                                                         *)
(* Device and DB are graphs: nodes, and relations from a node to a port,   *)
(* that is, to an interface or to a port channel.  Interfaces are always   *)
(* in both.  Attributes of nodes are left out, and so are the peer links   *)
(* and gateway MACs of MCLAG and STP's VLANs and global configuration.     *)
(* Looking up and saving one node are one step: InterfaceStore shows what  *)
(* comes of two threads that interleave there.                             *)
(***************************************************************************)
EXTENDS Naturals, Sequences, FiniteSets

CONSTANTS
    Channels, Vlans, Domains, Interfaces,   \* the names of each kind
    MaxCalls,    \* how many configuration functions are called
    MaxFaults    \* how many requests fail or are not sent

ASSUME KindsAssumption == Channels \cap Interfaces = {} /\ IsFiniteSet(Channels)
ASSUME BoundsAssumption == MaxCalls \in Nat /\ MaxFaults \in Nat

Ports == Interfaces \cup Channels

PortChannel(c) == <<"port_channel", c>>
Vlan(v) == <<"vlan", v>>
Mclag(d) == <<"mclag", d>>
StpPort(p) == <<"stp_port", p>>

Features == {"port_channel", "vlan", "mclag", "stp_port"}
NodeIds == {PortChannel(c) : c \in Channels} \cup {Vlan(v) : v \in Vlans}
           \cup {Mclag(d) : d \in Domains} \cup {StpPort(p) : p \in Ports}
Feature(x) == x[1]

Graphs == [nodes : SUBSET NodeIds, rels : SUBSET (NodeIds \X Ports)]
Graph(ns, rs) == [nodes |-> ns, rels |-> rs]
Nothing == Graph({}, {})

(* The part of a graph that belongs to a feature.                          *)
Of(g, f) == Graph({x \in g.nodes : Feature(x) = f},
                  {r \in g.rels : Feature(r[1]) = f})

(* A port that a relation can lead to in a graph with these nodes.         *)
Known(ns, p) == p \in Interfaces \/ PortChannel(p) \in ns

(* Without its nodes a relation does not exist.                            *)
Connected(ns, rs) == {r \in rs : r[1] \in ns /\ Known(ns, r[2])}

VARIABLES
    dev,       \* what the device has
    db,        \* what the graph DB has
    queue,     \* the notifications of STP ports on their way
    calls,     \* how many configuration functions have been called
    faults,    \* how many requests have failed
    phase,     \* where the application thread is
    reqs,      \* the Sets it has yet to send
    then,      \* the features it discovers after them
    complete,  \* is it in a complete discovery of the device?
    got,       \* the device's answer to the Get of the discovery
    todo,      \* the nodes of got it has yet to insert
    missed     \* has a Get failed, or come back empty for want of a stub,
               \* since the last complete discovery began?

app == <<phase, reqs, then, complete>>
vars == <<dev, db, queue, calls, faults, phase, reqs, then, complete, got, todo, missed>>

Request == [del : Graphs, upd : Graphs, must : BOOLEAN]
Phases == {"idle", "call", "insert", "prune"}

TypeOK ==
    /\ dev \in Graphs /\ db \in Graphs /\ got \in Graphs
    /\ queue \in Seq({"delete", "update"} \X Ports)
    /\ calls \in 0..MaxCalls
    /\ faults \in 0..MaxFaults
    /\ phase \in Phases
    /\ reqs \in Seq(Request)
    /\ then \in Seq(Features)
    /\ complete \in BOOLEAN
    /\ todo \subseteq NodeIds
    /\ missed \in BOOLEAN
    /\ phase \in {"insert", "prune"} => then # <<>>

Init ==
    /\ dev = Nothing /\ db = Nothing
    /\ queue = <<>>
    /\ calls = 0 /\ faults = 0
    /\ phase = "idle"
    /\ reqs = <<>> /\ then = <<>> /\ complete = FALSE
    /\ got = Nothing /\ todo = {}
    /\ missed = FALSE

-----------------------------------------------------------------------------
(* The Sets that are sent.                                                 *)

Update(g) == [del |-> Nothing, upd |-> g, must |-> TRUE]
Delete(g) == [del |-> g, upd |-> Nothing, must |-> TRUE]

add_port_chnl_on_device(c) == Update(Graph({PortChannel(c)}, {}))
del_port_chnl_from_device(c) == Delete(Graph({PortChannel(c)}, {}))
add_port_chnl_member_on_device(c, is) == Update(Graph({}, {PortChannel(c)} \X is))
remove_port_chnl_member(c, i) == Delete(Graph({}, {<<PortChannel(c), i>>}))
add_port_chnl_vlan(c, vs) == Update(Graph({}, {<<Vlan(v), c>> : v \in vs}))
delete_port_channel_member_vlan_from_device(c, vs) ==
    Delete(Graph({}, {<<Vlan(v), c>> : v \in vs}))
delete_all_port_channel_member_vlan_from_device(c) ==
    delete_port_channel_member_vlan_from_device(c, Vlans)

config_vlan_on_device(v, ps) == Update(Graph({Vlan(v)}, {Vlan(v)} \X ps))
del_vlan_from_device(v) == Delete(Graph({Vlan(v)}, {}))
delete_vlan_members_on_device(v, p) == Delete(Graph({}, {<<Vlan(v), p>>}))

config_mclag_domain_on_device(d) == Update(Graph({Mclag(d)}, {}))
del_mclag_from_device == Delete(Graph({Mclag(d) : d \in Domains}, {}))
config_mclag_member_on_device(d, c) == Update(Graph({}, {<<Mclag(d), c>>}))
del_mclag_member_on_device(cs) ==
    Delete(Graph({}, {<<Mclag(d), c>> : d \in Domains, c \in cs}))

delete_stp_port_member_from_device(p) == Delete(Graph({StpPort(p)}, {}))

(* The error of the first of the two Sets is logged and no more.           *)
add_stp_port_members_on_device(p) ==
    << [delete_stp_port_member_from_device(p) EXCEPT !.must = FALSE],
       Update(Graph({StpPort(p)}, {<<StpPort(p), p>>})) >>

-----------------------------------------------------------------------------
(* The functions an application calls.                                     *)

Begin(rs, fs) ==
    /\ reqs' = rs
    /\ then' = fs
    /\ phase' = "call"

add_port_chnl ==
    \E c \in Channels : Begin(<<add_port_chnl_on_device(c)>>, <<"port_channel">>)

(* One channel, or all, but only those that the DB has.                    *)
del_port_chnl ==
    \E cs \in {{c} : c \in Channels} \cup {Channels} :
        LET known == {c \in cs : PortChannel(c) \in db.nodes}
        IN  \E s \in [1..Cardinality(known) -> known] :
                /\ \A c \in known : \E i \in DOMAIN s : s[i] = c
                /\ Begin([i \in DOMAIN s |-> del_port_chnl_from_device(s[i])],
                         <<"port_channel">>)

add_port_chnl_mem ==
    \E c \in Channels, is \in SUBSET Interfaces :
        Begin(<<add_port_chnl_member_on_device(c, is)>>, <<"port_channel">>)

del_port_chnl_mem ==
    \E c \in Channels, i \in Interfaces :
        Begin(<<remove_port_chnl_member(c, i)>>, <<"port_channel">>)

(* No VLANs: it raises before anything is sent.  In access mode all VLANs  *)
(* of the channel are deleted first, and one is set.                       *)
add_port_chnl_vlan_members ==
    \E c \in Channels, vs \in SUBSET Vlans :
        \/ vs = {} /\ Begin(<<>>, <<"port_channel">>)
        \/ \E v \in vs :
               Begin(<<delete_all_port_channel_member_vlan_from_device(c),
                       add_port_chnl_vlan(c, {v})>>, <<"port_channel">>)
        \/ vs # {} /\ Begin(<<add_port_chnl_vlan(c, vs)>>, <<"port_channel">>)

remove_port_channel_vlan_member ==
    \E c \in Channels, vs \in SUBSET Vlans :
        \/ vs = {} /\ Begin(<<>>, <<"port_channel">>)
        \/ /\ vs # {}
           /\ Begin(<<delete_port_channel_member_vlan_from_device(c, vs)>>,
                    <<"port_channel">>)

remove_all_port_channel_vlan_member ==
    \E c \in Channels :
        Begin(<<delete_all_port_channel_member_vlan_from_device(c)>>, <<"port_channel">>)

config_vlan ==
    \E v \in Vlans, ps \in SUBSET Ports :
        Begin(<<config_vlan_on_device(v, ps)>>, <<"vlan">>)

del_vlan == \E v \in Vlans : Begin(<<del_vlan_from_device(v)>>, <<"vlan">>)

(* create_req_for_update wants a list and is given one update: it raises   *)
(* before anything is sent.                                                *)
add_vlan_mem == Begin(<<>>, <<"vlan">>)

del_vlan_mem ==
    \E v \in Vlans, p \in Ports :
        Begin(<<delete_vlan_members_on_device(v, p)>>, <<"vlan">>)

(* To switch fast convergence off it sends a Set of its own first; as far  *)
(* as the graph goes this failing is as the other failing.                 *)
config_mclag ==
    \E d \in Domains : Begin(<<config_mclag_domain_on_device(d)>>, <<"mclag">>)

del_mclag == Begin(<<del_mclag_from_device>>, <<"mclag">>)

config_mclag_mem_portchnl ==
    \E d \in Domains, c \in Channels :
        Begin(<<config_mclag_member_on_device(d, c)>>, <<"mclag">>)

del_mclag_member ==
    \E cs \in {{c} : c \in Channels} \cup {Channels} :
        Begin(<<del_mclag_member_on_device(cs)>>, <<"mclag">>)

add_stp_port_members ==
    \E p \in Ports : Begin(add_stp_port_members_on_device(p), <<>>)

delete_stp_port_member ==
    \E p \in Ports : Begin(<<delete_stp_port_member_from_device(p)>>, <<>>)

PortChannelFunction ==
    \/ add_port_chnl \/ del_port_chnl \/ add_port_chnl_mem \/ del_port_chnl_mem
    \/ add_port_chnl_vlan_members \/ remove_port_channel_vlan_member
    \/ remove_all_port_channel_vlan_member
VlanFunction == config_vlan \/ del_vlan \/ add_vlan_mem \/ del_vlan_mem
MclagFunction ==
    \/ config_mclag \/ del_mclag \/ config_mclag_mem_portchnl \/ del_mclag_member
StpPortFunction == add_stp_port_members \/ delete_stp_port_member

Configure ==
    /\ phase = "idle"
    /\ calls < MaxCalls
    /\ calls' = calls + 1
    /\ PortChannelFunction \/ VlanFunction \/ MclagFunction \/ StpPortFunction
    /\ UNCHANGED <<dev, db, queue, faults, complete, got, todo, missed>>

(* The complete discovery of the device.                                   *)
DiscoverDevice ==
    /\ phase = "idle"
    /\ Begin(<<>>, <<"port_channel", "vlan", "mclag", "stp_port">>)
    /\ complete' = TRUE
    /\ missed' = FALSE
    /\ UNCHANGED <<dev, db, queue, calls, faults, got, todo>>

-----------------------------------------------------------------------------
(* A Set, and what the device makes of it.                                 *)

(* With a channel go its STP port and whatever refers to it.               *)
Apply(g, q) ==
    LET ns == (g.nodes \ q.del.nodes) \cup q.upd.nodes
        kept == {x \in ns : Feature(x) = "stp_port" => Known(ns, x[2])}
    IN  Graph(kept, Connected(kept, (g.rels \ q.del.rels) \cup q.upd.rels))

(* It refuses references to what it does not have.                         *)
Accepts(g, q) ==
    /\ q.upd.nodes \subseteq Apply(g, q).nodes
    /\ q.upd.rels \subseteq Apply(g, q).rels

(* The STP ports a request removes, and those it sets.                     *)
StpRemoved(g, q) == {p \in Ports : StpPort(p) \in g.nodes \ Apply(g, q).nodes}
StpSet(q) == {p \in Ports : StpPort(p) \in q.upd.nodes}

(* A request concerns one STP port at most.                                *)
Notice(kind, ps) == IF ps = {} THEN <<>> ELSE << <<kind, CHOOSE p \in ps : TRUE>> >>

Executed ==
    /\ Accepts(dev, Head(reqs))
    /\ dev' = Apply(dev, Head(reqs))
    /\ queue' = queue \o Notice("delete", StpRemoved(dev, Head(reqs)))
                      \o Notice("update", StpSet(Head(reqs)))

Sending == phase = "call" /\ reqs # <<>>

SetSucceeds ==
    /\ Sending
    /\ Executed
    /\ reqs' = Tail(reqs)
    /\ UNCHANGED <<db, calls, faults, phase, then, complete, got, todo, missed>>

(* An error raises, and the rest of the requests is not sent.              *)
AfterError == reqs' = IF Head(reqs).must THEN <<>> ELSE Tail(reqs)

SetRefused ==
    /\ Sending
    /\ ~Accepts(dev, Head(reqs))
    /\ AfterError
    /\ UNCHANGED <<dev, db, queue, calls, faults, phase, then, complete, got, todo, missed>>

(* It fails before or after the device has executed it.                    *)
SetFails ==
    /\ Sending
    /\ faults < MaxFaults
    /\ faults' = faults + 1
    /\ Executed \/ UNCHANGED <<dev, queue>>
    /\ AfterError
    /\ UNCHANGED <<db, calls, phase, then, complete, got, todo, missed>>

(* Another thread has removed the stub between the two reads of the cache: *)
(* send_gnmi_set logs that, sends nothing and returns.                     *)
SetNotSent ==
    /\ Sending
    /\ faults < MaxFaults
    /\ faults' = faults + 1
    /\ reqs' = Tail(reqs)
    /\ UNCHANGED <<dev, db, queue, calls, phase, then, complete, got, todo, missed>>

-----------------------------------------------------------------------------
(* Discovery of a feature.                                                 *)

Getting == phase = "call" /\ reqs = <<>> /\ then # <<>>

(* The Gets of one discovery are one step: the device does not change      *)
(* between them, as the thread that changes it is the one that asks.       *)
Get ==
    /\ Getting
    /\ got' = Of(dev, Head(then))
    /\ todo' = got'.nodes
    /\ phase' = "insert"
    /\ UNCHANGED <<dev, db, queue, calls, faults, reqs, then, complete, missed>>

(* For the same reason send_gnmi_get returns an answer without anything in *)
(* it, as a device would that has none of the feature, and no error.       *)
GetNothing ==
    /\ Getting
    /\ faults < MaxFaults
    /\ faults' = faults + 1
    /\ missed' = TRUE
    /\ got' = Nothing /\ todo' = {} /\ phase' = "insert"
    /\ UNCHANGED <<dev, db, queue, calls, reqs, then, complete>>

(* An error of the Get of STP ports becomes an empty answer; other errors  *)
(* are raised, and a complete discovery goes on with the next feature.     *)
GetFails ==
    /\ Getting
    /\ faults < MaxFaults
    /\ faults' = faults + 1
    /\ missed' = TRUE
    /\ IF Head(then) = "stp_port"
       THEN got' = Nothing /\ todo' = {} /\ phase' = "insert" /\ UNCHANGED then
       ELSE /\ then' = IF complete THEN Tail(then) ELSE <<>>
            /\ UNCHANGED <<got, todo, phase>>
    /\ UNCHANGED <<dev, db, queue, calls, reqs, complete>>

RelsOf(x, g) == {r \in g.rels : r[1] = x}

(* A mutant of Upserted: no disconnect_all.                                *)
UpsertedKeeping(x, g) ==
    LET ns == db.nodes \cup {x}
    IN  Graph(ns, db.rels \cup Connected(ns, RelsOf(x, g)))

(* The node x and its relations to what the DB has.  A channel and a VLAN  *)
(* are disconnected from all they had first; MCLAG's wait for the pruning. *)
Upserted(x, g) ==
    LET ns == db.nodes \cup {x}
        old == IF Feature(x) \in {"port_channel", "vlan"} THEN RelsOf(x, db) ELSE {}
    IN  Graph(ns, (db.rels \ old) \cup Connected(ns, RelsOf(x, g)))

(* The interface or channel of an STP port is used without a check: if the *)
(* DB does not have it the discovery raises.                               *)
PortMissing(x) == Feature(x) = "stp_port" /\ ~Known(db.nodes, x[2])

Insert ==
    /\ phase = "insert"
    /\ \E x \in todo :
           /\ ~PortMissing(x)
           /\ db' = Upserted(x, got)
           /\ todo' = todo \ {x}
    /\ UNCHANGED <<dev, queue, calls, faults, app, got, missed>>

(* A mutant of InsertRaises: the error ends the discovery of the feature,  *)
(* but not the loop.                                                       *)
InsertSwallows ==
    /\ phase = "insert"
    /\ \E x \in todo : PortMissing(x) /\ db' = Upserted(x, Nothing)
    /\ then' = Tail(then)
    /\ todo' = {}
    /\ missed' = TRUE
    /\ UNCHANGED <<dev, queue, calls, faults, phase, reqs, complete, got>>

InsertRaises ==
    /\ phase = "insert"
    /\ \E x \in todo : PortMissing(x) /\ db' = Upserted(x, Nothing)
    /\ then' = Tail(then)
    /\ todo' = {}
    /\ phase' = "call"
    /\ missed' = TRUE
    /\ UNCHANGED <<dev, queue, calls, faults, reqs, complete, got>>

Inserted ==
    /\ phase = "insert" /\ todo = {}
    /\ phase' = "prune"
    /\ UNCHANGED <<dev, db, queue, calls, faults, reqs, then, complete, got, todo, missed>>

(* Deleting a node detaches it.                                            *)
Without(ns, rs) == Graph(db.nodes \ ns, Connected(db.nodes \ ns, db.rels \ rs))

(* A mutant of Stale: the nodes of the other features are taken for stale. *)
StaleOfAll(f) == db.nodes \ got.nodes

Stale(f) == Of(db, f).nodes \ got.nodes
StaleRels(f) == IF f = "mclag" THEN Of(db, f).rels \ got.rels ELSE {}

(* A mutant of Prune: MCLAG members are never disconnected.                *)
PruneNodes ==
    /\ phase = "prune"
    /\ db' = Without(Stale(Head(then)), {})
    /\ then' = Tail(then)
    /\ phase' = "call"
    /\ UNCHANGED <<dev, queue, calls, faults, reqs, complete, got, todo, missed>>

Prune ==
    /\ phase = "prune"
    /\ db' = Without(Stale(Head(then)), StaleRels(Head(then)))
    /\ then' = Tail(then)
    /\ phase' = "call"
    /\ UNCHANGED <<dev, queue, calls, faults, reqs, complete, got, todo, missed>>

Return ==
    /\ phase = "call" /\ reqs = <<>> /\ then = <<>>
    /\ phase' = "idle"
    /\ complete' = FALSE
    /\ got' = Nothing
    /\ UNCHANGED <<dev, db, queue, calls, faults, reqs, then, todo, missed>>

-----------------------------------------------------------------------------
(* The subscription thread.                                                *)

StpPortDeleted ==
    /\ queue # <<>>
    /\ Head(queue)[1] = "delete"
    /\ db' = Without({StpPort(Head(queue)[2])}, {})
    /\ queue' = Tail(queue)
    /\ UNCHANGED <<dev, calls, faults, app, got, todo, missed>>

(* set_stp_port_config_in_db inserts the one port as if it were all: the   *)
(* other STP ports are deleted.                                            *)
StpPortUpdated ==
    /\ queue # <<>>
    /\ Head(queue)[1] = "update"
    /\ LET x == StpPort(Head(queue)[2])
           others == {y \in db.nodes : Feature(y) = "stp_port" /\ y # x}
           ns == (db.nodes \ others) \cup {x}
       IN  db' = IF PortMissing(x) THEN Graph(db.nodes \cup {x}, db.rels)
                 ELSE Graph(ns, Connected(ns, db.rels \cup {<<x, x[2]>>}))
    /\ queue' = Tail(queue)
    /\ UNCHANGED <<dev, calls, faults, app, got, todo, missed>>

HandleNotification == StpPortDeleted \/ StpPortUpdated

AppStep ==
    \/ SetSucceeds \/ SetRefused \/ SetFails \/ SetNotSent
    \/ Get \/ GetFails \/ GetNothing \/ Insert \/ InsertRaises \/ Inserted \/ Prune \/ Return

Next == Configure \/ DiscoverDevice \/ AppStep \/ HandleNotification

Spec == Init /\ [][Next]_vars

(* Threads run, and the device is completely discovered again and again.   *)
FairSpec ==
    /\ Spec
    /\ WF_vars(AppStep)
    /\ WF_vars(DiscoverDevice)
    /\ WF_vars(HandleNotification)

-----------------------------------------------------------------------------
(* Properties.                                                             *)

ToChannels(g) == {r \in g.rels : r[2] \in Channels}

(* A configuration function keeps the DB in sync by rediscovering what it  *)
(* has configured: between calls the port channels, VLANs and MCLAG        *)
(* domains of the DB are those of the device, with their relations,        *)
(* whichever Sets were refused, failed half-way or were executed without   *)
(* an answer, unless a Get has failed or come back empty.  Left out are    *)
(* the relations of VLANs to port channels: the functions that set the     *)
(* VLANs of a channel rediscover port channels only.                       *)
InSync ==
    phase = "idle" /\ ~missed =>
        /\ \A f \in {"port_channel", "mclag"} : Of(db, f) = Of(dev, f)
        /\ Of(db, "vlan").nodes = Of(dev, "vlan").nodes
        /\ Of(db, "vlan").rels \ ToChannels(db) = Of(dev, "vlan").rels \ ToChannels(dev)

(* What the device has is lost from the DB as a whole or not at all.  An   *)
(* error, an answer that lists anything, or the discovery of another       *)
(* feature prunes no port channel, VLAN or MCLAG domain that is still on   *)
(* the device; an answer that is empty for want of a stub, which nothing   *)
(* tells from that of a device without the feature, prunes all of them.    *)
KeepsAllOrNone ==
    \A x \in db.nodes \cap dev.nodes :
        Feature(x) # "stp_port" =>
            x \in db'.nodes \/ (missed /\ Of(db', Feature(x)).nodes = {})
LosesAllOrNone == [][KeepsAllOrNone]_vars

(* Once all notifications are handled the DB has the STP ports of the      *)
(* device; those and no others are deleted that the device does not have.  *)
StpPortsInSync ==
    phase = "idle" /\ queue = <<>> /\ ~missed =>
        Of(db, "stp_port").nodes = Of(dev, "stp_port").nodes

(* A complete discovery at regular intervals brings all of the DB to the   *)
(* state of the device, once that is configured no more, and keeps it      *)
(* there, whatever earlier errors and notifications have done to it.       *)
DiscoveryHeals == <>[](db = dev)
=============================================================================
