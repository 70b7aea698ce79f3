# Verification of orca_nw_lib

TLA+ models of orca_nw_lib, a library through which an application configures
SONiC switches over gNMI and keeps a Neo4j graph of their configuration and
topology up to date. The models are checked with TLC on small instances; what
matters most is also proved with TLAPS for instances of any size.

Paths below are relative to `orca_nw_lib/`. `PROJECT.json` lists the runs, the
mutants that show each property can fail, the source lines of each definition,
the hazards, the findings and the theorems.

## The system

The library has no server loop. Application threads (a Django backend, Celery
workers) call it; it starts a thread per device for the gNMI subscription, and
a thread per interface notification. State is of three kinds: module-level
dictionaries shared by all threads without a lock, the graph database, and the
devices themselves.

| Component | State | Operations | Interacts with |
|---|---|---|---|
| Subscription life cycle (`gnmi_sub.py`) | `gnmi_subscriptions`, `device_sync_responses`, the running threads by name | `gnmi_subscribe`, `gnmi_unsubscribe`, `close_gnmi_channel`, the thread `handle_update`, the wrapper of configuration functions | stub cache (makes and closes channels), discovery (forces a resubscription, waits for the sync response), the stores (handlers of notifications) |
| Unary requests and stub cache (`gnmi_util.py`) | `stubs` | `getGrpcStubs`, `send_gnmi_get`, `send_gnmi_set`, `remove_stub`, `close_all_stubs` | every component that talks to a device; closing a stub's channel ends the subscription on it |
| Interface store (`interface.py`, `interface_db.py`) | Interface nodes, `interface_lock` | `set_interface_config_in_db` per notification, `discover_interfaces` and `insert_device_interfaces_in_db` | handlers of notifications, discovery, breakouts |
| Device node and readiness (`device.py`, `device_db.py`) | Device node with `system_status` | discovery of a device, `update_device_status`, `delete_device`, `is_device_ready` | refuses requests and subscriptions of a device that is not ready |
| STP (`stp*.py`) | STP_GLOBAL, STP_PORT, STP_VLAN nodes | discovery; notifications of the global configuration and of single ports, handled in the subscription thread | subscription, interface and port channel nodes |
| Port groups (`portgroup*.py`) | PortGroup nodes | notification of a speed, discovery | interface store |
| Port channels, VLANs, MCLAG (`port_chnl*.py`, `vlan*.py`, `mclag*.py`) | nodes and relations to interfaces and to each other | configure the device, then rediscover | unary requests, each other's nodes |
| BGP (`bgp*.py`) | BGP nodes, relations between devices | configure, rediscover, connect neighbours | unary requests |
| Topology discovery (`discovery.py`, `lldp*.py`) | Device nodes, `lldp_nbrs` | recursion over LLDP neighbours, then every feature of every device | all stores, subscription |
| Setup (`setup.py`) | none of its own | SSH, images, reboots, `remove_stub` | stub cache |
| Algorithms (`utils.py`, `common.py`) | none | VLAN ranges, breakout modes, enumerations | stores |
| Telemetry (`*_influxdb.py`, `*_promdb.py`) | none that is read back | writes points | notifications, discovery |

Hard behaviours, component by component, with the properties that make it correct:

* **Subscription.** Check-then-act on the names of running threads, threads
  that die without cleaning up, flags that outlive their thread, a cancel that
  looks for a stream that is not registered yet, waits that give up.
  Correct means: no more threads than there are callers to blame for them
  (ideally one), configuration only while synchronised, a forced resubscription
  replaces what it cancels, a live subscription becomes usable, calls return.
* **Unary requests.** The unlocked cache, whose entries are closed by whoever
  meets an UNAVAILABLE; a Set that is sent again although the first may have
  been executed. Correct means: bounded repetition, a fresh channel for the
  second attempt, closed channels in the cache only by `close_all_stubs`, success
  only if executed.
* **Interface store.** Read outside the lock that protects the save, a thread
  for each notification, discoveries that race each other. Correct means: the
  node equals the device once all is handled, unless one of the races that the
  code has was lost; doubled nodes do not add up; and discovery repairs whatever
  notifications got wrong.
* **Device readiness.** Persistent state that refuses the very requests that
  would change it. Correct means: a device that has booted is used again.
* **STP, port groups, port channels, VLANs, MCLAG, BGP.** Upsert and prune from
  replies that may be partial, empty or overtaken; rediscovery of too little, or
  of something else; relations that go with the node they lead to, and nodes of
  several devices that depend on each other. Correct means: the DB follows a device
  after every call, what an answer wrongly prunes is not picked at random, and
  complete discovery heals what calls leave behind.
* **Topology.** A recursion through cycles of devices, on a network that changes
  and fails meanwhile, and whose LLDP tables fill with a delay. Correct means: it
  ends, finds all there is to find, and puts nothing into the graph that has not
  been there.

## Modules

| Module | Models | Status |
|---|---|---|
| `Subscription`, `MCSubscription`, `SubscriptionProofs` | life cycle of one device's subscription | done |
| `Delivery` | what the request layer promises its callers | done |
| `GnmiRpc`, `MCGnmiRpc`, `GnmiRpcProofs` | requests to one device over the shared stub cache | done; implements `Delivery` |
| `InterfaceStore`, `MCInterfaceStore`, `InterfaceStoreProofs` | the graph's copy of one interface | done |
| `FeatureStores`, `MCFeatureStores`, `FeatureStoresProofs` | port channels, VLANs, MCLAG domains and STP ports of one device | done |
| `Rediscovery`, `Bgp`, `Spanning`, `PortConfig`, `NetworkFeatures`, `MCNetworkFeatures`, `NetworkFeaturesProofs`, `NetworkSyncProofs`, `NetworkMissesProofs` | configuration and rediscovery of BGP, STP, ports, VLAN addresses and gateway MACs, by several threads on several devices | done |
| `Inventory` | what the graph promises as a picture of the network | done |
| `Topology`, `MCTopology`, `TopologyProofs` | discovery along LLDP, and the device node | done; implements `Inventory` |

Every `MC…` module extends its component and adds the symmetry sets; every
`…Proofs` module extends it and TLAPS. The components are separate modules
because what they share is small and stated at the boundary: the subscription
module contains of the stub cache what a subscription uses (`OtherConnect`,
`OtherRemoveStub`, `OtherCloseStub` and `OtherForgetStub` stand for `GnmiRpc`),
and the stores take their notifications from a queue in the order of the stream.
`FeatureStores` is one thread and one device node by node; `NetworkFeatures` is
several of both and its step is the answer of one feature.

### Subscription

State is that of one device; everything in the code is keyed by its address.
`flag` is `device_sync_responses`, `registry` is `gnmi_subscriptions`, `stub`
is the entry of `stubs`, and `open` are the channels nobody has closed. A
member of `Threads` is a thread running `handle_update`: `tpc` is where it is,
from the two reads of the cache in `getGrpcStubs` to the blocking iteration over
the stream, and `alive` are the streams that can still deliver. A client is a
caller; its operations are the decorated configuration functions, `subscribe`,
`discover` (the part of a discovery that resubscribes by force and waits for the
sync response), `unsubscribe` and `close_gnmi_channel`. Each access to shared
state is a step of its own: the check of the running threads and the start of a
new one, the pop of the flag, the lookup and the cancel, and each round of a
polling loop. `Retries` stands for the constants 5 of those loops; a sleep
lasts arbitrarily long. Requests of other threads connect and remove the stub, and
their `close_all_stubs` closes the channel under the streams while the stub stays in
the cache, perhaps for good, so that a thread may open its stream on a closed one. In
`close_gnmi_channel` the stub is found and closed in
one step, although `getGrpcStubs` has several. `terminate_thread` has no caller
and is left out.

### GnmiRpc

`send_gnmi_set` step by step for any number of threads and one device, with
`remove_stub`, the one resend, and `close_all_stubs` with its loop over the
shared dictionary. That dictionary holds the stubs of all devices: if a thread
adds or removes the entry of any of them the loop raises (`LoopRaises`;
`OtherDevices` says that there are such threads) and never reaches `stubs = {}`,
so that what it has closed stays cached. `left` is the history of that. A later
request finds such a stub and raises at once (`IssueOnClosed`); as the error is
no RpcError it does not remove the stub, which stays until another
`close_all_stubs`, or a `remove_stub` from elsewhere, takes it away. The device executes a request and answers in two
steps, so that an answer can be lost. `applied` and `failed` are history
variables, too. gRPC is modelled by its effects: a request on a closed channel
raises, and closing a channel cancels what is in flight on it.

`Delivery` is the promise, without channels and cache: a request is tried, and
once more when the first attempt found the device unavailable; each attempt is
executed at most once; a call that returns was executed in its last attempt. Two
things break the last promise or end a call in between, and only when there are
other threads: the stub can be removed between the two reads, so that nothing is
sent and the call returns (`Lose`), and the channel can be closed, or the
dictionary changed, under the call or before it (`Interrupt`). Threads of other
devices are among those others. The refinement mapping `Calls` computes the
stage of a call from `pc` and `resent` (`Stage`); all steps on the cache are
stutters.

### InterfaceStore

One interface. `dev` is what the device has, `queue` the stream of
notifications (one attribute each), `db` the nodes of that name. A handler
thread reads the node (`ReadNode`), and later saves all of it (`SaveNode`) with
its attribute changed; the lock is held in each step and not from one to the
other, as in the code. A discovery gets all attributes, then reads, then saves
or inserts, then prunes. A breakout makes the interface vanish and come back
unchanged.

The code does not promise that the node is right when changes overlap, and the model
does not assume that they do not. `InSync` says instead after which overlaps the node
may be wrong, and that there are no others: `raced` records that a writer was done
with an attribute after one that knew more of it (`age`, `seen`), that it wrote back
what it had read of another attribute and the node was no longer so (`Stale`), or
that it inserted a second node. A notification that meets no node, a node deleted
and inserted anew between a read and a save, a breakout in the middle of a discovery
are all harmless by themselves. Two discoveries that both miss a node double it;
`NodesOfOneRound` says that it takes as many discoveries at one time as there are
nodes.

### FeatureStores

Port channels, VLANs, MCLAG domains and STP ports of one device, as two graphs
`dev` and `db` of the same type: nodes, and relations from a node to an
interface or channel. One application thread calls the 17 functions that create,
delete or connect these things (`Configure`; the gate of the decorated functions
is Subscription's subject), or discovers the whole device. A call is a list of
Sets (`reqs`), sent until one raises, then the features of the `finally` clause
(`then`): `Get`, `Insert` node by node, `Prune`. Any request may fail; a Set
fails before or after the device has executed it. When the stub is lost between
two reads of the cache a Set is not sent and returns (`SetNotSent`), and a Get
has an empty answer (`GetNothing`), which the discovery takes for a device that
has nothing and prunes everything. So `LosesAllOrNone` is what can be said of
pruning: what the device has stays, or goes with all of its kind. The
subscription thread handles notifications of STP ports between any two of these
steps. Attributes of nodes, addresses, peer links, gateway MACs and fast
convergence are left out. Two steps are coarser than the code: looking a node up
and saving it, whose interleavings are the subject of InterfaceStore, and the
Gets of one discovery, between which this thread does not change the device;
they fail, or are empty, together.

What the device does with a Set is external: it executes it as a whole, refuses
references to what it does not have, and deletes with a channel what refers to
it. No assumption is made on when it notifies, only on the order.

### Rediscovery, Bgp, Spanning, PortConfig, NetworkFeatures

All configuration functions of the library have one form: gNMI Sets, and in a
`finally` clause the discovery of what they are meant to have changed.
`Rediscovery` gives it to them: `dev` and `db` are sets of facts of each device
(tuples of the node's kind, its name, an attribute and a value, as the classes of
`graph_db_models.py` have them), a *unit* is what one discovery function gets and
inserts, and `Configure` starts a call with its list of Sets and of discoveries.
`Bgp`, `Spanning` and `PortConfig` are then almost a table: the request of each
`*_on_device` function, the discovery its caller ends with, and what the insertion
makes of an answer, with what is peculiar to each, for example:

* BGP nodes are one for each AS number and not for each VRF, and their families,
  networks and aggregates hang on all of them; neighbors that the DB has keep the
  AS number that the DB has; every neighbor has the families of all.
* `del_all_bgp_neighbors`, `del_all_bgp_neighbour_af` and the VLAN modes of an
  interface (`set_if_mode`, `remove_vlan`) discover something else than they
  change (`Losing`); so do `config_stp_global` and others with all devices.
* Undoing a breakout deletes the parts from the DB whether or not the device did
  it (`ForgetParts`); setting a port group's speed looks its members up in the DB
  (`LookUpMembers`), and the group's own speed comes with a notification.
* Which members a group has is in the DB a set of relations, `ties`: they are made when
  the port groups are discovered, to the interfaces that the DB has then, and go with
  the node of an interface (`TiedMembers`). A port that a breakout adds later has none.
  A VLAN's members are relations to nodes, too: one whose node the DB does not have is
  skipped, and deleting the node takes the membership with it (`Standing`).
* Deleting one STP VLAN deletes all, because its path is thrown away.

`NetworkFeatures` runs the calls of several threads. Steps are a Set, with its
two ways to fail and a third not to be sent, a Get, which fails or has an empty
answer when the stub was lost, and the insertion of the answer; so an answer can
be overtaken. `missed` is a history variable: the units that the DB does not
follow and for which nobody is under way, because a discovery failed, an answer
was old, the function discovers something else, a VLAN lost a member with its
node (`Uprooted`), or a member of a port group was not tied to it. `InSync` says
that there is no other reason, and `OneThreadMissesOnly`, which of the reasons
one thread without failures can meet. What a reader sees of a unit, `Seen`,
leaves out what the DB cannot hold: the VRF of families, the index of a
sub-interface, and the AS number of a known neighbor, which the DB should hold
and `net_neighbor` is about.

A device executes a Set as a whole, and has neither addresses nor members of
VLANs on a port that it does not have (`Executed`). Relations between neighbors
and BGP nodes of other devices are in `rels`. Nodes that the code leaves behind
without a relation (families, networks and aggregates whose disconnected nodes
`bgp_db.py:92-116` means to delete, and does not) are not modelled: nothing
reads them.

### Inventory and Topology

`Inventory` is the promise: a device is in the graph only if it was asked for or a
cable led to it from one that was, a link only if there was the cable and both
ends are in the graph. `met` and `wired` are its history.

`Topology` is the code. The network side is external: devices are off, booting
(and listening) or ready, cables move, LLDP tables fill and empty with a delay;
the tables of both ends change at once. The recursion of
`_discover_device_and_lldp_info` is the list of tasks that a thread still has to
do: a call replaces its task by those of its body, so that what the code has on
its stack is in `tasks`. A device that does not listen is passed over; one that
listens is inserted with the status that it answers, perhaps that it is not ready,
and then `is_device_ready` refuses every request, also those of the next
discovery: only `delete_device` ends it, as the notification of its status is
written to a property that the schema does not have (`device_db.py:93`, which is
why `update_device_status` is no action). Ports are enabled, LLDP tables read,
and neighbours explored unless the DB has them. When all is explored, links are
made between the ports of all devices that the DB has. `delete_device` happens at
any time. `told` and `links` only grow but for that: an empty LLDP table is not
saved (`interface_db.py:271`) and relations are never disconnected (`lldp_db.py:25`).

Coarser than the code: what one function inserts is one step; the management
address that a device reports is the one it was asked at; features other than
interfaces are left to the other modules; `discover_device_from_config` is a loop
of `discover_device`.

`PictureSpec` says that `Topology` implements `Inventory`; the refinement mapping
`Picture` takes the four variables of `Inventory` from those of the same names.

## Runs

| Run | Instance | Question | Result |
|---|---|---|---|
| `sub_threads` | 2 callers, 4 threads, 3 channels, failures; no force | How many subscription threads? | holds |
| `sub_alone` | 1 caller, 2 threads, all operations, failures | Is the old stream over before its successor starts? Do calls return, do threads end? | holds |
| `sub_gate` | 2 callers, no failures | Is configuration let through exactly when synchronised? | holds |
| `sub_lockout` | 1 caller, force and unsubscribe | Can a live subscription refuse configuration for good? | violated (finding) |
| `rpc_calls` | 2 threads, 4 channels, failures, `close_all_stubs`, other devices | How often is a request executed, on which channel is it resent, when is a closed stub in the cache, does the call end; does the cache implement `Delivery`? | holds |
| `ifc_writers` | 2 handlers, 2 discoveries, 2 attributes, 3 nodes, 2 changes | Is the node right at the end unless one of the three races happened? How many nodes can there be? | holds |
| `ifc_store` | 2 handlers, 1 discovery, 3 changes | Does discovery heal what notifications did? | holds |
| `stores_calls` | 2 channels, 1 VLAN, 1 domain, 1 interface, 4 calls, 2 failures | Does the DB follow the device after each call, is what it loses lost as a whole, does discovery heal it? | holds |
| `net_calls` | 2 threads, 2 devices, one or two of each kind of name, 2 calls, 1 failure | Does the DB follow the devices in every interleaving, but for the known reasons? Do relations match? | holds |
| `net_heals` | 1 thread, 1 device, 2 calls, 1 failure, complete discoveries again and again | What does a single thread leave behind without failures? Does discovery heal all? | holds |
| `net_neighbor` | 1 thread, 2 calls, no failures | Is what the DB has of a neighbor what the device has? | violated (finding) |
| `topo_discovery` | 1 thread, 3 devices in a row, 4 ports, 2 lists, 2 cablings, 1 trouble | Does discovery end, miss nothing, heal; is the graph always a picture of what has been there? | holds |

Bounds. Every race found here needs two threads, or one thread and its own
earlier leftovers; the numbers of threads and channels leave one more than the
scenarios of interest need. In `rpc_calls` four channels are the cached one, the
other thread's and the two on which first attempts have failed, so that a new
one always exists. `sub_threads` has as many threads as two callers could start
wrongly twice. In the interface runs two changes make every pair of
notifications, and the third lets one overtake both. Four calls in
`stores_calls` are the longest scenario with a new kind of relation: create a
channel, create a domain, make it a member, delete one of them; two failures let
a Set lose its answer and a later Get fail. In `net_calls` two calls are one for
each thread or two in a row, which is what answers that overtake each other, and
a neighbor and a BGP node of two devices, need; devices start in their default
state or fully configured, so that deletions have something to delete. In
`net_heals` the two calls come without a discovery in between, which is what a
breakout and the speed of its port group need; with one thread the devices do
not affect each other but by BGP relations, so one device leaves room for the
second call, and relations between devices are left to `net_calls`. In
`topo_discovery` the middle of three devices is met first, last or as a
neighbour's neighbour, moving a cable makes a port hear two neighbours, and one
trouble (a reboot, a move, a deletion or a failing request) strikes at every
step. Beyond these sizes the proofs take over for the properties they cover.

Fairness is stated for the steps of threads and of calls that have begun, and
never for calls, failures, changes of the device or unsubscribes. It is what
the operating system gives a thread that does not wait for a lock for ever; no
modelled lock is held across a step. For `SubscriptionBecomesReady` there are
no failures, so that the device answers what it is asked. The `DiscoveryHeals`
properties also assume that discoveries are made again and again, as the
repository's README asks of the user ("trigger full discovery at a pre-defined
interval", `README.md:118` of the repository), and that the device changes, and
requests fail, a bounded number of times. In `Topology` each list of devices is
discovered again and again (strong fairness, as a thread that is busy with one
list cannot take the other), devices boot, and LLDP tables follow the cables.

Deadlock is checked except in the interface runs and `net_calls`, where the
system stops when the bounded changes are used up and no discovery is asked for.

Each property of a passing run has a mutant: a variant of one definition, next
to it in the module and never part of `Next`, as a slip in the code would
produce it, and for which TLC reports the property violated.

## Findings

* `sub_lockout`: `gnmi_unsubscribe` removes the flag of the device but cancels
  only the registered stream. A duplicate thread lives on, keeps a new one from
  being started, and never sets the flag again (`gnmi_sub.py:625`).
* `net_neighbor`: the copy of a BGP neighbor's properties is made from the DB's
  node to the discovered one (`bgp_db.py:317`): a neighbor that the DB has never
  gets the AS number that the device has now, and no discovery repairs it.

Seen while modelling, and not checked by a run of their own; the properties named
here are in the modules, and TLC refutes them on the instances said:

* a subscription thread that dies leaves its sync flag behind; the next thread's
  existence makes the stale flag count, and configuration is applied without a
  subscription (`gnmi_sub.py:742`; `AppliedOnlyWhenSubscribed` with failures);
* `getGrpcStubs` reads the cache twice; removed in between, the stub is None, and
  a Set that was never sent returns like one that was executed (`gnmi_util.py:153`;
  `SuccessMeansApplied` with two threads, while for one it is a theorem), and a Get has
  an empty answer by which the discovery prunes what the device has (`gnmi_util.py:96`);
* `close_all_stubs` raises when another thread changes the entry of any device while it
  loops, and leaves closed stubs in the cache (`gnmi_util.py:310`); requests on them raise
  ValueError, which removes nothing, so that the device stays out of reach until the next
  `close_all_stubs`, `close_gnmi_channel` or reboot by `setup.py` removes it;
* notifications read before the lock and save the whole node under it, so two in
  a row overwrite each other (`interface_db.py:218`; `InSync` of `InterfaceStore`
  without `~raced`), and two discoveries of an interface that the DB does not have
  insert it twice (`interface_db.py:301`);
* an interface that a breakout adds is not tied to its port group before the port groups
  are discovered again, so that `set_port_group_speed` leaves its old speed in the DB
  (`portgroup.py:192`, `portgroup_db.py:63`); a VLAN member whose interface the DB does
  not have is skipped (`vlan_db.py:143`): excepted by `OneThreadMissesOnly`;
* one STP port's notification deletes all other STP ports of the device from the
  DB (`stp_port_db.py:150`; `StpPortsInSync`);
* `add_vlan_mem` passes a single update where a list is wanted and raises on every
  call (`vlan_gnmi.py:466`); setting the VLANs of a port channel rediscovers port
  channels only, so that the VLAN nodes keep their old members, which is why
  `InSync` of `FeatureStores` leaves these relations out (`port_chnl.py:329-414`);
* `del_all_bgp_neighbors` and `del_all_bgp_neighbour_af` rediscover the globals
  (`bgp.py:251`, `bgp.py:333`), `delete_stp_vlan` deletes all VLANs
  (`stp_vlan_gnmi.py:21`), `del_ip_from_intf` drops the sub-interface index
  (`interface.py:301`): modelled as they are, and exceptions of the properties;
* `_create_lldp_info` looks a list up by its content (`lldp.py:26`) and raises for
  a second neighbour of one address on a port; `delete_device` leaves the BGP and
  STP nodes of the device behind (`device_db.py:41-63`);
  `discover_device_from_config` returns an empty report (`discovery.py:162`).

## Proofs

No theorem assumes more than the named assumptions on constants: names of
different kinds differ, bounds are natural numbers, the sets of callers,
threads, discoverers (of which there is one at least), port channels, devices,
interfaces, port groups and speeds are finite, and, in `NetworkFeatures`,
`HardwareAssumption`: at first only ports that a device has have addresses and
speeds and are members of VLANs, every port group is there and has one speed,
and parts of an interface are not broken out again. This is how switches are;
that Sets and discoveries keep it so is proved. Those that concern a part of the
operations, or of the networks, say so in their hypotheses.

Every safety property that a run checks and TLC does not refute is a theorem:

* `SubscriptionProofs`. `TypeCorrect` is inductive as it stands.
  `NoForceBoundsThreads`: without forced resubscription (`"discover"` not in
  `Ops`), running threads and callers about to start one are together at most
  the callers. The bound on the threads alone is not inductive, as a caller at
  its start has already looked; counting it with the threads is what makes it so.
  `CancelComesFirst` needs
  `CancelInv`: what is registered, or what a caller has looked up, is past its
  opening and can only end, since no step opens it again and no thread is started
  for it; and what is cancelled is out of `alive` from the cancel to the start.
  `GateHolds` is for calls that configure and subscribe on a device that does not
  fail, the instance of `sub_gate`; with failures the property is false, see the
  findings. Its `GateInv` follows a stub from the cache to the stream: no channel
  in use is closed, a stream once opened delivers, and behind the flag there is one
  that streams.
* `GnmiRpcProofs`. One invariant, `RpcInv`, carries four theorems: `AttemptInv`
  says at each point of a call what the thread knows of its channel, of the
  failed one and of the number of executions, whatever other threads do to the
  cache; of the cache it says that a closed stub has its `close_all_stubs` or is
  `left`. `OneThreadLosesNothing`: for a thread that is alone, nobody removes the
  stub between the two reads of `getGrpcStubs`, so that a request whose call returns
  was executed. `RpcImplementsDelivery` needs both sides: `RpcInv` for the resend,
  and `Undisturbed` for `Lose` and `Interrupt`, which `Delivery` allows to nobody
  who is alone; of such a thread the channel stays open under its request. Each
  action maps to one of `Delivery` or to a stutter.
* `InterfaceStoreProofs`. The type needs `DiscoveriesComplete` (only discoveries
  insert, and they have all attributes). `NodesStayOfOneRound` needs `RoundInv`: the
  nodes and the discoveries about to insert one are together at most the discoveries,
  as who goes on to insert has seen no node. `RightUnlessRaced` rests on `RaceInv`:
  who knows of the last change of an attribute knows its value (`Truthful`); and as
  long as nothing has raced there is one node, and of each attribute it is right, or
  the last change is in the queue or in the hands of a writer (`Unraced`).
* `FeatureStoresProofs`. The type, and `GotIsCurrent`: from the Get to the
  pruning the answer names the nodes the device has, because the thread that
  would change the device is the one that discovers, or it is empty. From it follows
  `DiscoveryLosesAllOrNone`. `StoresStayInSync` is `InSync`, whose invariant
  `SyncInv` says of each feature that it matches or is still to be discovered; of
  the requests still to be sent, that what they change is so (`RequestsFit`); and
  of the discovery under way, that the answer is what the device has of it
  (`AnswerExact`) and that what has been inserted is taken over (`InsertedTaken`).
* `NetworkFeaturesProofs`. `NetworkTypeCorrect` is inductive as it stands. Its
  lemmas go through the configuration functions one by one: each is a call of
  `Configure` with requests and discoveries of their types (`EveryCall`), whatever
  its arguments; `StoredType` says what an answer puts into the DB. The orders in
  which the DB lists devices, ports and notifications need finite sets.
  `RelationsAlwaysMatch` needs no types, only that the DB has all devices. Its core
  is `InsertionKeeps`: an insertion never replaces the AS number of a neighbor that
  stays, so a relation that is not cut with its nodes still matches. This is the
  other side of the finding `net_neighbor`: the number that the DB fails to update
  is what keeps its relations right.
* `NetworkSyncProofs`. `NetworkStaysInSync` is `InSync`, which is not inductive, for
  four reasons, each a part of `SyncInv`. A Set changes the device before its
  discoveries begin, so `Covers` says of every Set still to be sent that what it
  changes is among the units that its thread will discover, or lost, or announced
  by the device; `EveryCallSafe` proves it of each of the configuration functions,
  and this is where one that discovers the wrong thing would fail. The two
  discoveries that begin with the DB may not get to all that they cover: `Sure`
  is what they do get to, `SureFollows` and `Settled` are `Follows` and the body of
  `InSync` with it, and `Alone` says that nothing comes after them. A notification
  brings a value, not a question, so `LastIsRight`: of the notifications of a group
  in the queue the last has the speed that the device has. And an insertion takes
  an answer for what was asked (`GotCovered`), whose ports have their own node and
  whose groups one speed (`Hardware`). `StoredSeen` is the core of the step: an
  insertion of what the device has makes `Seen` equal, for each kind of unit.
* `NetworkMissesProofs`. `OneThreadMissesNoMore`. The property is only about
  `missed`; what keeps it small is that an answer is what the device has when it is
  inserted (`Fresh`), and that DB and device have the same interfaces but for those
  that the thread is about to ask for or to forget (`Awaited`), since a unit that an
  answer does not decide is missed unless neither has it. Ports that are no parts of
  another never come or go, so that they stay tied to their group (`Steady`).
  `Fits` is what the
  functions contribute: what a Set adds or removes, the discoveries after it ask for
  or forget, and what `ForgetParts` takes from the DB the Sets before it take from
  the device. `EveryCallSafe` proves it of each function.
* `TopologyProofs`. `TopologyTypeCorrect` and `TopologyImplementsInventory` rest on
  one invariant. `TasksOK` is what makes it inductive: the tasks on a thread's
  list lead only to devices that were asked for, or to neighbours of devices that
  have been met, by cables that have been there; LLDP tables, what the DB was told
  of them, and links are pairs of ports that have ever been cabled (`Wired`). The
  initial state maps to `Inventory`'s, and each action to `Wire`, `Learn`, `Link`,
  `Forget` or a stutter. `DiscoveryMissesNothing` is `NothingMissed`, for any number
  of threads: `SmoothInv` says that on each list the stages of a device follow each
  other and find what they need (`Orderly`), and that whatever is not in the DB is
  on somebody's list: tables to read, neighbours to meet, ports to link (`Reading`,
  `Spreading`, `Linking`). Its hypothesis `Readable`, no port with two neighbours of
  one address, leaves out the networks on which `_create_lldp_info` raises (see the
  findings); there a device can end without its table in the DB.

Model-checked only: the liveness properties (`CallsReturn`, `EndedThreadsEnd`,
`SubscriptionBecomesReady`, `DiscoveryReturns`, and `DiscoveryHeals` of each
module), as fairness and ENABLED are beyond the prover.

## Plan

What is left, the most important behaviour first:

1. Abstract specifications of the stores, as `Inventory` and `Delivery` are of
   discovery and of requests, with the synchrony theorems as their core.
2. Notifications of the global STP configuration (`handle_stp_config`), beside
   the rediscovery that writes the same node.
3. Peer links and fast convergence of MCLAG domains, addresses of port channels,
   in the form of `PortConfig`.
4. Composition of `Subscription` and `GnmiRpc` over one cache of stubs.

## Not modelled

SSH sessions, the scan of networks and the output of commands in `setup.py`, whose
reboots are in `Topology`; telemetry writers, which read nothing back; the
generated protocol messages; `utils.py` and `common.py`, whose conversions of
names, speeds and VLAN lists put strings together that no property tells apart;
the notifications and attributes listed under "partly" in `PROJECT.json`;
configuration files, logging, and the functions that only format what the DB
has. Neo4j is taken to execute each query atomically.
