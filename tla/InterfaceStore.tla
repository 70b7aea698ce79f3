--------------------------- MODULE InterfaceStore ---------------------------
(***************************************************************************)
(* The graph DB's copy of ONE interface of a device, and the threads that  *)
(* write it (orca_nw_lib/interface_db.py):                                 *)
(*                                                                         *)
(*   - a gNMI notification carries one attribute; handle_update starts a   *)
(*     thread for each, which reads the node and, later, saves the whole   *)
(*     node (handle_interface_config_update, set_interface_config_in_db);  *)
(*   - a discovery gets all attributes from the device and upserts the     *)
(*     node, or deletes it if the device does not have the interface any   *)
(*     more (discover_interfaces, insert_device_interfaces_in_db).         *)
(*                                                                         *)
(* interface_lock is held by each read and by the save of a notification's *)
(* thread, one at a time; nothing holds it from the read to the save.      *)
(* A node is a name in Nodes; the database does not keep names of          *)
(* interfaces unique.  The device has other interfaces: a reply to a       *)
(* discovery is never empty, and always of more than one interface.        *)
(*                                                                         *)
(* Four variables record what no variable of the program does.  A change   *)
(* of the device has a number; last is that of the last change of each     *)
(* attribute, age that of the last change a writer can know of, and seen   *)
(* the age of the last writer that was done with the attribute.  raced is  *)
(* set by a writer that is done and should not have been:                  *)
(*   - one that knew more of an attribute was done before (two threads are *)
(*     started in the order of their notifications and run in any order);  *)
(*   - the node is not any more what it read, in an attribute that it      *)
(*     writes back without having anything to say of it;                   *)
(*   - it inserts a second node.                                           *)
(***************************************************************************)
EXTENDS Naturals, Sequences, FiniteSets

CONSTANTS
    Handlers,     \* the threads that apply notifications
    Discoverers,  \* the threads that discover interfaces
    Attrs,        \* the attributes of the interface
    Vals,         \* their values
    Nodes,        \* the identities of database nodes
    MaxChanges    \* how often the device changes

Writers == Handlers \cup Discoverers

ASSUME WritersAssumption == Handlers \cap Discoverers = {}
ASSUME DiscoverersAssumption == IsFiniteSet(Discoverers) /\ Discoverers # {}
ASSUME BoundAssumption == MaxChanges \in Nat

Config == [Attrs -> Vals]

VARIABLES
    dev,      \* the attributes on the device
    present,  \* does the device have the interface?
    changes,  \* how often the device has changed
    last,     \* the number of the last change of each attribute
    queue,    \* the notifications on their way, in the stream's order
    db,       \* the interface's nodes
    pc,       \* where each writer is
    want,     \* the attributes it is about to write
    age,      \* the number of the last change it can know of
    node,     \* the node it has read, and
    copy,     \* the values it has read there
    seen,     \* the age of the last writer done with an attribute
    raced     \* has a writer overtaken, overwritten or doubled?

device == <<dev, present, changes, last>>
locals == <<pc, want, age, node, copy>>
history == <<seen, raced>>
vars == <<dev, present, changes, last, queue, db, pc, want, age, node, copy,
          seen, raced>>

Change == 0..MaxChanges
Notification == [attr : Attrs, val : Vals, at : Change]
PartialConfig == UNION {[A -> Vals] : A \in SUBSET Attrs}
PC == {"idle", "read", "save", "insert", "prune"}

TypeOK ==
    /\ dev \in Config
    /\ present \in BOOLEAN
    /\ changes \in Change
    /\ last \in [Attrs -> Change]
    /\ queue \in Seq(Notification)
    /\ DOMAIN db \subseteq Nodes
    /\ \A n \in DOMAIN db : db[n] \in Config
    /\ pc \in [Writers -> PC]
    /\ want \in [Writers -> PartialConfig]
    /\ age \in [Writers -> Change]
    /\ node \in [Writers -> Nodes]
    /\ copy \in [Writers -> Config]
    /\ seen \in [Attrs -> Change]
    /\ raced \in BOOLEAN

(* The device has been subscribed to, or also discovered.                  *)
Init ==
    /\ dev \in Config
    /\ present = TRUE
    /\ changes = 0
    /\ last = [a \in Attrs |-> 0]
    /\ queue = <<>>
    /\ \E n \in Nodes :
           /\ db \in {<<>>, [m \in {n} |-> dev]}
           /\ node = [w \in Writers |-> n]
    /\ pc = [w \in Writers |-> "idle"]
    /\ want = [w \in Writers |-> dev]
    /\ age = [w \in Writers |-> 0]
    /\ copy = [w \in Writers |-> dev]
    /\ seen = [a \in Attrs |-> 0]
    /\ raced = FALSE

(* Every change of the device has been handled, and no discovery runs.     *)
Settled == queue = <<>> /\ \A w \in Writers : pc[w] = "idle"

-----------------------------------------------------------------------------
(* The device.                                                             *)

ChangeDevice ==
    /\ changes < MaxChanges
    /\ changes' = changes + 1
    /\ UNCHANGED <<db, locals, history>>

SetAttribute(a, v) ==
    /\ ChangeDevice
    /\ present
    /\ dev[a] # v
    /\ dev' = [dev EXCEPT ![a] = v]
    /\ last' = [last EXCEPT ![a] = changes + 1]
    /\ queue' = Append(queue, [attr |-> a, val |-> v, at |-> changes + 1])
    /\ UNCHANGED present

(* A breakout is configured or undone, which brings the interface back as  *)
(* it was; interfaces that come and go are not in the subscription.        *)
ToggleInterface ==
    /\ ChangeDevice
    /\ present' = ~present
    /\ UNCHANGED <<dev, last, queue>>

-----------------------------------------------------------------------------
(* The writers.                                                            *)

Goto(w, from, to) == pc[w] = from /\ pc' = [pc EXCEPT ![w] = to]

(* handle_update takes a notification and starts a thread for it.          *)
Dispatch(w) ==
    /\ w \in Handlers
    /\ queue # <<>>
    /\ Goto(w, "idle", "read")
    /\ want' = [want EXCEPT ![w] = [a \in {Head(queue).attr} |-> Head(queue).val]]
    /\ age' = [age EXCEPT ![w] = Head(queue).at]
    /\ queue' = Tail(queue)
    /\ UNCHANGED <<device, db, node, copy, history>>

(* The reply of the device to the gNMI Get of a discovery.                 *)
Reply(w, pcIfPresent) ==
    /\ w \in Discoverers
    /\ Goto(w, "idle", IF present THEN pcIfPresent ELSE "prune")
    /\ want' = [want EXCEPT ![w] = dev]
    /\ age' = [age EXCEPT ![w] = changes]
    /\ UNCHANGED <<device, queue, db, node, copy, history>>

(* A mutant of Discover: it inserts what it has got without looking for a  *)
(* node first.                                                             *)
DiscoverUnread(w) == Reply(w, "insert")

Discover(w) == Reply(w, "read")

(* get_interface_of_device_from_db: the one node of that name.             *)
ReadNode(w) ==
    /\ Goto(w, "read", "save")
    /\ \E n \in Nodes :
           /\ DOMAIN db = {n}
           /\ node' = [node EXCEPT ![w] = n]
           /\ copy' = [copy EXCEPT ![w] = db[n]]
    /\ UNCHANGED <<device, queue, db, want, age, history>>

(* A writer is done with the attributes it came with.                      *)
Done(w, wrong) ==
    /\ seen' = [a \in Attrs |-> IF a \in DOMAIN want[w] THEN age[w] ELSE seen[a]]
    /\ raced' = (raced \/ wrong \/ \E a \in DOMAIN want[w] : age[w] < seen[a])
    /\ UNCHANGED <<device, queue, want, age, node, copy>>

(* No node: a discovery goes on to insert one, a notification is dropped.  *)
LookOn(w) ==
    /\ w \in Discoverers
    /\ DOMAIN db = {}
    /\ Goto(w, "read", "insert")
    /\ UNCHANGED <<device, queue, db, want, age, node, copy, history>>

DropUpdate(w) ==
    /\ w \in Handlers
    /\ DOMAIN db = {}
    /\ Goto(w, "read", "idle")
    /\ Done(w, FALSE)
    /\ UNCHANGED db

(* More than one: get_or_none raises.                                      *)
ReadAmbiguous(w) ==
    /\ Cardinality(DOMAIN db) > 1
    /\ Goto(w, "read", "idle")
    /\ UNCHANGED <<device, queue, db, want, age, node, copy, history>>

(* The node it has read is gone, or has another value by now in what is    *)
(* written back as it was read.                                            *)
Stale(w) ==
    \/ node[w] \notin DOMAIN db
    \/ \E a \in Attrs \ DOMAIN want[w] : db[node[w]][a] # copy[w][a]

Save(w, values) ==
    /\ Goto(w, "save", "idle")
    /\ db' = [n \in DOMAIN db |-> IF n = node[w] THEN values ELSE db[n]]
    /\ Done(w, Stale(w))

(* Mutants of SaveNode: the object is not the one read, so the attributes  *)
(* the notification does not name are lost; the new value is not set.      *)
SaveFresh(w) == Save(w, want[w])

SaveAsRead(w) == Save(w, copy[w])

(* save writes all properties of the object, those it was read with        *)
(* included; if the node has been deleted it writes nothing.               *)
SaveNode(w) ==
    Save(w, [a \in Attrs |-> IF a \in DOMAIN want[w]
                             THEN want[w][a] ELSE copy[w][a]])

InsertNode(w) ==
    /\ Goto(w, "insert", "idle")
    /\ \E n \in Nodes \ DOMAIN db :
           /\ \A x \in Writers : pc[x] = "save" => node[x] # n
           /\ db' = [m \in DOMAIN db \cup {n} |-> IF m = n THEN want[w] ELSE db[m]]
    /\ Done(w, DOMAIN db # {})

(* A mutant of PruneNode: nothing is ever deleted.                         *)
PruneNever(w) ==
    /\ Goto(w, "prune", "idle")
    /\ UNCHANGED <<device, queue, db, want, age, node, copy, history>>

(* Interfaces that the device does not have are deleted.                   *)
PruneNode(w) ==
    /\ Goto(w, "prune", "idle")
    /\ db' = <<>>
    /\ UNCHANGED <<device, queue, want, age, node, copy, history>>

WriterStep(w) ==
    \/ ReadNode(w) \/ LookOn(w) \/ DropUpdate(w) \/ ReadAmbiguous(w)
    \/ SaveNode(w) \/ InsertNode(w) \/ PruneNode(w)

Next ==
    \/ \E a \in Attrs, v \in Vals : SetAttribute(a, v)
    \/ ToggleInterface
    \/ \E w \in Writers : Dispatch(w) \/ Discover(w) \/ WriterStep(w)

Spec == Init /\ [][Next]_vars

(* Notifications are taken, started threads run, and a discovery is        *)
(* started again and again.                                                *)
FairSpec ==
    /\ Spec
    /\ WF_vars(\E w \in Handlers : Dispatch(w))
    /\ \A w \in Writers : WF_vars(WriterStep(w))
    /\ \A w \in Discoverers : WF_vars(Discover(w))

-----------------------------------------------------------------------------
(* Properties.                                                             *)

(* Every copy the DB has of the interface is that of the device.           *)
UpToDate == \A n \in DOMAIN db : db[n] = dev

Mirrored == UpToDate /\ Cardinality(DOMAIN db) = IF present THEN 1 ELSE 0

(* Whatever overlaps - changes of the device, the threads that apply them, *)
(* discoveries, breakouts - the DB is right when all is over, unless an    *)
(* older answer or notification was written last, a thread wrote back a    *)
(* stale copy of an attribute (the node is read before the lock is taken   *)
(* to save it), or a second node was inserted.  A save of all attributes   *)
(* by a thread that got one of them, notifications that meet no node, and  *)
(* nodes that are deleted and inserted anew are harmless on their own.     *)
InSync == Settled /\ ~raced => UpToDate

(* An interface has no more nodes than there are threads that discover     *)
(* (the reads that look it up by name raise from the second one on): only  *)
(* discoveries that all saw none insert theirs, so a node is never added   *)
(* to those of an earlier round, and no notification adds one.             *)
NodesOfOneRound == Cardinality(DOMAIN db) <= Cardinality(Discoverers)

(* However notifications overtook and overwrote each other, repeated       *)
(* discovery brings the copy to the device's state once the device stops   *)
(* changing, and keeps it there.                                           *)
DiscoveryHeals == <>[]Mirrored
=============================================================================
