--------------------------- MODULE TopologyProofs ---------------------------
(***************************************************************************)
(* Theorems about Topology, for any network, any cablings, any lists of    *)
(* devices to discover, and any number of threads and troubles: its types, *)
(* that it implements Inventory, and that a discovery nothing disturbs     *)
(* misses nothing.                                                         *)
(***************************************************************************)
EXTENDS Topology, FiniteSetTheorems, SequenceTheorems, TLAPS

(* The devices that a discovery may have heard of.                         *)
Reachable == Asked \cup Picture!NextTo(met, wired)

(* The tasks that lead only to such devices.                               *)
Guided == {t \in Task : t[1] \in {"device", "info", "neighbor"} => t[2] \in Reachable}

(* What LLDP tables and their copies list has been a cable.                *)
Wired ==
    /\ cables \in Cablings
    /\ cables \subseteq wired /\ heard \subseteq wired /\ told \subseteq wired

TasksOK ==
    /\ tasks \in [Clients -> Seq(Guided)]
    /\ pc \in [Clients -> {"idle", "waiting", "exploring", "linking"}]
    /\ \A c \in Clients : pc[c] = "idle" => tasks[c] = <<>>

NetOK ==
    /\ power \in [Devices -> {"off", "booting", "ready"}]
    /\ on \subseteq Ports
    /\ troubles \in 0..MaxTroubles
    /\ wired \subseteq Ports \X Ports /\ smooth \in BOOLEAN

GraphOK ==
    /\ known \subseteq Devices /\ unready \subseteq known
    /\ ports \subseteq {p \in Ports : Owner[p] \in known}
    /\ told \subseteq ports \X Ports /\ links \subseteq ports \X ports
    /\ known \subseteq met /\ met \subseteq Devices

(* The inductive invariant.                                                *)
IInv == NetOK /\ GraphOK /\ Wired /\ TasksOK

-----------------------------------------------------------------------------
(* Tasks.                                                                  *)

LEMMA GuidedType == Guided \subseteq Task
BY DEF Guided

LEMMA InvariantTypes == IInv => TypeOK
<1> SUFFICES ASSUME IInv PROVE TypeOK
  OBVIOUS
<1>1. Seq(Guided) \subseteq Seq(Task)
  BY GuidedType, SeqMonotonic
<1>2. tasks \in [Clients -> Seq(Task)]
  BY <1>1 DEF IInv, TasksOK
<1>3. cables \subseteq Ports \X Ports /\ heard \subseteq Ports \X Ports
  BY DEF IInv, NetOK, Wired
<1> QED BY <1>2, <1>3 DEF IInv, NetOK, GraphOK, TasksOK, TypeOK

(* Orders are sequences.                                                   *)
LEMMA OrdersType ==
    ASSUME NEW S \in SUBSET Devices, NEW order \in Orders(S)
    PROVE  order \in Seq(S)
<1>1. IsFiniteSet(S)
  BY PortsAssumption, FS_Subset
<1>2. Cardinality(S) \in Nat
  BY <1>1, FS_CardinalityType
<1> QED BY <1>2 DEF Orders

LEMMA EachGuided ==
    ASSUME NEW stage \in Stages, NEW ds \in Seq(Devices),
           stage \in {"device", "info", "neighbor"} => ds \in Seq(Reachable)
    PROVE  Each(stage, ds) \in Seq(Guided)
<1>1. DOMAIN ds = 1..Len(ds) /\ Len(ds) \in Nat
  OBVIOUS
<1>2. ASSUME NEW k \in 1..Len(ds) PROVE <<stage, ds[k]>> \in Guided
  <2>1. ds[k] \in Devices
    BY <1>2
  <2>2. stage \in {"device", "info", "neighbor"} => ds[k] \in Reachable
    BY <1>2, ElementOfSeq
  <2> QED BY <2>1, <2>2 DEF Guided, Task
<1> QED BY <1>1, <1>2 DEF Each

LEMMA DiscoveryGuided ==
    ASSUME NEW ds \in Seq(Devices), ds \in Seq(Reachable)
    PROVE  _discover_device_and_lldp_info(ds) \in Seq(Guided)
<1>1. Each("device", ds) \in Seq(Guided) /\ Each("neighbors", ds) \in Seq(Guided)
  BY EachGuided DEF Stages
<1> QED BY <1>1, ConcatProperties DEF _discover_device_and_lldp_info

(* A thread goes on to its next task.                                      *)
LEMMA DoneGuided ==
    ASSUME TasksOK, NEW c \in Clients, NEW stage, NEW d, At(c, stage, d), Done(c),
           UNCHANGED pc
    PROVE  tasks' \in [Clients -> Seq(Guided)]
           /\ \A x \in Clients : pc'[x] = "idle" => tasks'[x] = <<>>
<1>1. Tail(tasks[c]) \in Seq(Guided)
  BY HeadTailProperties DEF TasksOK, At
<1>2. tasks' \in [Clients -> Seq(Guided)]
  BY <1>1 DEF TasksOK, Done
<1>3. ASSUME NEW x \in Clients, pc'[x] = "idle" PROVE tasks'[x] = <<>>
  <2>1. x # c
    BY <1>3 DEF At
  <2> QED BY <1>3, <2>1 DEF TasksOK, Done
<1> QED BY <1>2, <1>3

LEMMA InsteadGuided ==
    ASSUME TasksOK, NEW c \in Clients, NEW stage, NEW d, At(c, stage, d),
           NEW ts \in Seq(Guided), Instead(c, ts), UNCHANGED pc
    PROVE  tasks' \in [Clients -> Seq(Guided)]
           /\ \A x \in Clients : pc'[x] = "idle" => tasks'[x] = <<>>
<1>1. Tail(tasks[c]) \in Seq(Guided)
  BY HeadTailProperties DEF TasksOK, At
<1>2. ts \o Tail(tasks[c]) \in Seq(Guided)
  BY <1>1, ConcatProperties
<1>3. tasks' \in [Clients -> Seq(Guided)]
  BY <1>2 DEF TasksOK, Instead
<1>4. ASSUME NEW x \in Clients, pc'[x] = "idle" PROVE tasks'[x] = <<>>
  <2>1. x # c
    BY <1>4 DEF At
  <2> QED BY <1>4, <2>1 DEF TasksOK, Instead
<1> QED BY <1>3, <1>4

(* The device of the task at hand.                                         *)
LEMMA AtGuided ==
    ASSUME TasksOK, NEW c \in Clients, NEW d, NEW stage \in {"device", "info", "neighbor"},
           At(c, stage, d)
    PROVE  d \in Reachable
<1>1. Head(tasks[c]) \in Guided
  BY HeadTailProperties DEF TasksOK, At
<1>2. <<stage, d>> \in Guided
  BY <1>1 DEF At
<1>3. <<stage, d>>[1] = stage /\ <<stage, d>>[2] = d
  OBVIOUS
<1> QED BY <1>2, <1>3 DEF Guided, Task

(* Who has once been reachable remains so.                                 *)
LEMMA GuidedGrows ==
    ASSUME met \subseteq met', wired \subseteq wired'
    PROVE  Seq(Guided) \subseteq Seq(Guided')
<1>1. Reachable \subseteq Reachable'
  BY DEF Reachable, Picture!NextTo
<1>2. Guided \subseteq Guided'
  BY <1>1 DEF Guided
<1> QED BY <1>2, SeqMonotonic
-----------------------------------------------------------------------------
(* The invariant holds at first.                                           *)

LEMMA InitIInv == Init => IInv
<1> SUFFICES ASSUME Init PROVE IInv
  OBVIOUS
<1>1. NetOK
  <2>1. cables \subseteq Ports \X Ports
    BY CablesAssumption DEF Init
  <2> QED BY <2>1, LimitsAssumption DEF Init, NetOK
<1>2. GraphOK
  BY DEF Init, GraphOK
<1>3. Wired
  BY DEF Init, Wired
<1>4. TasksOK
  <2>1. <<>> \in Seq(Guided)
    OBVIOUS
  <2> QED BY <2>1 DEF Init, TasksOK
<1> QED BY <1>1, <1>2, <1>3, <1>4 DEF IInv

LEMMA TroubleType ==
    ASSUME NetOK, Trouble \/ NoTrouble
    PROVE  troubles' \in 0..MaxTroubles /\ smooth' \in BOOLEAN
<1>1. CASE Trouble
  <2>1. smooth' = FALSE /\ troubles' = troubles + 1 /\ troubles < MaxTroubles
    BY <1>1 DEF Trouble
  <2>2. troubles' \in 0..MaxTroubles
    BY <2>1, LimitsAssumption DEF NetOK
  <2> QED BY <2>1, <2>2
<1>2. CASE NoTrouble
  BY <1>2 DEF NetOK, NoTrouble
<1> QED BY <1>1, <1>2

(* Steps that change no more than the network.                             *)
LEMMA NetworkIInv ==
    IInv /\ ((\E d \in Devices : install_image_on_device(d)) \/ Boot \/ Recable \/ Lldp)
        => IInv'
<1> SUFFICES ASSUME IInv,
                    (\E d \in Devices : install_image_on_device(d))
                    \/ Boot \/ Recable \/ Lldp
             PROVE  IInv'
  OBVIOUS
<1> USE DEF IInv
<1>1. CASE \E d \in Devices : install_image_on_device(d)
  <2> USE DEF install_image_on_device, graph
  <2>1. NetOK'
    BY <1>1, TroubleType DEF NetOK
  <2>2. GraphOK' /\ Wired'
    BY <1>1 DEF GraphOK, Wired
  <2>3. Guided' = Guided
    BY <1>1 DEF Guided, Reachable, Picture!NextTo
  <2> QED BY <1>1, <2>1, <2>2, <2>3 DEF TasksOK
<1>2. CASE Boot
  <2> USE DEF Boot, Listens, BecomesReady, graph, history
  <2>1. NetOK'
    BY <1>2 DEF NetOK
  <2>2. GraphOK' /\ Wired'
    BY <1>2 DEF GraphOK, Wired
  <2>3. Guided' = Guided
    BY <1>2 DEF Guided, Reachable, Picture!NextTo
  <2> QED BY <1>2, <2>1, <2>2, <2>3 DEF TasksOK
<1>3. CASE Recable
  <2> USE DEF Recable, graph
  <2>1. PICK x \in Cablings \ {cables} : cables' = x /\ wired' = wired \cup x
    BY <1>3
  <2>2. x \subseteq Ports \X Ports
    BY CablesAssumption
  <2>3. NetOK'
    BY <1>3, <2>1, <2>2, TroubleType DEF NetOK
  <2>4. GraphOK'
    BY <1>3 DEF GraphOK
  <2>5. Wired'
    BY <1>3, <2>1 DEF Wired
  <2>6. Seq(Guided) \subseteq Seq(Guided')
    BY <1>3, <2>1, GuidedGrows
  <2>7. TasksOK'
    BY <1>3, <2>6 DEF TasksOK
  <2> QED BY <2>3, <2>4, <2>5, <2>7
<1>4. CASE Lldp
  <2>1. PICK r \in cables \cup heard : Hear(r) \/ Expire(r)
    BY <1>4 DEF Lldp
  <2>2. Both(r) \subseteq cables \/ heard' \subseteq heard
    BY <2>1, CablesAssumption DEF Hear, Expire, Up, Both, Wired
  <2>3. UNCHANGED <<power, cables, on, graph, pc, tasks, troubles, history>>
    BY <2>1 DEF Hear, Expire
  <2>4. heard' \subseteq wired
    BY <2>1, <2>2 DEF Hear, Expire, Wired
  <2>5. Guided' = Guided
    BY <2>3 DEF history, Guided, Reachable, Picture!NextTo
  <2>6. NetOK' /\ GraphOK' /\ Wired'
    BY <2>3, <2>4 DEF graph, history, NetOK, GraphOK, Wired
  <2> QED BY <2>3, <2>5, <2>6 DEF TasksOK
<1> QED BY <1>1, <1>2, <1>3, <1>4

(* The calls of the application.                                           *)
LEMMA BeginGuided ==
    ASSUME TasksOK, NEW c \in Clients, NEW what \in {"waiting", "exploring"},
           NEW ts \in Seq(Guided), Begin(c, what, ts), UNCHANGED <<met, wired>>
    PROVE  TasksOK'
<1>1. Guided' = Guided
  BY DEF Guided, Reachable, Picture!NextTo
<1>2. tasks' \in [Clients -> Seq(Guided)]
  BY DEF TasksOK, Begin
<1>3. pc' \in [Clients -> {"idle", "waiting", "exploring", "linking"}]
  BY DEF TasksOK, Begin
<1>4. ASSUME NEW x \in Clients, pc'[x] = "idle" PROVE tasks'[x] = <<>>
  <2>1. x # c
    BY <1>4 DEF TasksOK, Begin
  <2> QED BY <1>4, <2>1 DEF TasksOK, Begin
<1> QED BY <1>1, <1>2, <1>3, <1>4 DEF TasksOK

LEMMA CallIInv ==
    ASSUME IInv, NEW c \in Clients,
           \/ \E list \in Lists : discover_device(c, list)
           \/ \E d \in Devices : switch_image_on_device(c, d)
    PROVE  IInv'
<1> USE DEF IInv
<1>1. ASSUME NEW ds \in Seq(Asked)
      PROVE  _discover_device_and_lldp_info(ds) \in Seq(Guided)
  <2>1. ds \in Seq(Devices) /\ ds \in Seq(Reachable)
    BY ListsAssumption, SeqMonotonic DEF Reachable
  <2> QED BY <2>1, DiscoveryGuided
<1>2. CASE \E list \in Lists : discover_device(c, list)
  <2>1. PICK list \in Lists : discover_device(c, list)
    BY <1>2
  <2>2. _discover_device_and_lldp_info(list) \in Seq(Guided)
    BY <1>1, ListsAssumption
  <2>3. TasksOK'
    BY <2>1, <2>2, BeginGuided DEF discover_device, history
  <2>4. NetOK' /\ GraphOK' /\ Wired'
    BY <2>1 DEF discover_device, device, graph, history, NetOK, GraphOK, Wired
  <2> QED BY <2>3, <2>4
<1>3. CASE \E d \in Devices : switch_image_on_device(c, d)
  <2>1. PICK d \in Devices : switch_image_on_device(c, d)
    BY <1>3
  <2>2. <<d>> \in Seq(Asked)
    BY <2>1 DEF switch_image_on_device
  <2>3. _discover_device_and_lldp_info(<<d>>) \in Seq(Guided)
    BY <1>1, <2>2
  <2>4. TasksOK'
    BY <2>1, <2>3, BeginGuided DEF switch_image_on_device
  <2>5. NetOK'
    BY <2>1, TroubleType DEF switch_image_on_device, NetOK
  <2>6. GraphOK' /\ Wired'
    BY <2>1 DEF switch_image_on_device, graph, GraphOK, Wired
  <2> QED BY <2>4, <2>5, <2>6
<1> QED BY <1>2, <1>3

LEMMA DeleteIInv ==
    ASSUME IInv, NEW d \in Devices, delete_device(d)
    PROVE  IInv'
<1> USE DEF IInv, delete_device
<1>1. NetOK'
  BY TroubleType DEF NetOK, device
<1>2. GraphOK'
  <2>1. ports' \subseteq {p \in Ports : Owner[p] \in known'}
    BY DEF GraphOK, PortsOf
  <2>2. told' \subseteq ports' \X Ports
    BY DEF GraphOK, PortsOf, From
  <2>3. links' \subseteq ports' \X ports'
    BY DEF GraphOK, PortsOf, Ends
  <2>4. known' \subseteq Devices /\ unready' \subseteq known' /\ known' \subseteq met'
        /\ met' \subseteq Devices
    BY DEF GraphOK
  <2> QED BY <2>1, <2>2, <2>3, <2>4 DEF GraphOK
<1>3. Wired'
  BY DEF Wired, device
<1>4. Guided' = Guided
  BY DEF Guided, Reachable, Picture!NextTo
<1>5. TasksOK'
  BY <1>4 DEF TasksOK
<1> QED BY <1>1, <1>2, <1>3, <1>5

-----------------------------------------------------------------------------
(* The steps of a discovery.                                               *)

(* Steps that change no more than the tasks of a thread.                   *)
LEMMA TaskIInv ==
    ASSUME IInv, NEW c \in Clients, NEW d \in Devices,
           \/ _discover_device_and_enable_ifs(c, d)
           \/ get_all_lldp_neighbor_device_ips(c, d)
           \/ discover_neighbor(c, d)
    PROVE  IInv'
<1> USE DEF IInv
<1>1. UNCHANGED <<device, graph, pc, troubles, history>>
  BY DEF _discover_device_and_enable_ifs, get_all_lldp_neighbor_device_ips, discover_neighbor
<1>2. NetOK' /\ GraphOK' /\ Wired'
  BY <1>1 DEF device, graph, history, NetOK, GraphOK, Wired
<1>3. Guided' = Guided
  BY <1>1 DEF history, Guided, Reachable, Picture!NextTo
<1>4. SUFFICES tasks' \in [Clients -> Seq(Guided)]
               /\ \A x \in Clients : pc'[x] = "idle" => tasks'[x] = <<>>
  BY <1>1, <1>2, <1>3 DEF TasksOK
<1>5. CASE _discover_device_and_enable_ifs(c, d)
  <2>1. At(c, "device", d)
    BY <1>5 DEF _discover_device_and_enable_ifs
  <2>2. CASE Done(c)
    BY <1>1, <2>1, <2>2, DoneGuided
  <2>3. CASE Instead(c, << <<"info", d>>, <<"interfaces", d>>, <<"enable", d>>, <<"lldp", d>> >>)
    <3>1. d \in Reachable
      BY <2>1, AtGuided
    <3>2. /\ <<"info", d>> \in Guided /\ <<"interfaces", d>> \in Guided
          /\ <<"enable", d>> \in Guided /\ <<"lldp", d>> \in Guided
      BY <3>1 DEF Guided, Task, Stages
    <3>3. << <<"info", d>>, <<"interfaces", d>>, <<"enable", d>>, <<"lldp", d>> >> \in Seq(Guided)
      BY <3>2
    <3> QED BY <1>1, <2>1, <2>3, <3>3, InsteadGuided
  <2> QED BY <1>5, <2>2, <2>3 DEF _discover_device_and_enable_ifs
<1>6. CASE get_all_lldp_neighbor_device_ips(c, d)
  <2> DEFINE S == {Owner[r[2]] : r \in From(told, ports \cap PortsOf(d))}
  <2>1. PICK order \in Orders(S) : Instead(c, Each("neighbor", order))
    BY <1>6 DEF get_all_lldp_neighbor_device_ips
  <2>2. S \subseteq Devices
    BY PortsAssumption DEF GraphOK, From
  <2>3. S \subseteq Reachable
    BY DEF GraphOK, Wired, From, Reachable, Picture!NextTo
  <2>4. order \in Seq(Devices) /\ order \in Seq(Reachable)
    BY <2>2, <2>3, OrdersType, SeqMonotonic
  <2>5. Each("neighbor", order) \in Seq(Guided)
    BY <2>4, EachGuided DEF Stages
  <2>6. At(c, "neighbors", d)
    BY <1>6 DEF get_all_lldp_neighbor_device_ips
  <2> QED BY <1>1, <2>1, <2>5, <2>6, InsteadGuided
<1>7. CASE discover_neighbor(c, d)
  <2>1. At(c, "neighbor", d)
    BY <1>7 DEF discover_neighbor
  <2>2. CASE Done(c)
    BY <1>1, <2>1, <2>2, DoneGuided
  <2>3. CASE Instead(c, _discover_device_and_lldp_info(<<d>>))
    <3>1. d \in Reachable
      BY <2>1, AtGuided
    <3>2. <<d>> \in Seq(Devices) /\ <<d>> \in Seq(Reachable)
      BY <3>1
    <3> QED BY <1>1, <2>1, <2>3, <3>2, DiscoveryGuided, InsteadGuided
  <2> QED BY <1>7, <2>2, <2>3 DEF discover_neighbor
<1> QED BY <1>5, <1>6, <1>7

(* Steps that finish a task without a change of the DB.                    *)
LEMMA QuietIInv ==
    ASSUME IInv, NEW c \in Clients, NEW d \in Devices,
           enable_all_ifs(c, d) \/ discover_nw_features_fails(c, d)
    PROVE  IInv'
<1> USE DEF IInv
<1>1. UNCHANGED <<power, cables, heard, graph, pc, met, wired>>
  BY DEF enable_all_ifs, discover_nw_features_fails, device
<1>2. Done(c) /\ \E stage : At(c, stage, d)
  BY DEF enable_all_ifs, discover_nw_features_fails
<1>3. GraphOK' /\ Wired'
  BY <1>1 DEF graph, GraphOK, Wired
<1>4. Guided' = Guided
  BY <1>1 DEF Guided, Reachable, Picture!NextTo
<1>5. TasksOK'
  BY <1>1, <1>2, <1>4, DoneGuided DEF TasksOK
<1>6. Trouble \/ NoTrouble
  BY DEF enable_all_ifs, discover_nw_features_fails
<1>7. on' \subseteq Ports
  BY DEF enable_all_ifs, discover_nw_features_fails, device, NetOK, PortsOf
<1>8. NetOK'
  BY <1>1, <1>6, <1>7, TroubleType DEF NetOK
<1> QED BY <1>3, <1>5, <1>8

LEMMA InfoIInv ==
    ASSUME IInv, NEW c \in Clients, NEW d \in Devices,
           discover_device_basic_system_details(c, d)
    PROVE  IInv'
<1> USE DEF IInv, discover_device_basic_system_details
<1>1. NetOK' /\ Wired'
  BY DEF device, NetOK, Wired
<1>2. GraphOK'
  <2>1. known' \subseteq Devices /\ known' \subseteq met' /\ met' \subseteq Devices
    BY DEF GraphOK
  <2>2. unready' \subseteq known'
    BY DEF GraphOK
  <2>3. ports' \subseteq {p \in Ports : Owner[p] \in known'}
    BY DEF GraphOK
  <2>4. told' \subseteq ports' \X Ports /\ links' \subseteq ports' \X ports'
    BY DEF GraphOK
  <2> QED BY <2>1, <2>2, <2>3, <2>4 DEF GraphOK
<1>3. Seq(Guided) \subseteq Seq(Guided')
  BY GuidedGrows
<1>4. tasks' \in [Clients -> Seq(Guided)]
      /\ \A x \in Clients : pc'[x] = "idle" => tasks'[x] = <<>>
  BY DoneGuided
<1>5. TasksOK'
  BY <1>3, <1>4 DEF TasksOK
<1> QED BY <1>1, <1>2, <1>5

LEMMA InsertIInv ==
    ASSUME IInv, NEW c \in Clients, NEW d \in Devices,
           \/ discover_interfaces(c, d) \/ discover_lldp_info(c, d)
           \/ create_lldp_relations_in_db(c, d)
    PROVE  IInv'
<1> USE DEF IInv
<1>1. UNCHANGED <<device, known, unready, pc, troubles, met, wired>>
  BY DEF discover_interfaces, discover_lldp_info, create_lldp_relations_in_db, history
<1>2. Done(c) /\ \E stage : At(c, stage, d)
  BY DEF discover_interfaces, discover_lldp_info, create_lldp_relations_in_db
<1>3. Guided' = Guided
  BY <1>1 DEF Guided, Reachable, Picture!NextTo
<1>4. TasksOK'
  BY <1>1, <1>2, <1>3, DoneGuided DEF TasksOK
<1>5. NetOK'
  <2>1. smooth' \in BOOLEAN
    BY DEF discover_interfaces, discover_lldp_info, create_lldp_relations_in_db, history, NetOK
  <2> QED BY <1>1, <2>1 DEF device, NetOK
<1>6. GraphOK' /\ Wired'
  <2>1. CASE discover_interfaces(c, d)
    BY <1>1, <2>1 DEF discover_interfaces, device, GraphOK, Wired, PortsOf
  <2>2. CASE discover_lldp_info(c, d)
    <3>1. PICK ps : told' = (told \ From(told, {r[1] : r \in From(heard, ps \cap ports)}))
                            \cup From(heard, ps \cap ports)
      BY <2>2 DEF discover_lldp_info
    <3>2. heard \subseteq Ports \X Ports
      BY DEF Wired, NetOK
    <3>3. told' \subseteq ports \X Ports /\ told' \subseteq wired
      BY <3>1, <3>2 DEF From, GraphOK, Wired
    <3> QED BY <1>1, <2>2, <3>3 DEF discover_lldp_info, device, GraphOK, Wired
  <2>3. CASE create_lldp_relations_in_db(c, d)
    <3>1. links' \subseteq ports \X ports
      BY <2>3 DEF create_lldp_relations_in_db, From, GraphOK
    <3> QED BY <1>1, <2>3, <3>1 DEF create_lldp_relations_in_db, device, GraphOK, Wired
  <2> QED BY <2>1, <2>2, <2>3
<1> QED BY <1>4, <1>5, <1>6

LEMMA PhaseIInv ==
    ASSUME IInv, NEW c \in Clients, Reconnect(c) \/ Relate(c) \/ Return(c)
    PROVE  IInv'
<1> USE DEF IInv
<1>1. UNCHANGED <<device, graph, troubles, history>>
  BY DEF Reconnect, Relate, Return
<1>2. NetOK' /\ GraphOK' /\ Wired'
  BY <1>1 DEF device, graph, history, NetOK, GraphOK, Wired
<1>3. Guided' = Guided
  BY <1>1 DEF history, Guided, Reachable, Picture!NextTo
<1>4. TasksOK'
  <2>1. <<>> \in Seq(Guided)
    OBVIOUS
  <2>2. CASE Reconnect(c)
    BY <1>3, <2>1, <2>2 DEF Reconnect, TasksOK
  <2>3. CASE Relate(c)
    <3>1. PICK order \in Orders(known) : tasks' = [tasks EXCEPT ![c] = Each("link", order)]
      BY <2>3 DEF Relate
    <3>2. order \in Seq(Devices)
      BY OrdersType, SeqMonotonic DEF GraphOK
    <3>3. Each("link", order) \in Seq(Guided)
      BY <3>2, EachGuided DEF Stages
    <3> QED BY <1>3, <2>3, <3>1, <3>3 DEF Relate, TasksOK
  <2>4. CASE Return(c)
    BY <1>3, <2>4 DEF Return, TasksOK
  <2> QED BY <2>2, <2>3, <2>4
<1> QED BY <1>2, <1>4

LEMMA NextIInv == IInv /\ [Next]_vars => IInv'
<1> SUFFICES ASSUME IInv, [Next]_vars PROVE IInv'
  OBVIOUS
<1>1. CASE \E c \in Clients : ClientStep(c)
  BY <1>1, TaskIInv, QuietIInv, InfoIInv, InsertIInv, PhaseIInv DEF ClientStep
<1>2. CASE \E c \in Clients, list \in Lists : discover_device(c, list)
  BY <1>2, CallIInv
<1>3. CASE \E c \in Clients, d \in Devices : switch_image_on_device(c, d)
  BY <1>3, CallIInv
<1>4. CASE \E d \in Devices : install_image_on_device(d) \/ delete_device(d)
  BY <1>4, NetworkIInv, DeleteIInv
<1>5. CASE Boot \/ Recable \/ Lldp
  BY <1>5, NetworkIInv
<1>6. CASE UNCHANGED vars
  <2>1. Guided' = Guided
    BY <1>6 DEF vars, history, Guided, Reachable, Picture!NextTo
  <2> QED BY <1>6, <2>1 DEF vars, device, graph, history, IInv, NetOK, GraphOK, Wired, TasksOK
<1> QED BY <1>1, <1>2, <1>3, <1>4, <1>5, <1>6 DEF Next

LEMMA Invariant == Spec => []IInv
BY InitIInv, NextIInv, PTL DEF Spec

(* TypeOK: nodes, relations and tasks are what they should be, and no      *)
(* interface and no link outlives its device, whatever delete_device meets.*)
THEOREM TopologyTypeCorrect == Spec => []TypeOK
BY Invariant, InvariantTypes, PTL

-----------------------------------------------------------------------------
(* The refinement.                                                         *)

LEMMA InitPicture == Init => Picture!Init
<1> SUFFICES ASSUME Init PROVE Picture!Init
  OBVIOUS
<1>1. wired \subseteq Ports \X Ports
  BY CablesAssumption DEF Init
<1> QED BY <1>1 DEF Init, Picture!Init

LEMMA InfoPicture ==
    ASSUME IInv, NEW c \in Clients, NEW d \in Devices,
           discover_device_basic_system_details(c, d)
    PROVE  Picture!Learn(d)
<1>1. d \in Reachable
  <2>1. At(c, "info", d) /\ TasksOK
    BY DEF discover_device_basic_system_details, IInv
  <2> QED BY <2>1, AtGuided
<1> QED BY <1>1 DEF discover_device_basic_system_details, Reachable, Picture!Learn

LEMMA LinkPicture ==
    ASSUME IInv, NEW c \in Clients, NEW d \in Devices, create_lldp_relations_in_db(c, d)
    PROVE  Picture!Link
<1>1. UNCHANGED <<known, met, wired>>
  BY DEF create_lldp_relations_in_db, history
<1>2. links \subseteq links'
  BY DEF create_lldp_relations_in_db
<1>3. ASSUME NEW r \in links' \ links
      PROVE  r \in wired /\ Owner[r[1]] \in known /\ Owner[r[2]] \in known
  <2>1. r \in told /\ r[1] \in ports /\ r[2] \in ports
    BY DEF create_lldp_relations_in_db, From
  <2> QED BY <2>1 DEF IInv, GraphOK, Wired
<1> QED BY <1>1, <1>2, <1>3 DEF Picture!Link

(* Every step is one of the picture's, or none.                            *)
LEMMA NextPicture ==
    IInv /\ [Next]_vars => [Picture!Next]_<<known, links, met, wired>>
<1> SUFFICES ASSUME IInv, [Next]_vars, ~ UNCHANGED <<known, links, met, wired>>
             PROVE  Picture!Next
  OBVIOUS
<1>1. CASE \E c \in Clients : ClientStep(c)
  <2>1. PICK c \in Clients : ClientStep(c)
    BY <1>1
  <2>2. PICK d \in Devices :
            discover_device_basic_system_details(c, d) \/ create_lldp_relations_in_db(c, d)
    BY <2>1 DEF ClientStep, Reconnect, Relate, Return, _discover_device_and_enable_ifs,
       discover_interfaces, enable_all_ifs, discover_lldp_info, discover_nw_features_fails,
       get_all_lldp_neighbor_device_ips, discover_neighbor, graph, history
  <2> QED BY <2>2, InfoPicture, LinkPicture DEF Picture!Next
<1>2. CASE \E c \in Clients, list \in Lists : discover_device(c, list)
  BY <1>2 DEF discover_device, graph, history
<1>3. CASE \E c \in Clients, d \in Devices : switch_image_on_device(c, d)
  BY <1>3 DEF switch_image_on_device, graph
<1>4. CASE \E d \in Devices : install_image_on_device(d)
  BY <1>4 DEF install_image_on_device, graph
<1>5. CASE \E d \in Devices : delete_device(d)
  BY <1>5 DEF delete_device, Picture!Next, Picture!Forget, Ends
<1>6. CASE Recable
  <2>1. wired \subseteq wired' /\ wired' \subseteq Ports \X Ports
    BY <1>6, CablesAssumption DEF Recable, IInv, NetOK
  <2> QED BY <1>6, <2>1 DEF Recable, graph, Picture!Next, Picture!Wire
<1>7. CASE Boot \/ Lldp
  BY <1>7 DEF Boot, Listens, BecomesReady, Lldp, Hear, Expire, graph, history
<1>8. CASE UNCHANGED vars
  BY <1>8 DEF vars, graph, history
<1> QED BY <1>1, <1>2, <1>3, <1>4, <1>5, <1>6, <1>7, <1>8 DEF Next

(* The DB is a picture of the network as Inventory promises: whatever      *)
(* fails, moves, reboots or is deleted while discoveries recurse, a device *)
(* is in it only if a list names it or a cable has led to it from a device *)
(* that was in it, and a link only if there was such a cable.              *)
THEOREM TopologyImplementsInventory == Spec => PictureSpec
<1>1. Init => Picture!Init
  BY InitPicture
<1>2. IInv /\ [Next]_vars => [Picture!Next]_<<known, links, met, wired>>
  BY NextPicture
<1> QED BY <1>1, <1>2, Invariant, PTL DEF Spec, PictureSpec, Picture!Spec

-----------------------------------------------------------------------------
(* What a smooth discovery finds.                                          *)

(* No port has two neighbours of one address.                              *)
Readable ==
    \A x \in Cablings : \A q, r \in x : q[1] = r[1] /\ Owner[q[2]] = Owner[r[2]] => q = r

(* The devices of the DB that have all their interfaces, and of these the  *)
(* ones that also have all their neighbours.                               *)
Full == {d \in known : PortsOf(d) \subseteq ports}
Read == {d \in Full : From(cables, PortsOf(d)) \subseteq told}

Has(ts, t) == \E k \in 1..Len(ts) : ts[k] = t
Pending(t) == \E c \in Clients : Has(tasks[c], t)

(* A device that is discovered goes through all the stages, ...            *)
Chained(ts) == \A k \in 1..Len(ts), d \in Devices :
    /\ ts[k] = <<"info", d>> => k < Len(ts) /\ ts[k + 1] = <<"interfaces", d>>
    /\ ts[k] = <<"interfaces", d>> => k < Len(ts) /\ ts[k + 1] = <<"enable", d>>
    /\ ts[k] = <<"enable", d>> => k < Len(ts) /\ ts[k + 1] = <<"lldp", d>>

(* ... its neighbours come later, ...                                      *)
Closed(ts) == \A k \in 1..Len(ts), d \in Devices :
    ts[k] \in {<<"device", d>>, <<"info", d>>}
        => \E j \in (k + 1)..Len(ts) : ts[j] = <<"neighbors", d>>

(* ... and a stage finds what it needs, or the task before it inserts it.  *)
Prepared(ts, nodes, full, read) == \A k \in 1..Len(ts), d \in Devices :
    /\ ts[k] = <<"interfaces", d>> => d \in nodes \/ (k > 1 /\ ts[k - 1] = <<"info", d>>)
    /\ ts[k] = <<"enable", d>> => d \in full \/ (k > 1 /\ ts[k - 1] = <<"interfaces", d>>)
    /\ ts[k] = <<"lldp", d>> => d \in full \/ (k > 1 /\ ts[k - 1] = <<"enable", d>>)
    /\ ts[k] = <<"neighbors", d>>
        => d \in read \/ \E j \in 1..(k - 1) : ts[j] \in {<<"device", d>>, <<"lldp", d>>}

(* Until something fails or changes.                                       *)
Calm ==
    /\ \A d \in Devices : power[d] = "ready"
    /\ unready = {} /\ heard \subseteq cables /\ wired = cables

(* A thread relates devices only when it has discovered all it listed.     *)
Staged == \A c \in Clients :
    /\ pc[c] # "waiting"
    /\ \A k \in 1..Len(tasks[c]) : tasks[c][k][1] = "link" <=> pc[c] # "exploring"

Orderly == \A c \in Clients :
    Chained(tasks[c]) /\ Closed(tasks[c]) /\ Prepared(tasks[c], known, Full, Read)

(* Whatever is not in the DB is on a list.                                 *)
Reading == \A d \in known : d \in Read \/ Pending(<<"lldp", d>>)
Spreading == \A r \in From(cables, {p \in Ports : Owner[p] \in known}) :
    \/ Owner[r[2]] \in known
    \/ Pending(<<"neighbors", Owner[r[1]]>>)
    \/ \E stage \in {"neighbor", "device", "info"} : Pending(<<stage, Owner[r[2]]>>)
Linking ==
    \/ \E c \in Clients : pc[c] = "exploring"
    \/ \A r \in From(cables, ports) : r \in links \/ Pending(<<"link", Owner[r[1]]>>)

(* The inductive invariant of NothingMissed, together with IInv.           *)
SmoothInv == smooth => Calm /\ Staged /\ Orderly /\ Reading /\ Spreading /\ Linking

(* Lists of tasks.                                                         *)

LEMMA OrdersCover ==
    ASSUME NEW S \in SUBSET Devices, NEW order \in Orders(S), NEW d \in S
    PROVE  \E k \in 1..Len(order) : order[k] = d
<1> DEFINE n == Cardinality(S)
<1>1. IsFiniteSet(S) /\ n \in Nat
  BY PortsAssumption, FS_Subset, FS_CardinalityType
<1>2. order \in [1..n -> S] /\ Len(order) = n /\ DOMAIN order = 1..n
  BY <1>1 DEF Orders
<1>3. \A j, k \in 1..n : order[j] = order[k] => j = k
  BY <1>2 DEF Orders
<1>4. order \in Injection(1..n, S)
  BY <1>2, <1>3 DEF Injection, IsInjective
<1>5. IsFiniteSet(1..n) /\ Cardinality(1..n) = n
  BY <1>1, FS_Interval
<1>6. order \in Surjection(1..n, S)
  BY <1>1, <1>4, <1>5, FS_Injection
<1>7. \A x \in S : \E k \in 1..n : order[k] = x
  BY <1>6 DEF Surjection
<1> QED BY <1>2, <1>7

LEMMA EachTask ==
    ASSUME NEW stage \in Stages, NEW ds \in Seq(Devices)
    PROVE  /\ Each(stage, ds) \in Seq(Task) /\ Len(Each(stage, ds)) = Len(ds)
           /\ \A k \in 1..Len(ds) : Each(stage, ds)[k] = <<stage, ds[k]>>
<1>1. DOMAIN ds = 1..Len(ds) /\ Len(ds) \in Nat
  OBVIOUS
<1>2. \A k \in 1..Len(ds) : <<stage, ds[k]>> \in Task
  BY DEF Task
<1> QED BY <1>1, <1>2 DEF Each

(* A list whose first task has been replaced.                              *)
LEMMA Spliced ==
    ASSUME NEW ts \in Seq(Task), ts # <<>>, NEW us \in Seq(Task)
    PROVE  LET ws == us \o Tail(ts)
           IN  /\ ws \in Seq(Task)
               /\ Len(us) \in Nat /\ Len(ts) \in Nat \ {0}
               /\ Len(ws) = Len(us) + Len(ts) - 1
               /\ \A k \in 1..Len(us) : ws[k] = us[k]
               /\ \A k \in 2..Len(ts) : ws[k + Len(us) - 1] = ts[k]
<1>1. /\ Tail(ts) \in Seq(Task) /\ Len(Tail(ts)) = Len(ts) - 1
      /\ \A k \in 1..Len(Tail(ts)) : Tail(ts)[k] = ts[k + 1]
  BY HeadTailProperties
<1>2. Len(us) \in Nat /\ Len(ts) \in Nat \ {0}
  OBVIOUS
<1> DEFINE ws == us \o Tail(ts)
<1>3. /\ ws \in Seq(Task) /\ Len(ws) = Len(us) + Len(Tail(ts))
      /\ \A k \in 1..Len(us) + Len(Tail(ts)) :
            ws[k] = IF k <= Len(us) THEN us[k] ELSE Tail(ts)[k - Len(us)]
  BY <1>1, ConcatProperties
<1> HIDE DEF ws
<1>4. \A k \in 1..Len(us) : ws[k] = us[k]
  BY <1>1, <1>2, <1>3
<1>5. ASSUME NEW k \in 2..Len(ts) PROVE ws[k + Len(us) - 1] = ts[k]
  <2>1. k + Len(us) - 1 \in 1..Len(us) + Len(Tail(ts)) /\ ~ k + Len(us) - 1 <= Len(us)
    BY <1>1, <1>2
  <2>2. ws[k + Len(us) - 1] = Tail(ts)[k + Len(us) - 1 - Len(us)]
    BY <2>1, <1>3
  <2>3. k + Len(us) - 1 - Len(us) = k - 1 /\ k - 1 \in 1..Len(Tail(ts)) /\ k - 1 + 1 = k
    BY <1>1, <1>2
  <2> QED BY <2>2, <2>3, <1>1
<1> QED BY <1>1, <1>2, <1>3, <1>4, <1>5 DEF ws

(* Each place of it is one of the new tasks, or one of the rest.           *)
LEMMA SplicedAt ==
    ASSUME NEW m \in Nat, NEW n \in Nat \ {0}, NEW k \in 1..(m + n - 1)
    PROVE  k \in 1..m \/ \E i \in 2..n : k = i + m - 1
<1>1. CASE k <= m
  BY <1>1
<1>2. CASE k > m
  <2>1. k - m + 1 \in 2..n /\ k = (k - m + 1) + m - 1
    BY <1>2
  <2> QED BY <2>1
<1> QED BY <1>1, <1>2

LEMMA SplicedChained ==
    ASSUME NEW ts \in Seq(Task), ts # <<>>, NEW us \in Seq(Task), Chained(ts), Chained(us)
    PROVE  Chained(us \o Tail(ts))
<1> DEFINE ws == us \o Tail(ts)
<1>1. /\ Len(us) \in Nat /\ Len(ts) \in Nat \ {0} /\ Len(ws) = Len(us) + Len(ts) - 1
      /\ \A k \in 1..Len(us) : ws[k] = us[k]
      /\ \A k \in 2..Len(ts) : ws[k + Len(us) - 1] = ts[k]
  BY Spliced
<1> HIDE DEF ws
<1>2. ASSUME NEW s, NEW t, NEW k \in 1..Len(ws), ws[k] = s,
             \A i \in 1..Len(us) : us[i] = s => i < Len(us) /\ us[i + 1] = t,
             \A i \in 1..Len(ts) : ts[i] = s => i < Len(ts) /\ ts[i + 1] = t
      PROVE  k < Len(ws) /\ ws[k + 1] = t
  <2>1. CASE k \in 1..Len(us)
    <3>1. k < Len(us) /\ us[k + 1] = t
      BY <2>1, <1>1, <1>2
    <3>2. k + 1 \in 1..Len(us)
      BY <3>1, <2>1, <1>1
    <3> QED BY <1>1, <3>1, <3>2
  <2>2. CASE \E i \in 2..Len(ts) : k = i + Len(us) - 1
    <3>1. PICK i \in 2..Len(ts) : k = i + Len(us) - 1
      BY <2>2
    <3>2. ts[i] = s
      BY <3>1, <1>1, <1>2
    <3>3. i \in 1..Len(ts)
      BY <1>1
    <3>4. i < Len(ts) /\ ts[i + 1] = t
      BY <3>2, <3>3, <1>2
    <3>5. i + 1 \in 2..Len(ts)
      BY <3>4, <1>1
    <3>6. ws[(i + 1) + Len(us) - 1] = ts[i + 1]
      BY <3>5, <1>1
    <3>7. k + 1 = (i + 1) + Len(us) - 1 /\ k < Len(ws)
      BY <3>1, <3>4, <1>1
    <3> QED BY <3>4, <3>6, <3>7
  <2>3. k \in 1..(Len(us) + Len(ts) - 1)
    BY <1>1
  <2>4. k \in 1..Len(us) \/ \E i \in 2..Len(ts) : k = i + Len(us) - 1
    BY <2>3, <1>1, SplicedAt
  <2> QED BY <2>1, <2>2, <2>4
<1>3. ASSUME NEW k \in 1..Len(ws), NEW d \in Devices
      PROVE  /\ ws[k] = <<"info", d>> => k < Len(ws) /\ ws[k + 1] = <<"interfaces", d>>
             /\ ws[k] = <<"interfaces", d>> => k < Len(ws) /\ ws[k + 1] = <<"enable", d>>
             /\ ws[k] = <<"enable", d>> => k < Len(ws) /\ ws[k + 1] = <<"lldp", d>>
  <2>1. ASSUME ws[k] = <<"info", d>> PROVE k < Len(ws) /\ ws[k + 1] = <<"interfaces", d>>
    <3>1. \A i \in 1..Len(us) : us[i] = <<"info", d>> => i < Len(us) /\ us[i + 1] = <<"interfaces", d>>
      BY DEF Chained
    <3>2. \A i \in 1..Len(ts) : ts[i] = <<"info", d>> => i < Len(ts) /\ ts[i + 1] = <<"interfaces", d>>
      BY DEF Chained
    <3> QED BY <1>2, <2>1, <3>1, <3>2
  <2>2. ASSUME ws[k] = <<"interfaces", d>> PROVE k < Len(ws) /\ ws[k + 1] = <<"enable", d>>
    <3>1. \A i \in 1..Len(us) : us[i] = <<"interfaces", d>> => i < Len(us) /\ us[i + 1] = <<"enable", d>>
      BY DEF Chained
    <3>2. \A i \in 1..Len(ts) : ts[i] = <<"interfaces", d>> => i < Len(ts) /\ ts[i + 1] = <<"enable", d>>
      BY DEF Chained
    <3> QED BY <1>2, <2>2, <3>1, <3>2
  <2>3. ASSUME ws[k] = <<"enable", d>> PROVE k < Len(ws) /\ ws[k + 1] = <<"lldp", d>>
    <3>1. \A i \in 1..Len(us) : us[i] = <<"enable", d>> => i < Len(us) /\ us[i + 1] = <<"lldp", d>>
      BY DEF Chained
    <3>2. \A i \in 1..Len(ts) : ts[i] = <<"enable", d>> => i < Len(ts) /\ ts[i + 1] = <<"lldp", d>>
      BY DEF Chained
    <3> QED BY <1>2, <2>3, <3>1, <3>2
  <2> QED BY <2>1, <2>2, <2>3
<1> QED BY <1>3 DEF Chained, ws

LEMMA SplicedClosed ==
    ASSUME NEW ts \in Seq(Task), ts # <<>>, NEW us \in Seq(Task), Closed(ts),
           \A k \in 1..Len(us), d \in Devices : us[k] \in {<<"device", d>>, <<"info", d>>} =>
               \/ \E j \in (k + 1)..Len(us) : us[j] = <<"neighbors", d>>
               \/ \E j \in 2..Len(ts) : ts[j] = <<"neighbors", d>>
    PROVE  Closed(us \o Tail(ts))
<1> DEFINE ws == us \o Tail(ts)
<1>1. /\ Len(us) \in Nat /\ Len(ts) \in Nat \ {0} /\ Len(ws) = Len(us) + Len(ts) - 1
      /\ \A k \in 1..Len(us) : ws[k] = us[k]
      /\ \A k \in 2..Len(ts) : ws[k + Len(us) - 1] = ts[k]
  BY Spliced
<1> HIDE DEF ws
<1>2. ASSUME NEW k \in 1..Len(ws), NEW d \in Devices, ws[k] \in {<<"device", d>>, <<"info", d>>}
      PROVE  \E j \in (k + 1)..Len(ws) : ws[j] = <<"neighbors", d>>
  <2> PICK t : t = <<"neighbors", d>>
    OBVIOUS
  <2>1. ASSUME NEW j \in 2..Len(ts), ts[j] = t, k < j + Len(us) - 1
        PROVE  \E x \in (k + 1)..Len(ws) : ws[x] = t
    <3>1. j + Len(us) - 1 \in (k + 1)..Len(ws)
      BY <2>1, <1>1
    <3>2. ws[j + Len(us) - 1] = t
      BY <2>1, <1>1
    <3> QED BY <3>1, <3>2
  <2>2. CASE k \in 1..Len(us)
    <3>1. us[k] \in {<<"device", d>>, <<"info", d>>}
      BY <1>1, <1>2, <2>2
    <3>2. CASE \E j \in (k + 1)..Len(us) : us[j] = t
      <4>1. PICK j \in (k + 1)..Len(us) : us[j] = t
        BY <3>2
      <4>2. j \in 1..Len(us) /\ j \in (k + 1)..Len(ws)
        BY <1>1
      <4> QED BY <4>1, <4>2, <1>1
    <3>3. CASE \E j \in 2..Len(ts) : ts[j] = t
      <4>1. PICK j \in 2..Len(ts) : ts[j] = t
        BY <3>3
      <4>2. k < j + Len(us) - 1
        BY <2>2, <1>1
      <4> QED BY <4>1, <4>2, <2>1
    <3> QED BY <2>2, <3>1, <3>2, <3>3
  <2>3. CASE \E i \in 2..Len(ts) : k = i + Len(us) - 1
    <3>1. PICK i \in 2..Len(ts) : k = i + Len(us) - 1
      BY <2>3
    <3>2. ts[i] \in {<<"device", d>>, <<"info", d>>} /\ i \in 1..Len(ts)
      BY <3>1, <1>1, <1>2
    <3>3. PICK j \in (i + 1)..Len(ts) : ts[j] = t
      BY <3>2 DEF Closed
    <3>4. j \in 2..Len(ts) /\ k < j + Len(us) - 1
      BY <3>1, <1>1
    <3> QED BY <3>3, <3>4, <2>1
  <2>4. k \in 1..(Len(us) + Len(ts) - 1)
    BY <1>1
  <2>5. k \in 1..Len(us) \/ \E i \in 2..Len(ts) : k = i + Len(us) - 1
    BY <2>4, <1>1, SplicedAt
  <2> QED BY <2>2, <2>3, <2>5
<1> QED BY <1>2 DEF Closed, ws

(* What a task has inserted when others take its place.                    *)
Finishes(t, us, nodes, full, read) == \A d \in Devices :
    /\ t = <<"info", d>> => d \in nodes
    /\ t \in {<<"interfaces", d>>, <<"enable", d>>} => d \in full
    /\ t \in {<<"device", d>>, <<"lldp", d>>}
        => d \in read \/ \E j \in 1..Len(us) : us[j] \in {<<"device", d>>, <<"lldp", d>>}

LEMMA SplicedPrepared ==
    ASSUME NEW ts \in Seq(Task), ts # <<>>, NEW us \in Seq(Task),
           NEW nodes, NEW full, NEW read, NEW nodes2, NEW full2, NEW read2,
           nodes \subseteq nodes2, full \subseteq full2, read \subseteq read2,
           Prepared(ts, nodes, full, read), Prepared(us, nodes2, full2, read2),
           Finishes(ts[1], us, nodes2, full2, read2)
    PROVE  Prepared(us \o Tail(ts), nodes2, full2, read2)
<1> DEFINE ws == us \o Tail(ts)
<1>1. /\ Len(us) \in Nat /\ Len(ts) \in Nat \ {0} /\ Len(ws) = Len(us) + Len(ts) - 1
      /\ \A i \in 1..Len(us) : ws[i] = us[i]
      /\ \A i \in 2..Len(ts) : ws[i + Len(us) - 1] = ts[i]
  BY Spliced
<1> HIDE DEF ws
<1>2. ASSUME NEW s, NEW t, NEW k \in 1..Len(ws), ws[k] = t, ts[1] # s,
             \A i \in 1..Len(us) : us[i] = t => i > 1 /\ us[i - 1] = s,
             \A i \in 1..Len(ts) : ts[i] = t => i > 1 /\ ts[i - 1] = s
      PROVE  k > 1 /\ ws[k - 1] = s
  <2>1. CASE k \in 1..Len(us)
    <3>1. k > 1 /\ us[k - 1] = s
      BY <1>1, <1>2, <2>1
    <3>2. k - 1 \in 1..Len(us)
      BY <1>1, <2>1, <3>1
    <3> QED BY <1>1, <3>1, <3>2
  <2>2. CASE \E i \in 2..Len(ts) : k = i + Len(us) - 1
    <3>1. PICK i \in 2..Len(ts) : k = i + Len(us) - 1
      BY <2>2
    <3>2. ts[i] = t /\ i \in 1..Len(ts)
      BY <3>1, <1>1, <1>2
    <3>3. ts[i - 1] = s
      BY <3>2, <1>2
    <3>4. i - 1 # 1
      BY <3>3, <1>2
    <3>5. i - 1 \in 2..Len(ts) /\ (i - 1) + Len(us) - 1 = k - 1 /\ k > 1
      BY <3>1, <3>4, <1>1
    <3> QED BY <3>3, <3>5, <1>1
  <2>3. k \in 1..(Len(us) + Len(ts) - 1)
    BY <1>1
  <2>4. k \in 1..Len(us) \/ \E i \in 2..Len(ts) : k = i + Len(us) - 1
    BY <2>3, <1>1, SplicedAt
  <2> QED BY <2>1, <2>2, <2>4
<1>3. ASSUME NEW k \in 1..Len(ws), NEW d \in Devices, ws[k] = <<"interfaces", d>>, d \notin nodes2
      PROVE  k > 1 /\ ws[k - 1] = <<"info", d>>
  <2>1. \A i \in 1..Len(us) : us[i] = <<"interfaces", d>>
            => i > 1 /\ us[i - 1] = <<"info", d>>
    BY <1>3 DEF Prepared
  <2>2. \A i \in 1..Len(ts) : ts[i] = <<"interfaces", d>>
            => i > 1 /\ ts[i - 1] = <<"info", d>>
    BY <1>3 DEF Prepared
  <2>3. ts[1] # <<"info", d>>
    BY <1>3 DEF Finishes
  <2>4. ws[k] = <<"interfaces", d>>
    BY <1>3
  <2> QED BY ONLY <2>1, <2>2, <2>3, <2>4, <1>2
<1>4. ASSUME NEW k \in 1..Len(ws), NEW d \in Devices, ws[k] = <<"enable", d>>, d \notin full2
      PROVE  k > 1 /\ ws[k - 1] = <<"interfaces", d>>
  <2>1. \A i \in 1..Len(us) : us[i] = <<"enable", d>>
            => i > 1 /\ us[i - 1] = <<"interfaces", d>>
    BY <1>4 DEF Prepared
  <2>2. \A i \in 1..Len(ts) : ts[i] = <<"enable", d>>
            => i > 1 /\ ts[i - 1] = <<"interfaces", d>>
    BY <1>4 DEF Prepared
  <2>3. ts[1] # <<"interfaces", d>>
    BY <1>4 DEF Finishes
  <2>4. ws[k] = <<"enable", d>>
    BY <1>4
  <2> QED BY ONLY <2>1, <2>2, <2>3, <2>4, <1>2
<1>5. ASSUME NEW k \in 1..Len(ws), NEW d \in Devices, ws[k] = <<"lldp", d>>, d \notin full2
      PROVE  k > 1 /\ ws[k - 1] = <<"enable", d>>
  <2>1. \A i \in 1..Len(us) : us[i] = <<"lldp", d>>
            => i > 1 /\ us[i - 1] = <<"enable", d>>
    BY <1>5 DEF Prepared
  <2>2. \A i \in 1..Len(ts) : ts[i] = <<"lldp", d>>
            => i > 1 /\ ts[i - 1] = <<"enable", d>>
    BY <1>5 DEF Prepared
  <2>3. ts[1] # <<"enable", d>>
    BY <1>5 DEF Finishes
  <2>4. ws[k] = <<"lldp", d>>
    BY <1>5
  <2> QED BY ONLY <2>1, <2>2, <2>3, <2>4, <1>2
<1>6. ASSUME NEW k \in 1..Len(ws), NEW d \in Devices, ws[k] = <<"neighbors", d>>, d \notin read2
      PROVE  \E j \in 1..(k - 1) : ws[j] \in {<<"device", d>>, <<"lldp", d>>}
  <2> PICK S : S = {<<"device", d>>, <<"lldp", d>>}
    OBVIOUS
  <2>1. CASE k \in 1..Len(us)
    <3>1. us[k] = <<"neighbors", d>>
      BY <2>1, <1>1, <1>6
    <3>2. PICK j \in 1..(k - 1) : us[j] \in S
      BY <2>1, <3>1, <1>6 DEF Prepared
    <3>3. j \in 1..Len(us)
      BY <2>1, <1>1
    <3> QED BY <3>2, <3>3, <1>1
  <2>2. CASE \E i \in 2..Len(ts) : k = i + Len(us) - 1
    <3>1. PICK i \in 2..Len(ts) : k = i + Len(us) - 1
      BY <2>2
    <3>2. ts[i] = <<"neighbors", d>> /\ i \in 1..Len(ts)
      BY <3>1, <1>1, <1>6
    <3>3. d \notin read
      BY <1>6
    <3>4. PICK j \in 1..(i - 1) : ts[j] \in S
      BY <3>2, <3>3 DEF Prepared
    <3>5. CASE j = 1
      <4>1. PICK x \in 1..Len(us) : us[x] \in S
        BY <3>4, <3>5, <1>6 DEF Finishes
      <4>2. x \in 1..(k - 1)
        BY <3>1, <1>1
      <4> QED BY <4>1, <4>2, <1>1
    <3>6. CASE j # 1
      <4>1. j \in 2..Len(ts) /\ j + Len(us) - 1 \in 1..(k - 1)
        BY <3>1, <3>6, <1>1
      <4>2. ws[j + Len(us) - 1] \in S
        BY <3>4, <4>1, <1>1
      <4> QED BY <4>1, <4>2
    <3> QED BY <3>5, <3>6
  <2>3. k \in 1..(Len(us) + Len(ts) - 1)
    BY <1>1
  <2>4. k \in 1..Len(us) \/ \E i \in 2..Len(ts) : k = i + Len(us) - 1
    BY <2>3, <1>1, SplicedAt
  <2> QED BY <2>1, <2>2, <2>4
<1>7. Prepared(ws, nodes2, full2, read2)
  BY <1>3, <1>4, <1>5, <1>6 DEF Prepared
<1> QED BY <1>7 DEF ws

-----------------------------------------------------------------------------
(* A thread that explores goes on with the tasks us instead of its first.  *)
Advances(c, us) ==
    /\ pc[c] = "exploring" /\ tasks[c] # <<>> /\ us \in Seq(Task)
    /\ tasks' = [tasks EXCEPT ![c] = us \o Tail(@)]
    /\ UNCHANGED <<pc, cables>>
    /\ known \subseteq known' /\ Full \subseteq Full' /\ Read \subseteq Read'

(* ... in the order of the stages ...                                      *)
InOrder(c, us) ==
    /\ Chained(us) /\ Prepared(us, known', Full', Read')
    /\ Finishes(Head(tasks[c]), us, known', Full', Read')
    /\ \A k \in 1..Len(us) : us[k][1] # "link"
    /\ \A k \in 1..Len(us), d \in Devices : us[k] \in {<<"device", d>>, <<"info", d>>} =>
           \/ \E j \in (k + 1)..Len(us) : us[j] = <<"neighbors", d>>
           \/ \E j \in 2..Len(tasks[c]) : tasks[c][j] = <<"neighbors", d>>

(* ... and forgets nobody.                                                 *)
Spreads(t, us) == \A d \in Devices :
    /\ t = <<"lldp", d>> => d \in Read'
    /\ d \in known' \ known => t = <<"info", d>>
    /\ t = <<"info", d>> => d \in known'
    /\ t = <<"device", d>> => Has(us, <<"info", d>>)
    /\ t = <<"neighbor", d>> => d \in known \/ Has(us, <<"device", d>>)
    /\ t = <<"neighbors", d>>
        => \A r \in From(cables, PortsOf(d)) : Has(us, <<"neighbor", Owner[r[2]]>>)

LEMMA TasksType == IInv => tasks \in [Clients -> Seq(Task)]
BY InvariantTypes DEF TypeOK

LEMMA AdvanceOrderly ==
    ASSUME IInv, Staged, Orderly, NEW c \in Clients, NEW us, Advances(c, us), InOrder(c, us)
    PROVE  Staged' /\ Orderly'
<1> PICK ts : ts = tasks[c]
  OBVIOUS
<1>1. ts \in Seq(Task) /\ ts # <<>> /\ us \in Seq(Task) /\ Head(ts) = ts[1]
  BY TasksType DEF Advances
<1> PICK ws : ws = us \o Tail(ts)
  OBVIOUS
<1>2. tasks'[c] = ws /\ \A x \in Clients \ {c} : tasks'[x] = tasks[x]
  BY TasksType DEF Advances
<1>3. Staged'
  <2>1. /\ Len(us) \in Nat /\ Len(ts) \in Nat \ {0} /\ Len(ws) = Len(us) + Len(ts) - 1
        /\ \A i \in 1..Len(us) : ws[i] = us[i]
        /\ \A i \in 2..Len(ts) : ws[i + Len(us) - 1] = ts[i]
    BY <1>1, Spliced
  <2>2. /\ \A k \in 1..Len(us) : us[k][1] # "link"
        /\ \A k \in 1..Len(ts) : ts[k][1] # "link"
    BY DEF InOrder, Staged, Advances
  <2>3. ASSUME NEW k \in 1..Len(ws) PROVE ws[k][1] # "link"
    <3>1. k \in 1..(Len(us) + Len(ts) - 1)
      BY <2>1
    <3>2. k \in 1..Len(us) \/ \E i \in 2..Len(ts) : k = i + Len(us) - 1
      BY <2>1, <3>1, SplicedAt
    <3>3. \A i \in 2..Len(ts) : i \in 1..Len(ts)
      BY <2>1
    <3>4. CASE k \in 1..Len(us)
      BY <2>1, <2>2, <3>4
    <3>5. CASE \E i \in 2..Len(ts) : k = i + Len(us) - 1
      <4>1. PICK i \in 2..Len(ts) : k = i + Len(us) - 1
        BY <3>5
      <4>2. ws[k] = ts[i] /\ ts[i][1] # "link"
        BY <2>1, <2>2, <3>3, <4>1
      <4> QED BY <4>2
    <3> QED BY <3>2, <3>4, <3>5
  <2>4. pc' = pc
    BY DEF Advances
  <2> QED BY <1>2, <2>3, <2>4 DEF Staged, Advances
<1>4. Chained(ws)
  BY <1>1, SplicedChained DEF Orderly, InOrder
<1>5. Closed(ws)
  <2>1. Closed(ts)
    BY DEF Orderly
  <2>2. \A k \in 1..Len(us), d \in Devices : us[k] \in {<<"device", d>>, <<"info", d>>} =>
           \/ \E j \in (k + 1)..Len(us) : us[j] = <<"neighbors", d>>
           \/ \E j \in 2..Len(ts) : ts[j] = <<"neighbors", d>>
    BY DEF InOrder
  <2> QED BY <1>1, <2>1, <2>2, SplicedClosed
<1>6. Prepared(ws, known', Full', Read')
  <2>1. Prepared(ts, known, Full, Read) /\ Prepared(us, known', Full', Read')
        /\ Finishes(ts[1], us, known', Full', Read')
    BY <1>1 DEF Orderly, InOrder
  <2>2. known \subseteq known' /\ Full \subseteq Full' /\ Read \subseteq Read'
    BY DEF Advances
  <2> QED BY <1>1, <2>1, <2>2, SplicedPrepared
<1>7. ASSUME NEW x \in Clients \ {c} PROVE Prepared(tasks[x], known', Full', Read')
  <2>1. known \subseteq known' /\ Full \subseteq Full' /\ Read \subseteq Read'
    BY DEF Advances
  <2>2. Prepared(tasks[x], known, Full, Read)
    BY DEF Orderly
  <2> QED BY <2>1, <2>2 DEF Prepared
<1>8. \A x \in Clients \ {c} : Chained(tasks[x]) /\ Closed(tasks[x])
  BY DEF Orderly
<1>9. \A x \in Clients : Chained(tasks'[x]) /\ Closed(tasks'[x])
                         /\ Prepared(tasks'[x], known', Full', Read')
  BY <1>2, <1>4, <1>5, <1>6, <1>7, <1>8
<1>10. Orderly'
  BY <1>9 DEF Orderly, Chained, Closed, Prepared
<1> QED BY <1>3, <1>10

(* What is listed remains so, but for the task at hand.                    *)
LEMMA PendingStays ==
    ASSUME IInv, NEW c \in Clients, NEW us, Advances(c, us), NEW t
    PROVE  /\ Pending(t) => t = Head(tasks[c]) \/ Pending(t)'
           /\ Has(us, t) => Pending(t)'
           /\ (\E k \in 2..Len(tasks[c]) : tasks[c][k] = t) => Pending(t)'
<1> PICK ts : ts = tasks[c]
  OBVIOUS
<1>1. ts \in Seq(Task) /\ ts # <<>> /\ us \in Seq(Task) /\ Head(ts) = ts[1]
  BY TasksType DEF Advances
<1> PICK ws : ws = us \o Tail(ts)
  OBVIOUS
<1>2. tasks'[c] = ws /\ \A x \in Clients \ {c} : tasks'[x] = tasks[x]
  BY TasksType DEF Advances
<1>3. /\ Len(us) \in Nat /\ Len(ts) \in Nat \ {0} /\ Len(ws) = Len(us) + Len(ts) - 1
      /\ \A i \in 1..Len(us) : ws[i] = us[i]
      /\ \A i \in 2..Len(ts) : ws[i + Len(us) - 1] = ts[i]
  BY <1>1, Spliced
<1>4. Has(ws, t) => Pending(t)'
  BY <1>2 DEF Pending, Has
<1>5. ASSUME NEW k \in 1..Len(us), us[k] = t PROVE Has(ws, t)
  <2>1. k \in 1..Len(ws) /\ ws[k] = t
    BY <1>3, <1>5
  <2> QED BY <2>1 DEF Has
<1>6. ASSUME NEW k \in 2..Len(ts), ts[k] = t PROVE Has(ws, t)
  <2>1. k + Len(us) - 1 \in 1..Len(ws) /\ ws[k + Len(us) - 1] = t
    BY <1>3, <1>6
  <2> QED BY <2>1 DEF Has
<1>7. ASSUME Pending(t), t # Head(ts) PROVE Pending(t)'
  <2>1. PICK x \in Clients : Has(tasks[x], t)
    BY <1>7 DEF Pending
  <2>2. CASE x # c
    BY <1>2, <2>1, <2>2 DEF Pending, Has
  <2>3. CASE x = c
    <3>1. PICK k \in 1..Len(ts) : ts[k] = t
      BY <2>1, <2>3 DEF Has
    <3>2. k \in 2..Len(ts)
      BY <1>1, <1>3, <1>7, <3>1
    <3> QED BY <1>4, <1>6, <3>1, <3>2
  <2> QED BY <2>2, <2>3
<1> QED BY <1>4, <1>5, <1>6, <1>7 DEF Has

LEMMA AdvanceSpreads ==
    ASSUME IInv, IInv', Orderly, Reading, Spreading, NEW c \in Clients, NEW us,
           Advances(c, us), Spreads(Head(tasks[c]), us)
    PROVE  Reading' /\ Spreading' /\ Linking'
<1> PICK ts : ts = tasks[c]
  OBVIOUS
<1> PICK t : t = Head(ts)
  OBVIOUS
<1>1. ts \in Seq(Task) /\ ts # <<>> /\ Len(ts) \in Nat \ {0} /\ t = ts[1]
  BY TasksType DEF Advances
<1>2. /\ known \subseteq known' /\ Read \subseteq Read' /\ cables' = cables /\ pc' = pc
      /\ known' \subseteq Devices /\ Spreads(t, us)
  BY DEF Advances, IInv, GraphOK
<1>3. /\ \A s : Pending(s) => s = t \/ Pending(s)'
      /\ \A s : Has(us, s) => Pending(s)'
      /\ \A s : (\E k \in 2..Len(ts) : ts[k] = s) => Pending(s)'
  BY PendingStays
<1>4. Chained(ts) /\ Closed(ts)
  BY DEF Orderly
<1>5. Linking'
  BY <1>2 DEF Linking, Advances
<1>6. Reading'
  <2> SUFFICES ASSUME NEW d \in known', d \notin Read' PROVE Pending(<<"lldp", d>>)'
    BY DEF Reading
  <2>1. d \in Devices
    BY <1>2
  <2>2. CASE d \in known
    <3>1. Pending(<<"lldp", d>>)
      BY <1>2, <2>2 DEF Reading
    <3>2. t # <<"lldp", d>>
      BY <1>2, <2>1 DEF Spreads
    <3> QED BY <1>3, <3>1, <3>2
  <2>3. CASE d \notin known
    <3>1. ts[1] = <<"info", d>>
      BY <1>1, <1>2, <2>1, <2>3 DEF Spreads
    <3>2. 1 < Len(ts) /\ ts[2] = <<"interfaces", d>>
      BY <1>1, <1>4, <2>1, <3>1 DEF Chained
    <3>3. 2 < Len(ts) /\ ts[3] = <<"enable", d>>
      BY <1>1, <1>4, <2>1, <3>2 DEF Chained
    <3>4. 3 < Len(ts) /\ ts[4] = <<"lldp", d>>
      BY <1>1, <1>4, <2>1, <3>3 DEF Chained
    <3>5. 4 \in 2..Len(ts)
      BY <1>1, <3>4
    <3> QED BY <1>3, <3>4, <3>5
  <2> QED BY <2>2, <2>3
<1>7. Spreading'
  <2> SUFFICES ASSUME NEW r \in cables', r[1] \in Ports, Owner[r[1]] \in known',
                      Owner[r[2]] \notin known'
               PROVE  \/ Pending(<<"neighbors", Owner[r[1]]>>)'
                      \/ \E stage \in {"neighbor", "device", "info"} :
                            Pending(<<stage, Owner[r[2]]>>)'
    BY DEF Spreading, From
  <2> PICK a, b : a = Owner[r[1]] /\ b = Owner[r[2]]
    OBVIOUS
  <2>1. a \in Devices /\ b \in Devices /\ r \in cables /\ r \in From(cables, PortsOf(a))
    <3>1. r \in cables /\ r[2] \in Ports
      BY <1>2 DEF IInv, Wired, NetOK
    <3>2. a \in Devices /\ b \in Devices
      BY <3>1, PortsAssumption
    <3> QED BY <3>1, <3>2 DEF From, PortsOf
  <2>2. b \notin known
    BY <1>2
  <2>3. CASE a \in known
    <3>1. \/ Pending(<<"neighbors", a>>)
          \/ \E stage \in {"neighbor", "device", "info"} : Pending(<<stage, b>>)
      BY <2>1, <2>2, <2>3 DEF Spreading, From
    <3>2. CASE Pending(<<"neighbors", a>>)
      <4>1. t = <<"neighbors", a>> => Has(us, <<"neighbor", b>>)
        BY <1>2, <2>1 DEF Spreads
      <4> QED BY <1>3, <3>2, <4>1
    <3>3. CASE Pending(<<"neighbor", b>>)
      <4>1. t = <<"neighbor", b>> => Has(us, <<"device", b>>)
        BY <1>2, <2>1, <2>2 DEF Spreads
      <4> QED BY <1>3, <3>3, <4>1
    <3>4. CASE Pending(<<"device", b>>)
      <4>1. t = <<"device", b>> => Has(us, <<"info", b>>)
        BY <1>2, <2>1, <2>2 DEF Spreads
      <4> QED BY <1>3, <3>4, <4>1
    <3>5. CASE Pending(<<"info", b>>)
      <4>1. t # <<"info", b>>
        BY <1>2, <2>1 DEF Spreads
      <4> QED BY <1>3, <3>5, <4>1
    <3> QED BY <3>1, <3>2, <3>3, <3>4, <3>5
  <2>4. CASE a \notin known
    <3>1. ts[1] = <<"info", a>>
      BY <1>1, <1>2, <2>1, <2>4 DEF Spreads
    <3>2. ts[1] \in {<<"device", a>>, <<"info", a>>} /\ 1 \in 1..Len(ts)
      BY <1>1, <3>1
    <3>3. \E j \in (1 + 1)..Len(ts) : ts[j] = <<"neighbors", a>>
      BY ONLY <1>4, <2>1, <3>2 DEF Closed
    <3>4. 1 + 1 = 2
      OBVIOUS
    <3> QED BY <1>3, <3>3, <3>4
  <2> QED BY <2>3, <2>4
<1> QED BY <1>5, <1>6, <1>7

LEMMA Advance ==
    ASSUME IInv, IInv', smooth, SmoothInv, NEW c \in Clients, NEW us,
           Advances(c, us), InOrder(c, us), Spreads(Head(tasks[c]), us), Calm'
    PROVE  SmoothInv'
<1>1. Staged' /\ Orderly'
  BY AdvanceOrderly DEF SmoothInv
<1>2. Reading' /\ Spreading' /\ Linking'
  BY AdvanceSpreads DEF SmoothInv
<1> QED BY <1>1, <1>2 DEF SmoothInv

LEMMA TaskParts ==
    ASSUME NEW s, NEW d, NEW s2, NEW d2
    PROVE  <<s, d>> = <<s2, d2>> <=> s = s2 /\ d = d2
OBVIOUS

(* The task at hand of a thread that explores.                             *)
LEMMA AtExploring ==
    ASSUME IInv, Staged, NEW c \in Clients, NEW d, NEW stage \in Stages \ {"link"},
           At(c, stage, d)
    PROVE  /\ pc[c] = "exploring" /\ tasks[c] # <<>> /\ 1 \in 1..Len(tasks[c])
           /\ Head(tasks[c]) = <<stage, d>> /\ tasks[c][1] = <<stage, d>>
<1> PICK ts : ts = tasks[c]
  OBVIOUS
<1>1. ts \in Seq(Task) /\ ts # <<>> /\ Head(ts) = <<stage, d>>
  BY TasksType DEF At
<1>2. 1 \in 1..Len(ts) /\ ts[1] = <<stage, d>>
  BY <1>1
<1>3. <<stage, d>>[1] = stage
  OBVIOUS
<1>4. pc[c] = "exploring"
  BY <1>2, <1>3 DEF Staged
<1> QED BY <1>1, <1>2, <1>4

(* What the task at hand needs is there.                                   *)
LEMMA AtPrepared ==
    ASSUME Orderly, NEW c \in Clients, NEW d \in Devices, 1 \in 1..Len(tasks[c])
    PROVE  /\ tasks[c][1] = <<"interfaces", d>> => d \in known
           /\ tasks[c][1] \in {<<"enable", d>>, <<"lldp", d>>} => d \in Full
           /\ tasks[c][1] = <<"neighbors", d>> => d \in Read
<1> PICK ts : ts = tasks[c]
  OBVIOUS
<1>1. Prepared(ts, known, Full, Read) /\ 1 \in 1..Len(ts) /\ ~ 1 > 1 /\ 1..(1 - 1) = {}
  BY DEF Orderly
<1>2. ts[1] = <<"interfaces", d>> => d \in known
  BY <1>1 DEF Prepared
<1>3. ts[1] \in {<<"enable", d>>, <<"lldp", d>>} => d \in Full
  BY <1>1 DEF Prepared
<1>4. ts[1] = <<"neighbors", d>> => d \in Read
  BY <1>1 DEF Prepared
<1> QED BY <1>2, <1>3, <1>4

LEMMA DoneAdvances ==
    ASSUME IInv, NEW c \in Clients, pc[c] = "exploring", tasks[c] # <<>>, Done(c),
           UNCHANGED <<pc, cables>>,
           known \subseteq known', Full \subseteq Full', Read \subseteq Read',
           Finishes(Head(tasks[c]), <<>>, known', Full', Read')
    PROVE  Advances(c, <<>>) /\ InOrder(c, <<>>)
<1>1. <<>> \in Seq(Task) /\ Len(<<>>) = 0 /\ 1..0 = {}
  OBVIOUS
<1>2. Tail(tasks[c]) = <<>> \o Tail(tasks[c])
  <2>1. Tail(tasks[c]) \in Seq(Task)
    BY TasksType, HeadTailProperties
  <2> QED BY <2>1, ConcatEmptySeq
<1>3. Advances(c, <<>>)
  BY <1>1, <1>2, TasksType DEF Advances, Done
<1>4. InOrder(c, <<>>)
  BY <1>1 DEF InOrder, Chained, Prepared
<1> QED BY <1>3, <1>4

LEMMA StillThere ==
    ASSUME UNCHANGED <<known, ports, told, cables>>
    PROVE  known' = known /\ Full' = Full /\ Read' = Read
BY DEF Full, Read

LEMMA EnableSmooth ==
    ASSUME IInv, IInv', smooth, smooth', SmoothInv, NEW c \in Clients, NEW d \in Devices,
           enable_all_ifs(c, d)
    PROVE  SmoothInv'
<1>1. At(c, "enable", d) /\ Done(c) /\ UNCHANGED <<power, cables, heard, graph, pc, wired>>
  BY DEF enable_all_ifs
<1>2. /\ pc[c] = "exploring" /\ tasks[c] # <<>> /\ 1 \in 1..Len(tasks[c])
      /\ Head(tasks[c]) = <<"enable", d>> /\ tasks[c][1] = <<"enable", d>>
  BY <1>1, AtExploring DEF Stages, SmoothInv
<1>3. known' = known /\ Full' = Full /\ Read' = Read
  BY <1>1, StillThere DEF graph
<1>4. d \in Full
  BY <1>2, AtPrepared DEF SmoothInv
<1>5. Finishes(<<"enable", d>>, <<>>, known', Full', Read')
  BY <1>3, <1>4, TaskParts DEF Finishes
<1>6. Advances(c, <<>>) /\ InOrder(c, <<>>)
  BY <1>1, <1>2, <1>3, <1>5, DoneAdvances
<1>7. Spreads(<<"enable", d>>, <<>>)
  BY <1>3, TaskParts DEF Spreads
<1>8. Calm'
  BY <1>1 DEF SmoothInv, Calm, graph
<1> QED BY <1>2, <1>6, <1>7, <1>8, Advance

LEMMA InfoSmooth ==
    ASSUME IInv, IInv', smooth, SmoothInv, NEW c \in Clients, NEW d \in Devices,
           discover_device_basic_system_details(c, d)
    PROVE  SmoothInv'
<1>1. /\ At(c, "info", d) /\ Done(c) /\ known' = known \cup {d}
      /\ UNCHANGED <<device, ports, told, links, pc, wired, smooth>>
  BY DEF discover_device_basic_system_details
<1>2. /\ pc[c] = "exploring" /\ tasks[c] # <<>>
      /\ Head(tasks[c]) = <<"info", d>>
  BY <1>1, AtExploring DEF Stages, SmoothInv
<1>3. known \subseteq known' /\ Full \subseteq Full' /\ Read \subseteq Read'
  BY <1>1 DEF Full, Read, device
<1>4. Finishes(<<"info", d>>, <<>>, known', Full', Read')
  BY <1>1, TaskParts DEF Finishes
<1>5. Advances(c, <<>>) /\ InOrder(c, <<>>)
  BY <1>1, <1>2, <1>3, <1>4, DoneAdvances DEF device
<1>6. Spreads(<<"info", d>>, <<>>)
  BY <1>1, TaskParts DEF Spreads
<1>7. unready' = {}
  BY DEF discover_device_basic_system_details, SmoothInv, Calm
<1>8. Calm'
  BY <1>1, <1>7 DEF SmoothInv, Calm, device
<1> QED BY <1>2, <1>5, <1>6, <1>8, Advance

LEMMA InterfacesSmooth ==
    ASSUME IInv, IInv', smooth, SmoothInv, NEW c \in Clients, NEW d \in Devices,
           discover_interfaces(c, d)
    PROVE  SmoothInv'
<1>1. /\ At(c, "interfaces", d) /\ Done(c) /\ d \in known
      /\ ports' = ports \cup PortsOf(d)
      /\ UNCHANGED <<device, known, unready, told, links, pc, wired>>
  BY DEF discover_interfaces, history
<1>2. /\ pc[c] = "exploring" /\ tasks[c] # <<>>
      /\ Head(tasks[c]) = <<"interfaces", d>>
  BY <1>1, AtExploring DEF Stages, SmoothInv
<1>3. known \subseteq known' /\ Full \subseteq Full' /\ Read \subseteq Read' /\ d \in Full'
  BY <1>1 DEF Full, Read, device
<1>4. Finishes(<<"interfaces", d>>, <<>>, known', Full', Read')
  BY <1>3, TaskParts DEF Finishes
<1>5. Advances(c, <<>>) /\ InOrder(c, <<>>)
  BY <1>1, <1>2, <1>3, <1>4, DoneAdvances DEF device
<1>6. Spreads(<<"interfaces", d>>, <<>>)
  BY <1>1, TaskParts DEF Spreads
<1>7. Calm'
  BY <1>1 DEF SmoothInv, Calm, device
<1> QED BY <1>2, <1>5, <1>6, <1>7, Advance

(* The tables of a smooth discovery are read to the end, and what the DB   *)
(* already has stays.                                                      *)
LEMMA LldpSmooth ==
    ASSUME Readable, IInv, IInv', smooth, smooth', SmoothInv,
           NEW c \in Clients, NEW d \in Devices, discover_lldp_info(c, d)
    PROVE  SmoothInv'
<1>1. /\ At(c, "lldp", d) /\ Done(c)
      /\ UNCHANGED <<device, known, unready, ports, links, pc, met, wired>>
      /\ From(heard, PortsOf(d)) = From(cables, PortsOf(d))
  BY DEF discover_lldp_info
<1>2. /\ pc[c] = "exploring" /\ tasks[c] # <<>> /\ 1 \in 1..Len(tasks[c])
      /\ Head(tasks[c]) = <<"lldp", d>> /\ tasks[c][1] = <<"lldp", d>>
  BY <1>1, AtExploring DEF Stages, SmoothInv
<1>3. d \in Full
  BY <1>2, AtPrepared DEF SmoothInv
<1>4. ASSUME NEW p PROVE ~ Unreadable(p)
  <2>1. heard \subseteq cables /\ cables \in Cablings
    BY DEF SmoothInv, Calm, IInv, Wired
  <2> QED BY <2>1 DEF Readable, Unreadable, From
<1>5. told' = (told \ From(told, {r[1] : r \in From(heard, PortsOf(d))})) \cup From(heard, PortsOf(d))
  <2>1. PICK ps \in SUBSET {p \in PortsOf(d) : ~ Unreadable(p)} :
            /\ (\A p \in PortsOf(d) : ~ Unreadable(p)) => ps = PortsOf(d)
            /\ told' = (told \ From(told, {r[1] : r \in From(heard, ps \cap ports)}))
                       \cup From(heard, ps \cap ports)
    BY DEF discover_lldp_info
  <2>2. ps \cap ports = PortsOf(d)
    BY <1>3, <1>4, <2>1 DEF Full
  <2> QED BY <2>1, <2>2
<1>6. From(cables, PortsOf(d)) \subseteq told'
  BY <1>1, <1>5
<1>7. told \subseteq told'
  <2> SUFFICES ASSUME NEW r \in told, r \notin told' PROVE FALSE
    OBVIOUS
  <2>1. r \in From(told, {q[1] : q \in From(heard, PortsOf(d))})
    BY <1>5
  <2>2. PICK q \in From(heard, PortsOf(d)) : r[1] = q[1]
    BY <2>1 DEF From
  <2>3. r[1] \in PortsOf(d)
    BY <2>2 DEF From
  <2>4. r \in cables
    BY DEF SmoothInv, Calm, IInv, Wired
  <2> QED BY <1>6, <2>3, <2>4 DEF From
<1>8. known' = known /\ Full' = Full /\ Read \subseteq Read' /\ d \in Read'
  <2>1. UNCHANGED <<known, ports, cables>>
    BY <1>1 DEF device
  <2>2. Full' = Full
    BY <2>1 DEF Full
  <2> QED BY <1>3, <1>6, <1>7, <2>1, <2>2 DEF Read
<1>9. Finishes(<<"lldp", d>>, <<>>, known', Full', Read')
  BY <1>8, TaskParts DEF Finishes
<1>10. Advances(c, <<>>) /\ InOrder(c, <<>>)
  BY <1>1, <1>2, <1>8, <1>9, DoneAdvances DEF device
<1>11. Spreads(<<"lldp", d>>, <<>>)
  BY <1>8, TaskParts DEF Spreads
<1>12. Calm'
  BY <1>1 DEF SmoothInv, Calm, device
<1> QED BY <1>2, <1>10, <1>11, <1>12, Advance

(* While nothing fails, every device that is asked answers.                *)
LEMMA FailsNever ==
    ASSUME IInv, smooth, smooth', SmoothInv, NEW c \in Clients, NEW d \in Devices,
           discover_nw_features_fails(c, d)
    PROVE  FALSE
<1>1. PICK stage \in {"info", "interfaces", "lldp"} :
          /\ At(c, stage, d)
          /\ \/ ~ Answers(d) /\ NoTrouble
             \/ stage = "interfaces" /\ d \notin known /\ NoTrouble
             \/ Trouble
  BY DEF discover_nw_features_fails
<1>2. ~ Trouble /\ Answers(d)
  BY DEF Trouble, Answers, SmoothInv, Calm
<1>3. stage = "interfaces" /\ d \notin known
  BY <1>1, <1>2
<1>4. 1 \in 1..Len(tasks[c]) /\ tasks[c][1] = <<"interfaces", d>>
  BY <1>1, <1>3, AtExploring DEF Stages, SmoothInv
<1> QED BY <1>3, <1>4, AtPrepared DEF SmoothInv

(* Steps that only put other tasks in the place of one.                    *)
LEMMA InsteadAdvances ==
    ASSUME IInv, NEW c \in Clients, pc[c] = "exploring", tasks[c] # <<>>, NEW us \in Seq(Task),
           Instead(c, us), UNCHANGED <<device, graph, pc, troubles, history>>, SmoothInv, smooth
    PROVE  /\ Advances(c, us) /\ Calm'
           /\ known' = known /\ Full' = Full /\ Read' = Read
<1>1. UNCHANGED <<known, ports, told, cables, power, unready, heard, wired, pc>>
  BY DEF device, graph, history
<1>2. known' = known /\ Full' = Full /\ Read' = Read
  BY <1>1, StillThere
<1>3. Calm'
  BY <1>1 DEF SmoothInv, Calm
<1> QED BY <1>1, <1>2, <1>3 DEF Advances, Instead

LEMMA DeviceSmooth ==
    ASSUME IInv, IInv', smooth, SmoothInv, NEW c \in Clients, NEW d \in Devices,
           _discover_device_and_enable_ifs(c, d)
    PROVE  SmoothInv'
<1> PICK us : us = << <<"info", d>>, <<"interfaces", d>>, <<"enable", d>>, <<"lldp", d>> >>
  OBVIOUS
<1>1. At(c, "device", d) /\ Instead(c, us) /\ UNCHANGED <<device, graph, pc, troubles, history>>
  BY DEF _discover_device_and_enable_ifs, SmoothInv, Calm
<1>2. /\ pc[c] = "exploring" /\ tasks[c] # <<>> /\ 1 \in 1..Len(tasks[c])
      /\ Head(tasks[c]) = <<"device", d>> /\ tasks[c][1] = <<"device", d>>
  BY <1>1, AtExploring DEF Stages, SmoothInv
<1>3. /\ us \in Seq(Task) /\ Len(us) = 4 /\ 1..Len(us) = {1, 2, 3, 4}
      /\ us[1] = <<"info", d>> /\ us[2] = <<"interfaces", d>>
      /\ us[3] = <<"enable", d>> /\ us[4] = <<"lldp", d>>
  <2>1. /\ <<"info", d>> \in Task /\ <<"interfaces", d>> \in Task
        /\ <<"enable", d>> \in Task /\ <<"lldp", d>> \in Task
    BY DEF Task, Stages
  <2>2. us \in Seq(Task) /\ Len(us) = 4
    BY <2>1
  <2>3. 1..4 = {1, 2, 3, 4}
    OBVIOUS
  <2> QED BY <2>2, <2>3
<1>4. Advances(c, us) /\ Calm' /\ known' = known /\ Full' = Full /\ Read' = Read
  BY <1>1, <1>2, <1>3, InsteadAdvances
<1>5. Chained(us)
  BY <1>3, TaskParts DEF Chained
<1>6. Prepared(us, known', Full', Read')
  BY <1>3, TaskParts DEF Prepared
<1>7. Finishes(<<"device", d>>, us, known', Full', Read')
  <2>1. 4 \in 1..Len(us) /\ us[4] \in {<<"device", d>>, <<"lldp", d>>}
    BY <1>3
  <2> QED BY <2>1, TaskParts DEF Finishes
<1>8. \A k \in 1..Len(us) : us[k][1] # "link"
  BY <1>3
<1>9. \E j \in 2..Len(tasks[c]) : tasks[c][j] = <<"neighbors", d>>
  <2> PICK ts : ts = tasks[c]
    OBVIOUS
  <2>1. Closed(ts) /\ 1 \in 1..Len(ts) /\ ts[1] \in {<<"device", d>>, <<"info", d>>}
    BY <1>2 DEF SmoothInv, Orderly
  <2>2. \E j \in (1 + 1)..Len(ts) : ts[j] = <<"neighbors", d>>
    BY ONLY <2>1 DEF Closed
  <2>3. 1 + 1 = 2
    OBVIOUS
  <2> QED BY <2>2, <2>3
<1>10. \A k \in 1..Len(us), e \in Devices : us[k] \in {<<"device", e>>, <<"info", e>>} => e = d
  BY <1>3, TaskParts
<1>11. InOrder(c, us)
  BY <1>2, <1>5, <1>6, <1>7, <1>8, <1>9, <1>10 DEF InOrder
<1>12. Has(us, <<"info", d>>)
  BY <1>3 DEF Has
<1>13. Spreads(<<"device", d>>, us)
  BY <1>4, <1>12, TaskParts DEF Spreads
<1> QED BY <1>2, <1>4, <1>11, <1>13, Advance

(* The tasks of a discovery.                                               *)
LEMMA DiscoveryTasks ==
    ASSUME NEW ds \in Seq(Devices)
    PROVE  LET us == _discover_device_and_lldp_info(ds)
           IN  /\ us \in Seq(Task) /\ Len(ds) \in Nat /\ Len(us) = Len(ds) + Len(ds)
               /\ \A k \in 1..Len(ds) : us[k] = <<"device", ds[k]>>
               /\ \A k \in 1..Len(ds) : us[k + Len(ds)] = <<"neighbors", ds[k]>>
<1> DEFINE a == Each("device", ds) b == Each("neighbors", ds)
<1>1. /\ a \in Seq(Task) /\ Len(a) = Len(ds) /\ \A k \in 1..Len(ds) : a[k] = <<"device", ds[k]>>
  BY EachTask DEF Stages
<1>2. /\ b \in Seq(Task) /\ Len(b) = Len(ds)
      /\ \A k \in 1..Len(ds) : b[k] = <<"neighbors", ds[k]>>
  BY EachTask DEF Stages
<1>3. Len(ds) \in Nat
  OBVIOUS
<1> HIDE DEF a, b
<1> PICK us : us = a \o b
  OBVIOUS
<1>4. /\ us \in Seq(Task) /\ Len(us) = Len(a) + Len(b)
      /\ \A k \in 1..Len(a) + Len(b) : us[k] = IF k <= Len(a) THEN a[k] ELSE b[k - Len(a)]
  BY <1>1, <1>2, ConcatProperties
<1>5. ASSUME NEW k \in 1..Len(ds) PROVE us[k] = <<"device", ds[k]>>
  BY <1>1, <1>2, <1>3, <1>4
<1>6. ASSUME NEW k \in 1..Len(ds) PROVE us[k + Len(ds)] = <<"neighbors", ds[k]>>
  <2>1. k + Len(ds) \in 1..Len(a) + Len(b) /\ ~ k + Len(ds) <= Len(a) /\ k + Len(ds) - Len(a) = k
    BY <1>1, <1>2, <1>3
  <2> QED BY <1>2, <1>4, <2>1
<1>7. us = _discover_device_and_lldp_info(ds)
  BY DEF a, b, _discover_device_and_lldp_info
<1>8. Len(us) = Len(ds) + Len(ds)
  BY <1>1, <1>2, <1>4
<1> QED BY <1>3, <1>4, <1>5, <1>6, <1>7, <1>8

LEMMA DiscoveryInOrder ==
    ASSUME NEW ds \in Seq(Devices), NEW nodes, NEW full, NEW read
    PROVE  LET us == _discover_device_and_lldp_info(ds)
           IN  /\ us \in Seq(Task) /\ Chained(us) /\ Closed(us) /\ Prepared(us, nodes, full, read)
               /\ \A k \in 1..Len(us) : us[k][1] # "link"
<1> PICK us : us = _discover_device_and_lldp_info(ds)
  OBVIOUS
<1> PICK n : n = Len(ds)
  OBVIOUS
<1>1. /\ us \in Seq(Task) /\ n \in Nat /\ Len(us) = n + n
      /\ \A k \in 1..n : us[k] = <<"device", ds[k]>>
      /\ \A k \in 1..n : us[k + n] = <<"neighbors", ds[k]>>
  BY DiscoveryTasks
<1>2. ASSUME NEW k \in 1..Len(us)
      PROVE  \/ k \in 1..n /\ us[k] = <<"device", ds[k]>>
             \/ k > n /\ k - n \in 1..n /\ us[k] = <<"neighbors", ds[k - n]>>
  <2>1. CASE k <= n
    BY <1>1, <2>1
  <2>2. CASE k > n
    <3>1. k - n \in 1..n /\ (k - n) + n = k
      BY <1>1, <2>2
    <3> QED BY <1>1, <2>2, <3>1
  <2> QED BY <1>1, <2>1, <2>2
<1>3. ASSUME NEW k \in 1..Len(us), NEW s \in Stages \ {"device", "neighbors"}, NEW d
      PROVE  us[k] # <<s, d>>
  BY <1>2, TaskParts
<1>4. Chained(us)
  BY <1>3 DEF Chained, Stages
<1>5. Closed(us)
  <2> SUFFICES ASSUME NEW k \in 1..Len(us), NEW d \in Devices,
                      us[k] \in {<<"device", d>>, <<"info", d>>}
               PROVE  \E j \in (k + 1)..Len(us) : us[j] = <<"neighbors", d>>
    BY DEF Closed
  <2>1. us[k] = <<"device", d>>
    BY <1>3 DEF Stages
  <2>2. k \in 1..n /\ ds[k] = d
    BY <1>2, <2>1, TaskParts
  <2>3. k + n \in (k + 1)..Len(us)
    BY <1>1, <2>2
  <2> QED BY <1>1, <2>2, <2>3
<1>6. Prepared(us, nodes, full, read)
  <2>1. ASSUME NEW k \in 1..Len(us), NEW d \in Devices, us[k] = <<"neighbors", d>>
        PROVE  \E j \in 1..(k - 1) : us[j] \in {<<"device", d>>, <<"lldp", d>>}
    <3>1. k > n /\ k - n \in 1..n /\ ds[k - n] = d
      BY <1>2, <2>1, TaskParts
    <3>2. k - n \in 1..(k - 1)
      BY <1>1, <3>1
    <3> QED BY <1>1, <3>1, <3>2
  <2> QED BY <1>3, <2>1 DEF Prepared, Stages
<1>7. \A k \in 1..Len(us) : us[k][1] # "link"
  <2> SUFFICES ASSUME NEW k \in 1..Len(us) PROVE us[k][1] # "link"
    OBVIOUS
  <2>1. <<"device", ds[k]>>[1] = "device" /\ <<"neighbors", ds[k - n]>>[1] = "neighbors"
    OBVIOUS
  <2>2. us[k] = <<"device", ds[k]>> \/ us[k] = <<"neighbors", ds[k - n]>>
    BY <1>2
  <2> QED BY <2>1, <2>2
<1> QED BY <1>1, <1>4, <1>5, <1>6, <1>7

LEMMA NeighborSmooth ==
    ASSUME IInv, IInv', smooth, SmoothInv, NEW c \in Clients, NEW d \in Devices,
           discover_neighbor(c, d)
    PROVE  SmoothInv'
<1>1. At(c, "neighbor", d) /\ UNCHANGED <<device, graph, pc, troubles, history>>
  BY DEF discover_neighbor
<1>2. /\ pc[c] = "exploring" /\ tasks[c] # <<>>
      /\ Head(tasks[c]) = <<"neighbor", d>>
  BY <1>1, AtExploring DEF Stages, SmoothInv
<1>3. CASE d \in known /\ Done(c)
  <2>1. UNCHANGED <<power, cables, heard, known, unready, ports, told, pc, wired>>
    BY <1>1 DEF device, graph, history
  <2>2. known' = known /\ Full' = Full /\ Read' = Read
    BY <2>1, StillThere
  <2>3. Finishes(<<"neighbor", d>>, <<>>, known', Full', Read')
    BY TaskParts DEF Finishes
  <2>4. Advances(c, <<>>) /\ InOrder(c, <<>>)
    BY <1>2, <1>3, <2>1, <2>2, <2>3, DoneAdvances
  <2>5. Spreads(<<"neighbor", d>>, <<>>)
    BY <1>3, <2>2, TaskParts DEF Spreads
  <2>6. Calm'
    BY <2>1 DEF SmoothInv, Calm
  <2> QED BY <1>2, <2>4, <2>5, <2>6, Advance
<1>4. CASE Instead(c, _discover_device_and_lldp_info(<<d>>))
  <2> PICK us : us = _discover_device_and_lldp_info(<<d>>)
    OBVIOUS
  <2>1. <<d>> \in Seq(Devices) /\ Len(<<d>>) = 1 /\ 1 \in 1..1 /\ <<d>>[1] = d
    OBVIOUS
  <2>2. /\ us \in Seq(Task) /\ Chained(us) /\ Closed(us) /\ Prepared(us, known', Full', Read')
        /\ \A k \in 1..Len(us) : us[k][1] # "link"
    BY <2>1, DiscoveryInOrder
  <2>3. Len(us) = 1 + 1 /\ us[1] = <<"device", d>>
    BY <2>1, DiscoveryTasks
  <2>4. Advances(c, us) /\ Calm' /\ known' = known /\ Full' = Full /\ Read' = Read
    BY <1>1, <1>2, <1>4, <2>2, InsteadAdvances
  <2>5. Finishes(<<"neighbor", d>>, us, known', Full', Read')
    BY TaskParts DEF Finishes
  <2>6. InOrder(c, us)
    BY <1>2, <2>2, <2>5 DEF InOrder, Closed
  <2>7. Has(us, <<"device", d>>)
    BY <2>3 DEF Has
  <2>8. Spreads(<<"neighbor", d>>, us)
    BY <2>4, <2>7, TaskParts DEF Spreads
  <2> QED BY <1>2, <2>4, <2>6, <2>8, Advance
<1> QED BY <1>3, <1>4 DEF discover_neighbor

LEMMA NeighborsSmooth ==
    ASSUME IInv, IInv', smooth, SmoothInv, NEW c \in Clients, NEW d \in Devices,
           get_all_lldp_neighbor_device_ips(c, d)
    PROVE  SmoothInv'
<1> PICK S : S = {Owner[r[2]] : r \in From(told, ports \cap PortsOf(d))}
  OBVIOUS
<1>1. PICK order \in Orders(S) : Instead(c, Each("neighbor", order))
  BY DEF get_all_lldp_neighbor_device_ips
<1>2. At(c, "neighbors", d) /\ UNCHANGED <<device, graph, pc, troubles, history>>
  BY DEF get_all_lldp_neighbor_device_ips
<1>3. /\ pc[c] = "exploring" /\ tasks[c] # <<>> /\ 1 \in 1..Len(tasks[c])
      /\ Head(tasks[c]) = <<"neighbors", d>> /\ tasks[c][1] = <<"neighbors", d>>
  BY <1>2, AtExploring DEF Stages, SmoothInv
<1>4. S \subseteq Devices
  BY PortsAssumption DEF IInv, GraphOK, From
<1>5. order \in Seq(Devices)
  BY <1>4, OrdersType, SeqMonotonic
<1> PICK us : us = Each("neighbor", order)
  OBVIOUS
<1>6. /\ us \in Seq(Task) /\ Len(us) = Len(order)
      /\ \A k \in 1..Len(order) : us[k] = <<"neighbor", order[k]>>
  BY <1>5, EachTask DEF Stages
<1>7. Advances(c, us) /\ Calm' /\ known' = known /\ Full' = Full /\ Read' = Read
  BY <1>1, <1>2, <1>3, <1>6, InsteadAdvances
<1>8. ASSUME NEW k \in 1..Len(us), NEW s, NEW e, s # "neighbor" PROVE us[k] # <<s, e>>
  BY <1>6, <1>8, TaskParts
<1>9. Chained(us) /\ Prepared(us, known', Full', Read')
  BY <1>8 DEF Chained, Prepared
<1>10. Finishes(<<"neighbors", d>>, us, known', Full', Read')
  BY TaskParts DEF Finishes
<1>11. \A k \in 1..Len(us) : us[k][1] # "link"
  BY <1>6
<1>12. InOrder(c, us)
  <2>1. \A k \in 1..Len(us), e \in Devices : us[k] \notin {<<"device", e>>, <<"info", e>>}
    BY <1>8
  <2> QED BY <1>3, <1>9, <1>10, <1>11, <2>1 DEF InOrder
<1>13. d \in Read
  BY <1>3, AtPrepared DEF SmoothInv
<1>14. ASSUME NEW r \in From(cables, PortsOf(d)) PROVE Has(us, <<"neighbor", Owner[r[2]]>>)
  <2>1. r \in told /\ r[1] \in ports
    BY <1>13 DEF Read, Full, From
  <2>2. Owner[r[2]] \in S
    BY <2>1 DEF From
  <2> PICK b \in S : b = Owner[r[2]]
    BY <2>2
  <2>3. PICK k \in 1..Len(order) : order[k] = b
    <3>1. S \in SUBSET Devices
      BY <1>4
    <3> QED BY ONLY <3>1, OrdersCover
  <2> QED BY <1>6, <2>3 DEF Has
<1>15. Spreads(<<"neighbors", d>>, us)
  BY <1>7, <1>14, TaskParts DEF Spreads
<1> QED BY <1>3, <1>7, <1>12, <1>15, Advance

(* Steps of a thread that does not explore.                                *)

LEMMA LinksInOrder ==
    ASSUME NEW ts, \A k \in 1..Len(ts) : ts[k][1] = "link", NEW nodes, NEW full, NEW read
    PROVE  Chained(ts) /\ Closed(ts) /\ Prepared(ts, nodes, full, read)
<1>1. ASSUME NEW k \in 1..Len(ts), NEW s, NEW d, s # "link" PROVE ts[k] # <<s, d>>
  BY <1>1
<1> QED BY <1>1 DEF Chained, Closed, Prepared

LEMMA OtherOrderly ==
    ASSUME IInv, Orderly, NEW c \in Clients, NEW ts, tasks' = [tasks EXCEPT ![c] = ts],
           UNCHANGED <<known, ports, told, cables>>,
           Chained(ts) /\ Closed(ts) /\ Prepared(ts, known, Full, Read)
    PROVE  Orderly'
<1>1. known' = known /\ Full' = Full /\ Read' = Read
  BY StillThere
<1>2. \A x \in Clients : Chained(tasks'[x]) /\ Closed(tasks'[x])
                         /\ Prepared(tasks'[x], known, Full, Read)
  BY TasksType DEF Orderly
<1>3. \A x \in Clients : Chained(tasks'[x]) /\ Closed(tasks'[x])
                         /\ Prepared(tasks'[x], known', Full', Read')
  BY <1>1, <1>2
<1> QED BY <1>3 DEF Orderly, Chained, Closed, Prepared

(* Its tasks are no news to the others.                                    *)
LEMMA OtherSpreads ==
    ASSUME IInv, Staged, Reading, Spreading, NEW c \in Clients, NEW ts,
           tasks' = [tasks EXCEPT ![c] = ts],
           UNCHANGED <<known, ports, told, cables>>, pc[c] # "exploring"
    PROVE  Reading' /\ Spreading'
<1>1. ASSUME NEW s, NEW d, s # "link", Pending(<<s, d>>) PROVE Pending(<<s, d>>)'
  <2> PICK t : t = <<s, d>>
    OBVIOUS
  <2>1. t[1] # "link"
    BY <1>1
  <2>2. PICK x \in Clients : Has(tasks[x], t)
    BY <1>1 DEF Pending
  <2>3. x # c
    BY <2>1, <2>2 DEF Staged, Has
  <2>4. tasks'[x] = tasks[x]
    BY <2>3, TasksType
  <2> QED BY <2>2, <2>4 DEF Pending, Has
<1>2. known' = known /\ Read' = Read /\ cables' = cables
  BY StillThere
<1>3. Reading'
  BY <1>1, <1>2 DEF Reading
<1>4. Spreading'
  <2> SUFFICES ASSUME NEW r \in From(cables, {p \in Ports : Owner[p] \in known}),
                      Owner[r[2]] \notin known
               PROVE  \/ Pending(<<"neighbors", Owner[r[1]]>>)'
                      \/ \E stage \in {"neighbor", "device", "info"} :
                            Pending(<<stage, Owner[r[2]]>>)'
    BY <1>2 DEF Spreading, From
  <2>1. \/ Pending(<<"neighbors", Owner[r[1]]>>)
        \/ \E stage \in {"neighbor", "device", "info"} : Pending(<<stage, Owner[r[2]]>>)
    BY DEF Spreading
  <2> QED BY <1>1, <2>1
<1> QED BY <1>3, <1>4

LEMMA LinkSmooth ==
    ASSUME IInv, smooth, SmoothInv, NEW c \in Clients, NEW d \in Devices,
           create_lldp_relations_in_db(c, d)
    PROVE  SmoothInv'
<1> PICK ts : ts = tasks[c]
  OBVIOUS
<1> PICK us : us = Tail(ts)
  OBVIOUS
<1>1. /\ ts \in Seq(Task) /\ ts # <<>> /\ Head(ts) = <<"link", d>>
      /\ tasks' = [tasks EXCEPT ![c] = us]
      /\ UNCHANGED <<device, known, unready, ports, told, pc, troubles, history>>
      /\ links' = links \cup {r \in From(told, ports \cap PortsOf(d)) : r[2] \in ports}
  BY TasksType DEF create_lldp_relations_in_db, At, Done
<1>2. /\ us \in Seq(Task) /\ Len(us) = Len(ts) - 1 /\ Len(ts) \in Nat \ {0}
      /\ \A k \in 1..Len(us) : us[k] = ts[k + 1]
      /\ ts[1] = <<"link", d>>
  BY <1>1, HeadTailProperties
<1>3. tasks'[c] = us /\ \A x \in Clients \ {c} : tasks'[x] = tasks[x]
  BY <1>1, TasksType
<1>4. pc[c] # "exploring"
  <2>1. 1 \in 1..Len(ts) /\ ts[1][1] = "link"
    BY <1>2
  <2> QED BY <2>1 DEF SmoothInv, Staged
<1>5. \A k \in 1..Len(us) : us[k][1] = "link"
  <2>1. \A k \in 1..Len(ts) : ts[k][1] = "link"
    BY <1>4 DEF SmoothInv, Staged
  <2>2. \A k \in 1..Len(us) : k + 1 \in 1..Len(ts)
    BY <1>2
  <2> QED BY <1>2, <2>1, <2>2
<1>6. Calm'
  BY <1>1 DEF SmoothInv, Calm, device, history
<1>7. Staged'
  BY <1>1, <1>3, <1>4, <1>5 DEF SmoothInv, Staged
<1>8. Orderly'
  BY <1>1, <1>5, LinksInOrder, OtherOrderly DEF SmoothInv, device
<1>9. Reading' /\ Spreading'
  BY <1>1, <1>4, OtherSpreads DEF SmoothInv, device
<1>10. Linking'
  <2> SUFFICES ASSUME \A x \in Clients : pc[x] # "exploring", NEW r \in From(cables, ports),
                      r \notin links'
               PROVE  Pending(<<"link", Owner[r[1]]>>)'
    BY <1>1 DEF Linking, From, device
  <2> PICK a, b : a = Owner[r[1]] /\ b = Owner[r[2]]
    OBVIOUS
  <2>1. Pending(<<"link", a>>)
    BY <1>1 DEF SmoothInv, Linking
  <2>2. a # d
    <3>1. ASSUME NEW s, NEW e, Pending(<<s, e>>) PROVE s = "link"
      <4>1. <<s, e>>[1] = s
        OBVIOUS
      <4> QED BY <3>1, <4>1 DEF SmoothInv, Staged, Pending, Has
    <3>2. r \in cables /\ r[1] \in ports /\ r[1] \in Ports /\ r[2] \in Ports
      BY DEF From, IInv, Wired, NetOK, GraphOK
    <3>3. a \in known
      BY <3>2 DEF IInv, GraphOK
    <3>4. a \in Read
      BY <3>1, <3>3 DEF SmoothInv, Reading
    <3>5. r \in told
      BY <3>2, <3>4 DEF Read, From, PortsOf
    <3>6. b \in known
      <4>1. r \in From(cables, {p \in Ports : Owner[p] \in known})
        BY <3>2, <3>3 DEF From
      <4> QED BY <3>1, <4>1 DEF SmoothInv, Spreading
    <3>7. b \in Read
      BY <3>1, <3>6 DEF SmoothInv, Reading
    <3>8. r[2] \in ports
      BY <3>2, <3>7 DEF Read, Full, PortsOf
    <3> QED BY <1>1, <3>2, <3>5, <3>8 DEF From, PortsOf
  <2> PICK t : t = <<"link", a>>
    OBVIOUS
  <2>3. ts[1] # t
    BY <1>2, <2>2, TaskParts
  <2>4. PICK x \in Clients : Has(tasks[x], t)
    BY <2>1 DEF Pending
  <2>5. CASE x # c
    BY <1>3, <2>4, <2>5 DEF Pending, Has
  <2>6. CASE x = c
    <3>1. PICK k \in 1..Len(ts) : ts[k] = t
      BY <2>4, <2>6 DEF Has
    <3>2. k - 1 \in 1..Len(us) /\ us[k - 1] = t
      BY <1>2, <2>3, <3>1
    <3> QED BY <1>3, <3>2 DEF Pending, Has
  <2> QED BY <2>5, <2>6
<1> QED BY <1>6, <1>7, <1>8, <1>9, <1>10 DEF SmoothInv

(* A thread that begins or ends a part of a discovery has no tasks.        *)
LEMMA PhaseSmooth ==
    ASSUME IInv, IInv', smooth, SmoothInv, NEW c \in Clients,
           Reconnect(c) \/ Relate(c) \/ Return(c)
    PROVE  SmoothInv'
<1>1. UNCHANGED <<device, graph, troubles, history>>
  BY DEF Reconnect, Relate, Return
<1>2. UNCHANGED <<power, unready, heard, wired, known, ports, told, cables, links>>
  BY <1>1 DEF device, graph, history
<1>3. Calm'
  BY <1>2 DEF SmoothInv, Calm
<1>4. ~ Reconnect(c)
  BY DEF Reconnect, SmoothInv, Staged
<1>5. CASE Relate(c)
  <2>1. PICK order \in Orders(known) : tasks' = [tasks EXCEPT ![c] = Each("link", order)]
    BY <1>5 DEF Relate
  <2>2. known \in SUBSET Devices
    BY DEF IInv, GraphOK
  <2>3. order \in Seq(Devices)
    BY <2>2, OrdersType, SeqMonotonic
  <2> PICK us : us = Each("link", order)
    OBVIOUS
  <2>4. /\ us \in Seq(Task) /\ Len(us) = Len(order)
        /\ \A k \in 1..Len(order) : us[k] = <<"link", order[k]>>
    BY <2>3, EachTask DEF Stages
  <2>5. \A k \in 1..Len(us) : us[k][1] = "link"
    BY <2>4
  <2>6. tasks'[c] = us /\ \A x \in Clients \ {c} : tasks'[x] = tasks[x]
    BY <2>1, TasksType
  <2>7. pc'[c] = "linking" /\ \A x \in Clients \ {c} : pc'[x] = pc[x]
    BY <1>5 DEF Relate, IInv, TasksOK
  <2>8. Staged'
    BY <2>5, <2>6, <2>7 DEF SmoothInv, Staged
  <2>9. Orderly'
    BY <1>2, <2>1, <2>5, LinksInOrder, OtherOrderly DEF SmoothInv
  <2>10. Reading' /\ Spreading'
    <3>1. ASSUME NEW t, Pending(t) PROVE Pending(t)'
      <4>1. PICK x \in Clients : Has(tasks[x], t)
        BY <3>1 DEF Pending
      <4>2. x # c
        <5>1. Len(<<>>) = 0 /\ 1..0 = {}
          OBVIOUS
        <5> QED BY <1>5, <4>1, <5>1 DEF Relate, Has
      <4> QED BY <2>6, <4>1, <4>2 DEF Pending, Has
    <3>2. known' = known /\ Read' = Read /\ cables' = cables
      BY <1>2, StillThere
    <3>3. Reading'
      BY <3>1, <3>2 DEF SmoothInv, Reading
    <3>4. Spreading'
      <4> SUFFICES ASSUME NEW r \in From(cables, {p \in Ports : Owner[p] \in known}),
                          Owner[r[2]] \notin known
                   PROVE  \/ Pending(<<"neighbors", Owner[r[1]]>>)'
                          \/ \E stage \in {"neighbor", "device", "info"} :
                                Pending(<<stage, Owner[r[2]]>>)'
        BY <3>2 DEF Spreading, From
      <4>1. \/ Pending(<<"neighbors", Owner[r[1]]>>)
            \/ \E stage \in {"neighbor", "device", "info"} : Pending(<<stage, Owner[r[2]]>>)
        BY DEF SmoothInv, Spreading
      <4> QED BY <3>1, <4>1
    <3> QED BY <3>3, <3>4
  <2>11. Linking'
    <3> SUFFICES ASSUME NEW r \in From(cables, ports)
                 PROVE  Pending(<<"link", Owner[r[1]]>>)'
      BY <1>2 DEF Linking, From
    <3> PICK d : d = Owner[r[1]]
      OBVIOUS
    <3>1. d \in known
      BY DEF From, IInv, GraphOK
    <3>2. PICK k \in 1..Len(order) : order[k] = d
      BY <2>2, <3>1, OrdersCover
    <3>3. k \in 1..Len(us) /\ us[k] = <<"link", d>>
      BY <2>4, <3>2
    <3> QED BY <2>6, <3>3 DEF Pending, Has
  <2> QED BY <1>3, <2>8, <2>9, <2>10, <2>11 DEF SmoothInv
<1>6. CASE Return(c)
  <2>1. tasks' = tasks /\ tasks[c] = <<>> /\ pc[c] = "linking"
        /\ pc'[c] = "idle" /\ \A x \in Clients \ {c} : pc'[x] = pc[x]
    BY <1>6 DEF Return, IInv, TasksOK
  <2>2. Staged'
    BY <2>1 DEF SmoothInv, Staged
  <2>3. known' = known /\ Full' = Full /\ Read' = Read /\ cables' = cables
    BY <1>2, StillThere
  <2>4. Orderly'
    BY <2>1, <2>3 DEF SmoothInv, Orderly
  <2>5. Reading' /\ Spreading'
    BY <2>1, <2>3 DEF SmoothInv, Reading, Spreading, Pending, From
  <2>6. Linking'
    BY <1>2, <2>1 DEF SmoothInv, Linking, Pending, From
  <2> QED BY <1>3, <2>2, <2>4, <2>5, <2>6 DEF SmoothInv
<1> QED BY <1>4, <1>5, <1>6

LEMMA CallSmooth ==
    ASSUME IInv, IInv', smooth, SmoothInv, NEW c \in Clients, NEW list \in Lists,
           discover_device(c, list)
    PROVE  SmoothInv'
<1> PICK us : us = _discover_device_and_lldp_info(list)
  OBVIOUS
<1>1. /\ pc[c] = "idle" /\ tasks[c] = <<>>
      /\ pc' = [pc EXCEPT ![c] = "exploring"] /\ tasks' = [tasks EXCEPT ![c] = us]
      /\ UNCHANGED <<device, graph, troubles, history>>
  BY DEF discover_device, Begin, IInv, TasksOK
<1>2. UNCHANGED <<power, unready, heard, wired, known, ports, told, cables, links>>
  BY <1>1 DEF device, graph, history
<1>3. list \in Seq(Devices)
  BY ListsAssumption, SeqMonotonic
<1>4. /\ us \in Seq(Task) /\ Chained(us) /\ Closed(us) /\ Prepared(us, known, Full, Read)
      /\ \A k \in 1..Len(us) : us[k][1] # "link"
  BY <1>3, DiscoveryInOrder
<1>5. /\ tasks'[c] = us /\ \A x \in Clients \ {c} : tasks'[x] = tasks[x]
      /\ pc'[c] = "exploring" /\ \A x \in Clients \ {c} : pc'[x] = pc[x]
  BY <1>1, TasksType DEF IInv, TasksOK
<1>6. Calm'
  BY <1>2 DEF SmoothInv, Calm
<1>7. Staged'
  BY <1>4, <1>5 DEF SmoothInv, Staged
<1>8. Orderly'
  BY <1>1, <1>2, <1>4, OtherOrderly DEF SmoothInv
<1>9. Reading' /\ Spreading'
  BY <1>1, <1>2, OtherSpreads DEF SmoothInv
<1>10. Linking'
  BY <1>5 DEF Linking
<1> QED BY <1>6, <1>7, <1>8, <1>9, <1>10 DEF SmoothInv

LEMMA LldpTablesSmooth ==
    ASSUME IInv, smooth, SmoothInv, Lldp
    PROVE  SmoothInv'
<1>1. PICK r \in cables \cup heard : Hear(r) \/ Expire(r)
  BY DEF Lldp
<1>2. UNCHANGED <<power, cables, on, graph, pc, tasks, troubles, history>>
  BY <1>1 DEF Hear, Expire
<1>3. Both(r) \subseteq cables \/ heard' \subseteq heard
  BY <1>1, CablesAssumption DEF Hear, Expire, Up, Both, IInv, Wired
<1>4. heard' \subseteq cables
  BY <1>1, <1>3 DEF Hear, Expire, SmoothInv, Calm
<1>5. Calm'
  BY <1>2, <1>4 DEF SmoothInv, Calm, graph, history
<1>6. UNCHANGED <<known, ports, told, cables, links, pc, tasks>>
  BY <1>2 DEF graph
<1>7. known' = known /\ Full' = Full /\ Read' = Read
  BY <1>6, StillThere
<1>8. Staged' /\ Orderly'
  BY <1>6, <1>7 DEF SmoothInv, Staged, Orderly
<1>9. Reading' /\ Spreading' /\ Linking'
  BY <1>6, <1>7 DEF SmoothInv, Reading, Spreading, Linking, Pending, From
<1> QED BY <1>5, <1>8, <1>9 DEF SmoothInv

LEMMA InitSmooth == Init => SmoothInv
<1> SUFFICES ASSUME Init PROVE SmoothInv
  OBVIOUS
<1>1. Len(<<>>) = 0 /\ 1..0 = {}
  OBVIOUS
<1>2. \A c \in Clients : tasks[c] = <<>> /\ pc[c] = "idle"
  BY DEF Init
<1>3. Calm
  BY DEF Init, Calm
<1>4. Staged /\ Orderly
  BY <1>1, <1>2 DEF Staged, Orderly, Chained, Closed, Prepared
<1>5. Reading /\ Spreading /\ Linking
  BY DEF Init, Reading, Spreading, Linking, From
<1> QED BY <1>3, <1>4, <1>5 DEF SmoothInv

LEMMA NextSmooth ==
    ASSUME Readable, IInv, IInv', SmoothInv, [Next]_vars
    PROVE  SmoothInv'
<1> SUFFICES ASSUME smooth' PROVE SmoothInv'
  BY DEF SmoothInv
<1>1. ~ Trouble
  BY DEF Trouble
<1>2. CASE \E c \in Clients : ClientStep(c)
  <2>1. PICK c \in Clients : ClientStep(c)
    BY <1>2
  <2>2. smooth
    BY <1>1, <2>1 DEF ClientStep, Reconnect, Relate, Return, _discover_device_and_enable_ifs,
       discover_device_basic_system_details, discover_interfaces, enable_all_ifs,
       discover_lldp_info, discover_nw_features_fails, get_all_lldp_neighbor_device_ips,
       discover_neighbor, create_lldp_relations_in_db, history, NoTrouble
  <2>3. CASE Reconnect(c) \/ Relate(c) \/ Return(c)
    BY <2>2, <2>3, PhaseSmooth
  <2>4. CASE \E d \in Devices :
                 \/ _discover_device_and_enable_ifs(c, d)
                 \/ discover_device_basic_system_details(c, d) \/ discover_interfaces(c, d)
                 \/ enable_all_ifs(c, d) \/ discover_lldp_info(c, d)
                 \/ discover_nw_features_fails(c, d)
                 \/ get_all_lldp_neighbor_device_ips(c, d) \/ discover_neighbor(c, d)
                 \/ create_lldp_relations_in_db(c, d)
    BY <2>2, <2>4, DeviceSmooth, InfoSmooth, InterfacesSmooth, EnableSmooth, LldpSmooth,
       FailsNever, NeighborsSmooth, NeighborSmooth, LinkSmooth
  <2> QED BY <2>1, <2>3, <2>4 DEF ClientStep
<1>3. CASE \E c \in Clients, list \in Lists : discover_device(c, list)
  <2>1. smooth
    BY <1>3 DEF discover_device, history
  <2> QED BY <1>3, <2>1, CallSmooth
<1>4. CASE (\E c \in Clients, d \in Devices : switch_image_on_device(c, d)) \/ Recable
           \/ \E d \in Devices : install_image_on_device(d) \/ delete_device(d)
  BY <1>1, <1>4 DEF switch_image_on_device, Recable, install_image_on_device, delete_device
<1>5. CASE Boot
  <2>1. smooth
    BY <1>5 DEF Boot, Listens, BecomesReady, history
  <2> QED BY <1>5, <2>1 DEF Boot, Listens, BecomesReady, SmoothInv, Calm
<1>6. CASE Lldp
  <2>1. smooth
    BY <1>6 DEF Lldp, Hear, Expire, history
  <2> QED BY <1>6, <2>1, LldpTablesSmooth
<1>7. CASE UNCHANGED vars
  <2>1. /\ UNCHANGED <<power, unready, heard, wired, known, ports, told, cables, links>>
        /\ UNCHANGED <<pc, tasks, smooth>>
    BY <1>7 DEF vars, device, graph, history
  <2>2. known' = known /\ Full' = Full /\ Read' = Read
    BY <2>1, StillThere
  <2>3. Calm' /\ Staged' /\ Orderly'
    BY <2>1, <2>2 DEF SmoothInv, Calm, Staged, Orderly
  <2>4. Reading' /\ Spreading' /\ Linking'
    BY <2>1, <2>2 DEF SmoothInv, Reading, Spreading, Linking, Pending, From
  <2> QED BY <2>3, <2>4 DEF SmoothInv
<1> QED BY <1>2, <1>3, <1>4, <1>5, <1>6, <1>7 DEF Next

LEMMA SmoothMissesNothing ==
    ASSUME IInv, SmoothInv
    PROVE  NothingMissed
<1> SUFFICES ASSUME \A c \in Clients : pc[c] = "idle", smooth, NEW r \in From(cables, ports)
             PROVE  Owner[r[2]] \in known /\ r \in links
  BY DEF NothingMissed
<1>1. ASSUME NEW t PROVE ~ Pending(t)
  <2>1. \A c \in Clients : tasks[c] = <<>>
    BY DEF IInv, TasksOK
  <2>2. Len(<<>>) = 0 /\ 1..0 = {}
    OBVIOUS
  <2> QED BY <2>1, <2>2 DEF Pending, Has
<1>2. r \in From(cables, {p \in Ports : Owner[p] \in known})
  BY DEF From, IInv, GraphOK
<1>3. Owner[r[2]] \in known
  BY <1>1, <1>2 DEF SmoothInv, Spreading
<1>4. r \in links
  BY <1>1 DEF SmoothInv, Linking
<1> QED BY <1>3, <1>4

(* NothingMissed, for any number of threads whose discoveries interleave   *)
(* over any network in which no port has two neighbours of one address:    *)
(* the recursion of _discover_device_and_lldp_info, whatever lists it      *)
(* starts from, ends with every device and every cable in the DB.          *)
THEOREM DiscoveryMissesNothing == Readable => (Spec => []NothingMissed)
<1> SUFFICES ASSUME Readable PROVE Spec => []NothingMissed
  OBVIOUS
<1>1. Init => SmoothInv
  BY InitSmooth
<1>2. IInv /\ IInv' /\ SmoothInv /\ [Next]_vars => SmoothInv'
  BY NextSmooth
<1>3. IInv /\ SmoothInv => NothingMissed
  BY SmoothMissesNothing
<1> QED BY <1>1, <1>2, <1>3, Invariant, PTL DEF Spec
=============================================================================
