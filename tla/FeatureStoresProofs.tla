------------------------- MODULE FeatureStoresProofs -------------------------
(***************************************************************************)
(* Theorems about FeatureStores, for any sets of names and any number of   *)
(* calls and failures.                                                     *)
(***************************************************************************)
EXTENDS FeatureStores, FiniteSetTheorems, TLAPS

-----------------------------------------------------------------------------
(* Graphs.                                                                 *)

LEMMA GraphType ==
    ASSUME NEW ns \in SUBSET NodeIds, NEW rs \in SUBSET (NodeIds \X Ports)
    PROVE  /\ Graph(ns, rs) \in Graphs
           /\ Graph(ns, rs).nodes = ns
           /\ Graph(ns, rs).rels = rs
BY DEF Graph, Graphs

LEMMA NothingType == Nothing \in Graphs /\ Nothing.nodes = {} /\ Nothing.rels = {}
BY GraphType DEF Nothing

(* The part of a graph that belongs to a feature is a graph.               *)
LEMMA OfType ==
    ASSUME NEW g \in Graphs, NEW f
    PROVE  /\ Of(g, f) \in Graphs
           /\ Of(g, f).nodes = {x \in g.nodes : Feature(x) = f}
           /\ Of(g, f).rels = {r \in g.rels : Feature(r[1]) = f}
BY GraphType DEF Of, Graphs

LEMMA NodeTypes ==
    /\ \A c \in Channels : PortChannel(c) \in NodeIds
    /\ \A v \in Vlans : Vlan(v) \in NodeIds
    /\ \A d \in Domains : Mclag(d) \in NodeIds
    /\ \A p \in Ports : StpPort(p) \in NodeIds
    /\ Channels \subseteq Ports /\ Interfaces \subseteq Ports
BY DEF NodeIds, Ports

LEMMA RequestType ==
    ASSUME NEW g \in Graphs
    PROVE  Update(g) \in Request /\ Delete(g) \in Request
BY NothingType DEF Update, Delete, Request

(* What a device makes of a request is a graph.                            *)
LEMMA ApplyType ==
    ASSUME NEW g \in Graphs, NEW q \in Request
    PROVE  Apply(g, q) \in Graphs
<1> DEFINE ns == (g.nodes \ q.del.nodes) \cup q.upd.nodes
           kept == {x \in ns : Feature(x) = "stp_port" => Known(ns, x[2])}
           rs == Connected(kept, (g.rels \ q.del.rels) \cup q.upd.rels)
<1>1. kept \in SUBSET NodeIds
  BY DEF Graphs, Request
<1>2. rs \in SUBSET (NodeIds \X Ports)
  BY DEF Graphs, Request, Connected
<1>3. Graph(kept, rs) \in Graphs
  BY <1>1, <1>2, GraphType
<1> QED BY <1>3 DEF Apply

LEMMA WithoutType ==
    ASSUME db \in Graphs, NEW ns, NEW rs
    PROVE  /\ Without(ns, rs) \in Graphs
           /\ Without(ns, rs).nodes = db.nodes \ ns
<1>1. db.nodes \ ns \in SUBSET NodeIds
  BY DEF Graphs
<1>2. Connected(db.nodes \ ns, db.rels \ rs) \in SUBSET (NodeIds \X Ports)
  BY DEF Graphs, Connected
<1> QED BY <1>1, <1>2, GraphType DEF Without

LEMMA UpsertedType ==
    ASSUME db \in Graphs, NEW g \in Graphs, NEW x \in NodeIds
    PROVE  /\ Upserted(x, g) \in Graphs
           /\ Upserted(x, g).nodes = db.nodes \cup {x}
<1> DEFINE ns == db.nodes \cup {x}
           old == IF Feature(x) \in {"port_channel", "vlan"} THEN RelsOf(x, db) ELSE {}
           rs == (db.rels \ old) \cup Connected(ns, RelsOf(x, g))
<1>1. ns \in SUBSET NodeIds
  BY DEF Graphs
<1>2. rs \in SUBSET (NodeIds \X Ports)
  BY DEF Graphs, Connected, RelsOf
<1>3. Upserted(x, g) = Graph(ns, rs)
  BY DEF Upserted
<1> QED BY <1>1, <1>2, <1>3, GraphType

LEMMA NoticeType ==
    ASSUME NEW kind \in {"delete", "update"}, NEW ps \in SUBSET Ports
    PROVE  Notice(kind, ps) \in Seq({"delete", "update"} \X Ports)
BY DEF Notice

-----------------------------------------------------------------------------
(* Type correctness.                                                       *)

(* What all functions of the API have in common.                           *)
Begun == reqs' \in Seq(Request) /\ then' \in Seq(Features) /\ phase' = "call"

LEMMA BeginType ==
    ASSUME NEW rs \in Seq(Request), NEW fs \in Seq(Features), Begin(rs, fs)
    PROVE  Begun
BY DEF Begin, Begun

LEMMA FeatureSeqs ==
    /\ <<>> \in Seq(Features)
    /\ \A f \in Features : <<f>> \in Seq(Features)
    /\ <<"port_channel", "vlan", "mclag", "stp_port">> \in Seq(Features)
BY DEF Features

LEMMA PortChannelFunctionType == PortChannelFunction => Begun
<1> USE DEF Features
<1> SUFFICES ASSUME PortChannelFunction PROVE Begun
  OBVIOUS
<1>1. ASSUME NEW r \in Request
      PROVE  <<r>> \in Seq(Request)
  BY <1>1
<1>2. ASSUME NEW r \in Request, NEW s \in Request
      PROVE  <<r, s>> \in Seq(Request)
  BY <1>2
<1>3. CASE add_port_chnl
  <2>1. PICK c \in Channels : Begin(<<add_port_chnl_on_device(c)>>, <<"port_channel">>)
    BY <1>3 DEF add_port_chnl
  <2>2. add_port_chnl_on_device(c) \in Request
    BY GraphType, NodeTypes, RequestType DEF add_port_chnl_on_device
  <2> QED BY <2>1, <2>2, <1>1, BeginType, FeatureSeqs
<1>4. CASE del_port_chnl
  <2>1. PICK cs \in {{c} : c \in Channels} \cup {Channels} :
           LET known == {c \in cs : PortChannel(c) \in db.nodes}
           IN  \E s \in [1..Cardinality(known) -> known] :
                   /\ \A c \in known : \E i \in DOMAIN s : s[i] = c
                   /\ Begin([i \in DOMAIN s |-> del_port_chnl_from_device(s[i])],
                            <<"port_channel">>)
    BY <1>4 DEF del_port_chnl
  <2> DEFINE known == {c \in cs : PortChannel(c) \in db.nodes}
  <2>2. PICK s \in [1..Cardinality(known) -> known] :
           Begin([i \in DOMAIN s |-> del_port_chnl_from_device(s[i])], <<"port_channel">>)
    BY <2>1
  <2>3. known \subseteq Channels
    OBVIOUS
  <2>4. Cardinality(known) \in Nat
    BY <2>3, KindsAssumption, FS_Subset, FS_CardinalityType
  <2>5. ASSUME NEW c \in Channels
        PROVE  del_port_chnl_from_device(c) \in Request
    BY GraphType, NodeTypes, RequestType DEF del_port_chnl_from_device
  <2> DEFINE ds == [i \in DOMAIN s |-> del_port_chnl_from_device(s[i])]
  <2> HIDE DEF known
  <2>6. \A i \in DOMAIN s : s[i] \in Channels
    BY <2>3
  <2>7. ds \in [1..Cardinality(known) -> Request]
    BY <2>5, <2>6
  <2> HIDE DEF ds
  <2>8. ds \in Seq(Request)
    BY <2>4, <2>7
  <2>9. Begin(ds, <<"port_channel">>)
    BY <2>2 DEF ds
  <2> QED BY <2>8, <2>9, BeginType, FeatureSeqs
<1>5. CASE add_port_chnl_mem
  <2>1. PICK c \in Channels, is \in SUBSET Interfaces :
           Begin(<<add_port_chnl_member_on_device(c, is)>>, <<"port_channel">>)
    BY <1>5 DEF add_port_chnl_mem
  <2>2. Graph({}, {PortChannel(c)} \X is) \in Graphs
    BY GraphType, NodeTypes
  <2>3. add_port_chnl_member_on_device(c, is) \in Request
    BY <2>2, RequestType DEF add_port_chnl_member_on_device
  <2> QED BY <2>1, <2>3, <1>1, BeginType, FeatureSeqs
<1>6. CASE del_port_chnl_mem
  <2>1. PICK c \in Channels, i \in Interfaces :
           Begin(<<remove_port_chnl_member(c, i)>>, <<"port_channel">>)
    BY <1>6 DEF del_port_chnl_mem
  <2>2. Graph({}, {<<PortChannel(c), i>>}) \in Graphs
    BY GraphType, NodeTypes
  <2>3. remove_port_chnl_member(c, i) \in Request
    BY <2>2, RequestType DEF remove_port_chnl_member
  <2> QED BY <2>1, <2>3, <1>1, BeginType, FeatureSeqs
<1>7. ASSUME NEW c \in Channels, NEW vs \in SUBSET Vlans
      PROVE  /\ add_port_chnl_vlan(c, vs) \in Request
             /\ delete_port_channel_member_vlan_from_device(c, vs) \in Request
  <2>1. {<<Vlan(v), c>> : v \in vs} \subseteq NodeIds \X Ports
    BY NodeTypes
  <2>2. Graph({}, {<<Vlan(v), c>> : v \in vs}) \in Graphs
    BY <2>1, GraphType
  <2> QED BY <2>2, RequestType DEF add_port_chnl_vlan,
                  delete_port_channel_member_vlan_from_device
<1>8. ASSUME NEW c \in Channels
      PROVE  delete_all_port_channel_member_vlan_from_device(c) \in Request
  BY <1>7 DEF delete_all_port_channel_member_vlan_from_device
<1>0. <<>> \in Seq(Request)
  OBVIOUS
<1>9. CASE add_port_chnl_vlan_members
  <2>1. PICK c \in Channels, vs \in SUBSET Vlans :
           \/ vs = {} /\ Begin(<<>>, <<"port_channel">>)
           \/ \E v \in vs :
                  Begin(<<delete_all_port_channel_member_vlan_from_device(c),
                          add_port_chnl_vlan(c, {v})>>, <<"port_channel">>)
           \/ vs # {} /\ Begin(<<add_port_chnl_vlan(c, vs)>>, <<"port_channel">>)
    BY <1>9 DEF add_port_chnl_vlan_members
  <2>2. <<add_port_chnl_vlan(c, vs)>> \in Seq(Request)
    BY <1>1, <1>7
  <2>3. ASSUME NEW v \in vs
        PROVE  <<delete_all_port_channel_member_vlan_from_device(c),
                 add_port_chnl_vlan(c, {v})>> \in Seq(Request)
    <3>1. {v} \in SUBSET Vlans
      OBVIOUS
    <3> QED BY <3>1, <1>2, <1>7, <1>8
  <2> QED BY <1>0, <2>1, <2>2, <2>3, BeginType, FeatureSeqs
<1>10. CASE remove_port_channel_vlan_member
  <2>1. PICK c \in Channels, vs \in SUBSET Vlans :
           \/ Begin(<<>>, <<"port_channel">>)
           \/ Begin(<<delete_port_channel_member_vlan_from_device(c, vs)>>,
                    <<"port_channel">>)
    BY <1>10 DEF remove_port_channel_vlan_member
  <2>2. <<delete_port_channel_member_vlan_from_device(c, vs)>> \in Seq(Request)
    BY <1>1, <1>7
  <2> QED BY <1>0, <2>1, <2>2, BeginType, FeatureSeqs
<1>11. CASE remove_all_port_channel_vlan_member
  BY <1>11, <1>1, <1>8, BeginType, FeatureSeqs DEF remove_all_port_channel_vlan_member
<1> QED BY <1>3, <1>4, <1>5, <1>6, <1>9, <1>10, <1>11 DEF PortChannelFunction

(* A request for one node and one relation, in all four forms.             *)
LEMMA SingleTypes ==
    ASSUME NEW x \in NodeIds, NEW p \in Ports
    PROVE  /\ Update(Graph({x}, {})) \in Request
           /\ Delete(Graph({x}, {})) \in Request
           /\ Update(Graph({}, {<<x, p>>})) \in Request
           /\ Delete(Graph({}, {<<x, p>>})) \in Request
<1>1. Graph({x}, {}) \in Graphs /\ Graph({}, {<<x, p>>}) \in Graphs
  BY GraphType
<1> QED BY <1>1, RequestType

LEMMA VlanFunctionType == VlanFunction => Begun
<1> USE DEF Features
<1> SUFFICES ASSUME VlanFunction PROVE Begun
  OBVIOUS
<1>1. ASSUME NEW r \in Request
      PROVE  <<r>> \in Seq(Request)
  BY <1>1
<1>2. CASE config_vlan
  <2>1. PICK v \in Vlans, ps \in SUBSET Ports :
           Begin(<<config_vlan_on_device(v, ps)>>, <<"vlan">>)
    BY <1>2 DEF config_vlan
  <2>2. Graph({Vlan(v)}, {Vlan(v)} \X ps) \in Graphs
    BY GraphType, NodeTypes
  <2>3. config_vlan_on_device(v, ps) \in Request
    BY <2>2, RequestType DEF config_vlan_on_device
  <2> QED BY <2>1, <2>3, <1>1, BeginType, FeatureSeqs
<1>3. CASE del_vlan
  <2>1. PICK v \in Vlans : Begin(<<del_vlan_from_device(v)>>, <<"vlan">>)
    BY <1>3 DEF del_vlan
  <2>2. del_vlan_from_device(v) \in Request
    BY GraphType, NodeTypes, RequestType DEF del_vlan_from_device
  <2> QED BY <2>1, <2>2, <1>1, BeginType, FeatureSeqs
<1>4. CASE add_vlan_mem
  <2>1. <<>> \in Seq(Request)
    OBVIOUS
  <2>2. Begin(<<>>, <<"vlan">>)
    BY <1>4 DEF add_vlan_mem
  <2> QED BY <2>1, <2>2, BeginType, FeatureSeqs
<1>5. CASE del_vlan_mem
  <2>1. PICK v \in Vlans, p \in Ports :
           Begin(<<delete_vlan_members_on_device(v, p)>>, <<"vlan">>)
    BY <1>5 DEF del_vlan_mem
  <2>2. delete_vlan_members_on_device(v, p) \in Request
    BY NodeTypes, SingleTypes DEF delete_vlan_members_on_device
  <2> QED BY <2>1, <2>2, <1>1, BeginType, FeatureSeqs
<1> QED BY <1>2, <1>3, <1>4, <1>5 DEF VlanFunction

LEMMA MclagFunctionType == MclagFunction => Begun
<1> USE DEF Features
<1> SUFFICES ASSUME MclagFunction PROVE Begun
  OBVIOUS
<1>1. ASSUME NEW r \in Request
      PROVE  <<r>> \in Seq(Request)
  BY <1>1
<1>2. CASE config_mclag
  <2>1. PICK d \in Domains : Begin(<<config_mclag_domain_on_device(d)>>, <<"mclag">>)
    BY <1>2 DEF config_mclag
  <2>2. config_mclag_domain_on_device(d) \in Request
    BY GraphType, NodeTypes, RequestType DEF config_mclag_domain_on_device
  <2> QED BY <2>1, <2>2, <1>1, BeginType, FeatureSeqs
<1>3. CASE del_mclag
  <2>1. Graph({Mclag(d) : d \in Domains}, {}) \in Graphs
    BY GraphType, NodeTypes
  <2>2. del_mclag_from_device \in Request
    BY <2>1, RequestType DEF del_mclag_from_device
  <2> QED BY <1>3, <2>2, <1>1, BeginType, FeatureSeqs DEF del_mclag
<1>4. CASE config_mclag_mem_portchnl
  <2>1. PICK d \in Domains, c \in Channels :
           Begin(<<config_mclag_member_on_device(d, c)>>, <<"mclag">>)
    BY <1>4 DEF config_mclag_mem_portchnl
  <2>2. config_mclag_member_on_device(d, c) \in Request
    BY NodeTypes, SingleTypes DEF config_mclag_member_on_device
  <2> QED BY <2>1, <2>2, <1>1, BeginType, FeatureSeqs
<1>5. CASE del_mclag_member
  <2>1. PICK cs \in {{c} : c \in Channels} \cup {Channels} :
           Begin(<<del_mclag_member_on_device(cs)>>, <<"mclag">>)
    BY <1>5 DEF del_mclag_member
  <2>2. cs \subseteq Channels
    OBVIOUS
  <2>3. {<<Mclag(d), c>> : d \in Domains, c \in cs} \subseteq NodeIds \X Ports
    BY <2>2, NodeTypes
  <2>4. Graph({}, {<<Mclag(d), c>> : d \in Domains, c \in cs}) \in Graphs
    BY <2>3, GraphType
  <2>5. del_mclag_member_on_device(cs) \in Request
    BY <2>4, RequestType DEF del_mclag_member_on_device
  <2> QED BY <2>1, <2>5, <1>1, BeginType, FeatureSeqs
<1> QED BY <1>2, <1>3, <1>4, <1>5 DEF MclagFunction

LEMMA StpPortFunctionType == StpPortFunction => Begun
<1> SUFFICES ASSUME StpPortFunction PROVE Begun
  OBVIOUS
<1>1. ASSUME NEW p \in Ports
      PROVE  delete_stp_port_member_from_device(p) \in Request
  BY NodeTypes, SingleTypes DEF delete_stp_port_member_from_device
<1>2. CASE add_stp_port_members
  <2>1. PICK p \in Ports : Begin(add_stp_port_members_on_device(p), <<>>)
    BY <1>2 DEF add_stp_port_members
  <2> DEFINE q == delete_stp_port_member_from_device(p)
             r == Update(Graph({StpPort(p)}, {<<StpPort(p), p>>}))
  <2>2. [q EXCEPT !.must = FALSE] \in Request
    BY <1>1 DEF Request
  <2>3. Graph({StpPort(p)}, {<<StpPort(p), p>>}) \in Graphs
    BY GraphType, NodeTypes
  <2>4. r \in Request
    BY <2>3, RequestType
  <2> HIDE DEF q, r
  <2>5. <<[q EXCEPT !.must = FALSE], r>> \in Seq(Request)
    BY <2>2, <2>4
  <2>6. add_stp_port_members_on_device(p) \in Seq(Request)
    BY <2>5 DEF add_stp_port_members_on_device, q, r
  <2> QED BY <2>1, <2>6, BeginType, FeatureSeqs
<1>3. CASE delete_stp_port_member
  <2>1. PICK p \in Ports : Begin(<<delete_stp_port_member_from_device(p)>>, <<>>)
    BY <1>3 DEF delete_stp_port_member
  <2>2. <<delete_stp_port_member_from_device(p)>> \in Seq(Request)
    BY <1>1
  <2> QED BY <2>1, <2>2, BeginType, FeatureSeqs
<1> QED BY <1>2, <1>3 DEF StpPortFunction

-----------------------------------------------------------------------------
(* The steps of the application thread.                                    *)

LEMMA ExecutedType ==
    ASSUME TypeOK, Sending, Executed
    PROVE  /\ dev' \in Graphs
           /\ queue' \in Seq({"delete", "update"} \X Ports)
<1> DEFINE q == Head(reqs)
           removed == Notice("delete", StpRemoved(dev, q))
           set == Notice("update", StpSet(q))
<1>1. q \in Request
  BY DEF TypeOK, Sending
<1>2. Apply(dev, q) \in Graphs
  BY <1>1, ApplyType DEF TypeOK
<1>3. removed \in Seq({"delete", "update"} \X Ports)
  BY NoticeType DEF StpRemoved
<1>4. set \in Seq({"delete", "update"} \X Ports)
  BY NoticeType DEF StpSet
<1>5. queue \in Seq({"delete", "update"} \X Ports)
  BY DEF TypeOK
<1> HIDE DEF q, removed, set
<1>6. (queue \o removed) \o set \in Seq({"delete", "update"} \X Ports)
  BY <1>3, <1>4, <1>5
<1>7. queue' = (queue \o removed) \o set
  BY DEF Executed, q, removed, set
<1>8. dev' = Apply(dev, q)
  BY DEF Executed, q
<1> QED BY <1>2, <1>6, <1>7, <1>8

LEMMA AfterErrorType ==
    ASSUME TypeOK, Sending, AfterError
    PROVE  reqs' \in Seq(Request)
BY DEF TypeOK, Sending, AfterError

-----------------------------------------------------------------------------
(* The type invariant, and what the answer of a Get is while it is used:   *)
(* nothing changes the device until the discovery of the feature is over;  *)
(* an empty answer may also be no answer.                                  *)
GotIsCurrent ==
    phase \in {"insert", "prune"} /\ Head(then) # "stp_port" =>
        \/ got.nodes = Of(dev, Head(then)).nodes
        \/ missed /\ got.nodes = {}

IInv == TypeOK /\ GotIsCurrent

LEMMA InitIInv == Init => IInv
<1> SUFFICES ASSUME Init PROVE IInv
  OBVIOUS
<1>0. <<>> \in Seq(Request) /\ <<>> \in Seq({"delete", "update"} \X Ports)
  OBVIOUS
<1>1. TypeOK
  <2>1. dev \in Graphs /\ db \in Graphs /\ got \in Graphs
    BY NothingType DEF Init
  <2>2. queue \in Seq({"delete", "update"} \X Ports) /\ reqs \in Seq(Request)
    BY <1>0 DEF Init
  <2>3. then \in Seq(Features)
    BY FeatureSeqs DEF Init
  <2>4. calls \in 0..MaxCalls /\ faults \in 0..MaxFaults
    BY BoundsAssumption DEF Init
  <2>5. phase = "idle" /\ complete \in BOOLEAN /\ todo = {} /\ missed \in BOOLEAN
    BY DEF Init
  <2> QED BY <2>1, <2>2, <2>3, <2>4, <2>5 DEF TypeOK, Phases
<1>2. GotIsCurrent
  BY DEF Init, GotIsCurrent
<1> QED BY <1>1, <1>2 DEF IInv

LEMMA ConfigureIInv == IInv /\ Configure => IInv'
<1> SUFFICES ASSUME IInv, Configure PROVE IInv'
  OBVIOUS
<1>1. Begun
  BY PortChannelFunctionType, VlanFunctionType, MclagFunctionType, StpPortFunctionType
     DEF Configure
<1>2. calls' \in 0..MaxCalls
  BY BoundsAssumption DEF Configure, IInv, TypeOK
<1>3. TypeOK'
  BY <1>1, <1>2 DEF Begun, Configure, IInv, TypeOK, Phases
<1>4. GotIsCurrent'
  BY <1>1 DEF Begun, GotIsCurrent
<1> QED BY <1>3, <1>4 DEF IInv

LEMMA DiscoverDeviceIInv == IInv /\ DiscoverDevice => IInv'
<1> SUFFICES ASSUME IInv, DiscoverDevice PROVE IInv'
  OBVIOUS
<1>0. <<>> \in Seq(Request)
  OBVIOUS
<1>1. TypeOK'
  BY <1>0, FeatureSeqs DEF DiscoverDevice, Begin, IInv, TypeOK, Phases
<1>2. GotIsCurrent'
  BY DEF DiscoverDevice, Begin, GotIsCurrent
<1> QED BY <1>1, <1>2 DEF IInv

(* The three outcomes of a Set.                                            *)
LEMMA SetIInv == IInv /\ (SetSucceeds \/ SetRefused \/ SetFails \/ SetNotSent) => IInv'
<1> SUFFICES ASSUME IInv, SetSucceeds \/ SetRefused \/ SetFails \/ SetNotSent PROVE IInv'
  OBVIOUS
<1> USE DEF IInv
<1>1. phase' = "call" /\ GotIsCurrent'
  BY DEF SetSucceeds, SetRefused, SetFails, SetNotSent, Sending, GotIsCurrent
<1>2. CASE SetSucceeds
  <2>1. reqs' \in Seq(Request)
    BY <1>2 DEF SetSucceeds, Sending, TypeOK
  <2>2. dev' \in Graphs /\ queue' \in Seq({"delete", "update"} \X Ports)
    BY <1>2, ExecutedType DEF SetSucceeds
  <2>3. TypeOK'
    BY <1>1, <1>2, <2>1, <2>2 DEF SetSucceeds, TypeOK, Phases
  <2> QED BY <1>1, <2>3
<1>3. CASE SetRefused
  <2>1. reqs' \in Seq(Request)
    BY <1>3, AfterErrorType DEF SetRefused
  <2>2. TypeOK'
    BY <1>1, <1>3, <2>1 DEF SetRefused, TypeOK, Phases
  <2> QED BY <1>1, <2>2
<1>4. CASE SetFails
  <2>1. reqs' \in Seq(Request)
    BY <1>4, AfterErrorType DEF SetFails
  <2>2. dev' \in Graphs /\ queue' \in Seq({"delete", "update"} \X Ports)
    BY <1>4, ExecutedType DEF SetFails, TypeOK
  <2>3. faults' \in 0..MaxFaults
    BY <1>4, BoundsAssumption DEF SetFails, TypeOK
  <2>4. TypeOK'
    BY <1>1, <1>4, <2>1, <2>2, <2>3 DEF SetFails, TypeOK, Phases
  <2> QED BY <1>1, <2>4
<1>5. CASE SetNotSent
  <2>1. reqs' \in Seq(Request)
    BY <1>5 DEF SetNotSent, Sending, TypeOK
  <2>2. faults' \in 0..MaxFaults
    BY <1>5, BoundsAssumption DEF SetNotSent, TypeOK
  <2>3. TypeOK'
    BY <1>1, <1>5, <2>1, <2>2 DEF SetNotSent, TypeOK, Phases
  <2> QED BY <1>1, <2>3
<1> QED BY <1>2, <1>3, <1>4, <1>5

LEMMA GetIInv == IInv /\ (Get \/ GetFails \/ GetNothing) => IInv'
<1> SUFFICES ASSUME IInv, Get \/ GetFails \/ GetNothing PROVE IInv'
  OBVIOUS
<1> USE DEF IInv
<1>1. Getting
  BY DEF Get, GetFails, GetNothing
<1>2. Head(then) \in Features /\ Tail(then) \in Seq(Features)
  BY <1>1 DEF Getting, TypeOK
<1>3. CASE Get
  <2>1. /\ got' = Of(dev, Head(then))
        /\ got' \in Graphs
        /\ got'.nodes \subseteq NodeIds
    BY <1>3, OfType DEF Get, TypeOK, Graphs
  <2>2. TypeOK'
    BY <1>1, <1>3, <2>1 DEF Get, Getting, TypeOK, Phases
  <2>3. GotIsCurrent'
    BY <1>3, <2>1 DEF Get, GotIsCurrent
  <2> QED BY <2>2, <2>3
<1>4. CASE GetFails
  <2>1. faults' \in 0..MaxFaults
    BY <1>4, BoundsAssumption DEF GetFails, TypeOK
  <2>2. CASE Head(then) = "stp_port"
    <3>1. TypeOK'
      BY <1>1, <1>4, <2>1, <2>2, NothingType DEF GetFails, Getting, TypeOK, Phases
    <3>2. GotIsCurrent'
      BY <1>4, <2>2 DEF GetFails, GotIsCurrent
    <3> QED BY <3>1, <3>2
  <2>3. CASE Head(then) # "stp_port"
    <3>1. then' \in Seq(Features)
      BY <1>2, <1>4, <2>3, FeatureSeqs DEF GetFails
    <3>2. TypeOK'
      BY <1>1, <1>4, <2>1, <2>3, <3>1 DEF GetFails, Getting, TypeOK, Phases
    <3>3. GotIsCurrent'
      BY <1>1, <1>4, <2>3 DEF GetFails, Getting, GotIsCurrent
    <3> QED BY <3>2, <3>3
  <2> QED BY <2>2, <2>3
<1>5. CASE GetNothing
  <2>1. faults' \in 0..MaxFaults
    BY <1>5, BoundsAssumption DEF GetNothing, TypeOK
  <2>2. TypeOK'
    BY <1>1, <1>5, <2>1, NothingType DEF GetNothing, Getting, TypeOK, Phases
  <2>3. GotIsCurrent'
    BY <1>5, NothingType DEF GetNothing, GotIsCurrent
  <2> QED BY <2>2, <2>3
<1> QED BY <1>3, <1>4, <1>5

LEMMA InsertIInv == IInv /\ (Insert \/ InsertRaises) => IInv'
<1> SUFFICES ASSUME IInv, Insert \/ InsertRaises PROVE IInv'
  OBVIOUS
<1> USE DEF IInv
<1>1. phase = "insert" /\ then # <<>>
  BY DEF Insert, InsertRaises, TypeOK
<1>2. CASE Insert
  <2>1. PICK x \in todo : db' = Upserted(x, got) /\ todo' = todo \ {x}
    BY <1>2 DEF Insert
  <2>2. db' \in Graphs /\ todo' \subseteq NodeIds
    BY <2>1, UpsertedType DEF TypeOK
  <2>3. TypeOK'
    BY <1>2, <2>2 DEF Insert, app, TypeOK
  <2>4. GotIsCurrent'
    BY <1>2 DEF Insert, app, GotIsCurrent
  <2> QED BY <2>3, <2>4
<1>3. CASE InsertRaises
  <2>1. PICK x \in todo : db' = Upserted(x, Nothing)
    BY <1>3 DEF InsertRaises
  <2>2. db' \in Graphs
    BY <2>1, NothingType, UpsertedType DEF TypeOK
  <2>3. then' \in Seq(Features)
    BY <1>1, <1>3 DEF InsertRaises, TypeOK
  <2>4. TypeOK'
    BY <1>3, <2>2, <2>3 DEF InsertRaises, TypeOK, Phases
  <2>5. GotIsCurrent'
    BY <1>3 DEF InsertRaises, GotIsCurrent
  <2> QED BY <2>4, <2>5
<1> QED BY <1>2, <1>3

LEMMA PruneIInv == IInv /\ (Inserted \/ Prune \/ Return) => IInv'
<1> SUFFICES ASSUME IInv, Inserted \/ Prune \/ Return PROVE IInv'
  OBVIOUS
<1> USE DEF IInv
<1>1. CASE Inserted
  <2>1. TypeOK'
    BY <1>1 DEF Inserted, TypeOK, Phases
  <2>2. GotIsCurrent'
    BY <1>1 DEF Inserted, GotIsCurrent
  <2> QED BY <2>1, <2>2
<1>2. CASE Prune
  <2>1. then' \in Seq(Features)
    BY <1>2 DEF Prune, TypeOK
  <2>2. db' \in Graphs
    BY <1>2, WithoutType DEF Prune, TypeOK
  <2>3. TypeOK'
    BY <1>2, <2>1, <2>2 DEF Prune, TypeOK, Phases
  <2>4. GotIsCurrent'
    BY <1>2 DEF Prune, GotIsCurrent
  <2> QED BY <2>3, <2>4
<1>3. CASE Return
  <2>1. TypeOK'
    BY <1>3, NothingType DEF Return, TypeOK, Phases
  <2>2. GotIsCurrent'
    BY <1>3 DEF Return, GotIsCurrent
  <2> QED BY <2>1, <2>2
<1> QED BY <1>1, <1>2, <1>3

(* What the subscription thread does to the DB, and that it deletes only   *)
(* STP ports.                                                              *)
LEMMA HandleNotificationDB ==
    ASSUME TypeOK, HandleNotification
    PROVE  /\ db' \in Graphs
           /\ \A x \in db.nodes : Feature(x) # "stp_port" => x \in db'.nodes
<1>0. queue # <<>> /\ Head(queue)[2] \in Ports
  BY DEF HandleNotification, StpPortDeleted, StpPortUpdated, TypeOK
<1> DEFINE x == StpPort(Head(queue)[2])
<1>1. x \in NodeIds /\ Feature(x) = "stp_port"
  BY <1>0, NodeTypes DEF StpPort, Feature
<1>2. CASE StpPortDeleted
  <2>1. db' = Without({x}, {})
    BY <1>2 DEF StpPortDeleted
  <2> HIDE DEF x
  <2>2. db' \in Graphs /\ db'.nodes = db.nodes \ {x}
    BY <2>1, WithoutType DEF TypeOK
  <2> QED BY <1>1, <2>2
<1>3. CASE StpPortUpdated
  <2> DEFINE others == {y \in db.nodes : Feature(y) = "stp_port" /\ y # x}
             ns == (db.nodes \ others) \cup {x}
             rs == Connected(ns, db.rels \cup {<<x, Head(queue)[2]>>})
  <2>1. db' = IF PortMissing(x) THEN Graph(db.nodes \cup {x}, db.rels) ELSE Graph(ns, rs)
    BY <1>1, <1>3, Zenon DEF StpPortUpdated, StpPort
  <2> HIDE DEF x
  <2>2. /\ db.nodes \cup {x} \in SUBSET NodeIds
        /\ db.rels \in SUBSET (NodeIds \X Ports)
        /\ ns \in SUBSET NodeIds
        /\ rs \in SUBSET (NodeIds \X Ports)
    BY <1>0, <1>1 DEF TypeOK, Graphs, Connected
  <2>3. \A y \in db.nodes : Feature(y) # "stp_port" => y \in ns
    OBVIOUS
  <2> HIDE DEF ns, rs
  <2> QED BY <2>1, <2>2, <2>3, GraphType
<1> QED BY <1>2, <1>3 DEF HandleNotification

LEMMA HandleNotificationIInv == IInv /\ HandleNotification => IInv'
<1> SUFFICES ASSUME IInv, HandleNotification PROVE IInv'
  OBVIOUS
<1> USE DEF IInv
<1>1. /\ UNCHANGED <<dev, calls, faults, app, got, todo, missed>>
      /\ queue # <<>> /\ queue' = Tail(queue)
  BY DEF HandleNotification, StpPortDeleted, StpPortUpdated
<1>2. queue' \in Seq({"delete", "update"} \X Ports)
  BY <1>1 DEF TypeOK
<1>3. TypeOK'
  BY <1>1, <1>2, HandleNotificationDB DEF app, TypeOK
<1>4. GotIsCurrent'
  BY <1>1 DEF app, GotIsCurrent
<1> QED BY <1>3, <1>4

LEMMA NextIInv == IInv /\ [Next]_vars => IInv'
<1> SUFFICES ASSUME IInv, [Next]_vars PROVE IInv'
  OBVIOUS
<1>1. CASE UNCHANGED vars
  <2>1. TypeOK'
    BY <1>1 DEF IInv, TypeOK, vars
  <2>2. GotIsCurrent'
    BY <1>1 DEF IInv, GotIsCurrent, vars
  <2> QED BY <2>1, <2>2 DEF IInv
<1>2. CASE Next
  BY <1>2, ConfigureIInv, DiscoverDeviceIInv, SetIInv, GetIInv, InsertIInv, PruneIInv,
     HandleNotificationIInv DEF Next, AppStep
<1> QED BY <1>1, <1>2

(* Every state of the stores has its type.                                 *)
THEOREM StoresTypeCorrect == Spec => []TypeOK
<1>1. IInv => TypeOK
  BY DEF IInv
<1> QED BY InitIInv, NextIInv, <1>1, PTL DEF Spec

-----------------------------------------------------------------------------
(* What the device has leaves the DB as a whole or not at all: an answer   *)
(* is used only while it is what the device has, unless it is empty        *)
(* because nothing was asked, and that loses all nodes of the feature.     *)
THEOREM DiscoveryLosesAllOrNone == Spec => LosesAllOrNone
<1>1. ASSUME IInv, [Next]_vars
      PROVE  [KeepsAllOrNone]_vars
  <2> USE DEF IInv
  <2> SUFFICES ASSUME Next PROVE KeepsAllOrNone
    BY <1>1
  <2>1. CASE UNCHANGED db
    BY <2>1 DEF KeepsAllOrNone
  <2>2. CASE Insert
    <3>1. PICK x \in todo : db' = Upserted(x, got)
      BY <2>2 DEF Insert
    <3>2. db'.nodes = db.nodes \cup {x}
      BY <1>1, <3>1, UpsertedType DEF TypeOK
    <3> QED BY <3>2 DEF KeepsAllOrNone
  <2>3. CASE InsertRaises
    <3>1. PICK x \in todo : db' = Upserted(x, Nothing)
      BY <2>3 DEF InsertRaises
    <3>2. db'.nodes = db.nodes \cup {x}
      BY <1>1, <3>1, NothingType, UpsertedType DEF TypeOK
    <3> QED BY <3>2 DEF KeepsAllOrNone
  <2>4. CASE Prune
    <3> DEFINE f == Head(then)
    <3>1. db'.nodes = db.nodes \ Stale(f)
      BY <1>1, <2>4, WithoutType DEF Prune, TypeOK
    <3>2. Stale(f) = {x \in db.nodes : Feature(x) = f} \ got.nodes
      BY <1>1, OfType DEF Stale, TypeOK
    <3>3. f # "stp_port" =>
              \/ got.nodes = {x \in dev.nodes : Feature(x) = f}
              \/ missed /\ got.nodes = {}
      BY <1>1, <2>4, OfType DEF Prune, GotIsCurrent, TypeOK
    <3>4. db' \in Graphs
      BY <1>1, <2>4, WithoutType DEF Prune, TypeOK
    <3>5. Of(db', f).nodes = {x \in db'.nodes : Feature(x) = f}
      BY <3>4, OfType
    <3> HIDE DEF f
    <3>6. ASSUME NEW x \in db.nodes \cap dev.nodes, Feature(x) # "stp_port", x \notin db'.nodes
          PROVE  missed /\ Of(db', Feature(x)).nodes = {}
      <4>1. Feature(x) = f /\ x \notin got.nodes
        BY <3>1, <3>2, <3>6
      <4>2. missed /\ got.nodes = {}
        BY <3>3, <3>6, <4>1
      <4>3. Of(db', f).nodes = {}
        BY <3>1, <3>2, <3>5, <4>2
      <4> QED BY <4>1, <4>2, <4>3
    <3> QED BY <3>6 DEF KeepsAllOrNone
  <2>5. CASE HandleNotification
    BY <1>1, <2>5, HandleNotificationDB DEF KeepsAllOrNone
  <2> QED BY <2>1, <2>2, <2>3, <2>4, <2>5 DEF Next, AppStep, Configure, DiscoverDevice,
          SetSucceeds, SetRefused, SetFails, SetNotSent, Get, GetFails, GetNothing,
          Inserted, Return
<1> QED BY InitIInv, NextIInv, <1>1, PTL DEF Spec, LosesAllOrNone

-----------------------------------------------------------------------------
(* InSync.  A feature that no discovery is pending for is the same on the  *)
(* device and in the DB, except that the DB still has the relations to     *)
(* port channels that the device has just lost: those go with the channels,*)
(* when the discovery of the port channels prunes them.                    *)

Stored == {"port_channel", "vlan", "mclag"}

NodesFor(g, f) == {x \in g.nodes : Feature(x) = f}

(* Of the VLANs' relations those to interfaces.                            *)
RelsFor(g, f) ==
    {r \in g.rels : Feature(r[1]) = f /\ (f = "vlan" => r[2] \notin Channels)}

Matches(f) ==
    /\ NodesFor(db, f) = NodesFor(dev, f)
    /\ RelsFor(dev, f) = {r \in RelsFor(db, f) : Known(dev.nodes, r[2])}

(* Relations lead from nodes that are there to ports that are there.       *)
Whole(g) == \A r \in g.rels : r[1] \in g.nodes /\ Known(g.nodes, r[2])

In(fs) == {fs[i] : i \in DOMAIN fs}

(* What is left to discover: the port channels come first.                 *)
Discoveries ==
    { <<>>, <<"port_channel">>, <<"vlan">>, <<"mclag">>, <<"stp_port">>,
      <<"mclag", "stp_port">>, <<"vlan", "mclag", "stp_port">>,
      <<"port_channel", "vlan", "mclag", "stp_port">> }

(* A graph with nothing to discover but the features fs, STP ports and the *)
(* VLANs of port channels apart; only interfaces are in port channels.     *)
Within(g, fs) ==
    /\ \A x \in g.nodes : Feature(x) \in fs \cup {"stp_port"}
    /\ \A r \in g.rels : \/ Feature(r[1]) \in fs \cup {"stp_port"}
                         \/ Feature(r[1]) = "vlan" /\ r[2] \in Channels
    /\ \A r \in g.rels : Feature(r[1]) = "port_channel" => r[2] \in Interfaces

Fits(q, fs) == Within(q.del, fs) /\ Within(q.upd, fs)

AddsChannels(rs) == \E i \in DOMAIN rs : NodesFor(rs[i].upd, "port_channel") # {}
DropsChannels(rs) == \E i \in DOMAIN rs : NodesFor(rs[i].del, "port_channel") # {}

(* The Sets that are still to be sent change only what is discovered after *)
(* them, and no call deletes channels and makes others.                    *)
RequestsFit ==
    /\ \A i \in DOMAIN reqs : Fits(reqs[i], In(then))
    /\ ~(AddsChannels(reqs) /\ DropsChannels(reqs))
    /\ AddsChannels(reqs) /\ ~missed =>
           NodesFor(db, "port_channel") \subseteq NodesFor(dev, "port_channel")

(* The answer is of the feature that is being discovered, and but for STP  *)
(* ports, whose errors are taken for an empty answer, it is all of it,     *)
(* unless nothing was asked.                                               *)
AnswerExact ==
    phase \in {"insert", "prune"} =>
        /\ reqs = <<>>
        /\ \A x \in got.nodes : Feature(x) = Head(then)
        /\ \A r \in got.rels : Feature(r[1]) = Head(then)
        /\ Head(then) # "stp_port" /\ ~missed => got = Of(dev, Head(then))
        /\ todo \subseteq got.nodes
        /\ phase = "prune" => todo = {}

(* What has been inserted has its relations, those of MCLAG perhaps among  *)
(* old ones that the pruning will cut.                                     *)
Taken(x, f) ==
    /\ x \in db.nodes
    /\ f = "mclag" => RelsOf(x, got) \subseteq db.rels
    /\ f # "mclag" => {r \in RelsFor(db, f) : r[1] = x} = {r \in RelsFor(got, f) : r[1] = x}

InsertedTaken ==
    phase \in {"insert", "prune"} /\ Head(then) # "stp_port" =>
        \A x \in got.nodes \ todo : Taken(x, Head(then))

SyncInv ==
    /\ IInv
    /\ Whole(dev) /\ Whole(db)
    /\ \A r \in dev.rels : Feature(r[1]) = "port_channel" => r[2] \in Interfaces
    /\ then \in Discoveries
    /\ phase = "idle" => reqs = <<>> /\ then = <<>>
    /\ RequestsFit
    /\ AnswerExact
    /\ ~missed => InsertedTaken
    /\ ~missed => \A f \in Stored : f \in In(then) \/ Matches(f)

LEMMA NodeFeatures ==
    /\ \A c \in Channels : Feature(PortChannel(c)) = "port_channel"
    /\ \A v \in Vlans : Feature(Vlan(v)) = "vlan"
    /\ \A d \in Domains : Feature(Mclag(d)) = "mclag"
    /\ \A p \in Ports : Feature(StpPort(p)) = "stp_port"
BY DEF Feature, PortChannel, Vlan, Mclag, StpPort

LEMMA NodeFeature == \A x \in NodeIds : Feature(x) \in Features
BY NodeFeatures DEF NodeIds, Features

(* A port is known by the interfaces and the channels.                     *)
LEMMA KnownGrows ==
    ASSUME NEW g \in Graphs, NEW h \in Graphs, NEW p \in Ports, Known(g.nodes, p),
           NodesFor(g, "port_channel") \subseteq NodesFor(h, "port_channel")
    PROVE  Known(h.nodes, p)
<1>1. CASE p \in Interfaces
  BY <1>1 DEF Known
<1>2. CASE p \notin Interfaces
  <2>1. p \in Channels /\ PortChannel(p) \in g.nodes
    BY <1>2 DEF Known, Ports
  <2>2. PortChannel(p) \in h.nodes
    BY <2>1, NodeFeatures DEF NodesFor
  <2> QED BY <2>2 DEF Known
<1> QED BY <1>1, <1>2

LEMMA RelType ==
    ASSUME NEW g \in Graphs, NEW r \in g.rels
    PROVE  r[1] \in NodeIds /\ r[2] \in Ports
BY DEF Graphs

(* The order of a discovery.                                               *)
LEMMA DiscoveryOrder ==
    ASSUME NEW fs \in Discoveries, fs # <<>>
    PROVE  /\ Head(fs) \in Features
           /\ Tail(fs) \in Discoveries
           /\ In(fs) = In(Tail(fs)) \cup {Head(fs)}
           /\ Head(fs) \notin In(Tail(fs))
           /\ "port_channel" \in In(fs) => Head(fs) = "port_channel"
<1> USE DEF In, Features
<1>1. CASE fs \in {<<"port_channel">>, <<"vlan">>, <<"mclag">>, <<"stp_port">>}
  <2>1. PICK f \in Features : fs = <<f>>
    BY <1>1
  <2>2. Head(fs) = f /\ Tail(fs) = <<>> /\ In(fs) = {f} /\ In(<<>>) = {}
    BY <2>1
  <2> QED BY <2>1, <2>2 DEF Discoveries
<1>2. CASE fs = <<"mclag", "stp_port">>
  <2>1. Head(fs) = "mclag" /\ Tail(fs) = <<"stp_port">>
    BY <1>2
  <2>2. In(fs) = {"mclag", "stp_port"} /\ In(<<"stp_port">>) = {"stp_port"}
    BY <1>2
  <2> QED BY <2>1, <2>2 DEF Discoveries
<1>3. CASE fs = <<"vlan", "mclag", "stp_port">>
  <2>1. Head(fs) = "vlan" /\ Tail(fs) = <<"mclag", "stp_port">>
    BY <1>3
  <2>2. In(fs) = {"vlan", "mclag", "stp_port"}
        /\ In(<<"mclag", "stp_port">>) = {"mclag", "stp_port"}
    BY <1>3
  <2> QED BY <2>1, <2>2 DEF Discoveries
<1>4. CASE fs = <<"port_channel", "vlan", "mclag", "stp_port">>
  <2>1. Head(fs) = "port_channel" /\ Tail(fs) = <<"vlan", "mclag", "stp_port">>
    BY <1>4
  <2>2. In(fs) = {"port_channel", "vlan", "mclag", "stp_port"}
        /\ In(<<"vlan", "mclag", "stp_port">>) = {"vlan", "mclag", "stp_port"}
    BY <1>4
  <2> QED BY <2>1, <2>2 DEF Discoveries
<1> QED BY <1>1, <1>2, <1>3, <1>4 DEF Discoveries

-----------------------------------------------------------------------------
(* What the functions send fits what they discover.                        *)

FitsCall ==
    /\ phase' = "call"
    /\ then' \in Discoveries
    /\ \A i \in DOMAIN reqs' : Fits(reqs'[i], In(then'))
    /\ ~(AddsChannels(reqs') /\ DropsChannels(reqs'))

LEMMA RequestFits ==
    ASSUME NEW g \in Graphs, NEW fs, Within(g, fs)
    PROVE  /\ Fits(Update(g), fs) /\ Fits(Delete(g), fs)
           /\ NodesFor(Update(g).del, "port_channel") = {}
           /\ NodesFor(Delete(g).upd, "port_channel") = {}
BY NothingType DEF Fits, Within, Update, Delete, NodesFor

LEMMA InOne == \A f : In(<<f>>) = {f}
BY DEF In

(* A call that sends one request that adds or deletes a graph, or none.    *)
LEMMA OneFits ==
    ASSUME NEW g \in Graphs, NEW f \in Stored, Within(g, {f}), NEW q,
           q = Update(g) \/ q = Delete(g), Begin(<<q>>, <<f>>)
    PROVE  FitsCall
<1>1. /\ Fits(q, {f})
      /\ \/ NodesFor(q.del, "port_channel") = {}
         \/ NodesFor(q.upd, "port_channel") = {}
  BY RequestFits
<1>2. reqs' = <<q>> /\ then' = <<f>> /\ phase' = "call" /\ In(<<f>>) = {f}
  BY InOne DEF Begin
<1>3. <<f>> \in Discoveries
  BY DEF Stored, Discoveries
<1>4. \A i \in DOMAIN <<q>> : <<q>>[i] = q
  OBVIOUS
<1>5. ~(AddsChannels(<<q>>) /\ DropsChannels(<<q>>))
  BY <1>1, <1>4 DEF AddsChannels, DropsChannels
<1> QED BY <1>1, <1>2, <1>3, <1>4, <1>5 DEF FitsCall

LEMMA NoneFits ==
    ASSUME NEW fs \in Discoveries, Begin(<<>>, fs)
    PROVE  FitsCall
BY DEF Begin, FitsCall, AddsChannels, DropsChannels

(* Two requests that neither make nor delete a channel.                    *)
LEMMA TwoFit ==
    ASSUME NEW q, NEW r, NEW fs \in Discoveries, Begin(<<q, r>>, fs),
           Fits(q, In(fs)), Fits(r, In(fs)),
           NodesFor(q.upd, "port_channel") = {}, NodesFor(r.upd, "port_channel") = {}
    PROVE  FitsCall
<1>1. \A i \in DOMAIN <<q, r>> : <<q, r>>[i] = q \/ <<q, r>>[i] = r
  OBVIOUS
<1>2. ~AddsChannels(<<q, r>>)
  BY <1>1 DEF AddsChannels
<1> QED BY <1>1, <1>2 DEF Begin, FitsCall

(* A node of the feature that is discovered, and its relations to ports,   *)
(* for a port channel to interfaces only.                                  *)
LEMMA NodeWithin ==
    ASSUME NEW x \in NodeIds, NEW ps \in SUBSET Ports,
           Feature(x) = "port_channel" => ps \subseteq Interfaces
    PROVE  /\ Graph({x}, {}) \in Graphs
           /\ Within(Graph({x}, {}), {Feature(x)})
           /\ Graph({}, {x} \X ps) \in Graphs
           /\ Within(Graph({}, {x} \X ps), {Feature(x)})
           /\ Graph({x}, {x} \X ps) \in Graphs
           /\ Within(Graph({x}, {x} \X ps), {Feature(x)})
<1>1. {x} \in SUBSET NodeIds /\ {x} \X ps \in SUBSET (NodeIds \X Ports)
  OBVIOUS
<1>2. /\ Graph({x}, {}) \in Graphs /\ Graph({x}, {}).nodes = {x} /\ Graph({x}, {}).rels = {}
      /\ Graph({}, {x} \X ps) \in Graphs
      /\ Graph({}, {x} \X ps).nodes = {} /\ Graph({}, {x} \X ps).rels = {x} \X ps
      /\ Graph({x}, {x} \X ps) \in Graphs
      /\ Graph({x}, {x} \X ps).nodes = {x} /\ Graph({x}, {x} \X ps).rels = {x} \X ps
  BY <1>1, GraphType
<1>3. \A r \in {x} \X ps : r[1] = x /\ r[2] \in ps
  OBVIOUS
<1> QED BY <1>2, <1>3 DEF Within

LEMMA PairWithin ==
    ASSUME NEW x \in NodeIds, NEW p \in Ports,
           Feature(x) = "port_channel" => p \in Interfaces
    PROVE  /\ Graph({}, {<<x, p>>}) \in Graphs
           /\ Within(Graph({}, {<<x, p>>}), {Feature(x)})
<1>1. {<<x, p>>} = {x} \X {p}
  OBVIOUS
<1> QED BY <1>1, NodeWithin

(* The VLANs of a channel fit every discovery.                             *)
LEMMA ChannelVlansFit ==
    ASSUME NEW c \in Channels, NEW vs \in SUBSET Vlans
    PROVE  LET g == Graph({}, {<<Vlan(v), c>> : v \in vs})
           IN  g \in Graphs /\ g.nodes = {} /\ Within(g, {"port_channel"})
<1> DEFINE rs == {<<Vlan(v), c>> : v \in vs}
<1>1. rs \in SUBSET (NodeIds \X Ports)
  BY NodeTypes
<1>2. \A r \in rs : Feature(r[1]) = "vlan" /\ r[2] = c
  BY NodeFeatures
<1> HIDE DEF rs
<1>3. Graph({}, rs) \in Graphs /\ Graph({}, rs).nodes = {} /\ Graph({}, rs).rels = rs
  BY <1>1, GraphType
<1>4. Within(Graph({}, rs), {"port_channel"})
  BY <1>2, <1>3 DEF Within
<1> QED BY <1>3, <1>4 DEF rs

LEMMA PortChannelFunctionFits == PortChannelFunction => FitsCall
<1> SUFFICES ASSUME PortChannelFunction PROVE FitsCall
  OBVIOUS
<1>0. "port_channel" \in Stored /\ <<"port_channel">> \in Discoveries
      /\ In(<<"port_channel">>) = {"port_channel"}
  BY InOne DEF Stored, Discoveries
<1>1. CASE add_port_chnl
  <2>1. PICK c \in Channels : Begin(<<add_port_chnl_on_device(c)>>, <<"port_channel">>)
    BY <1>1 DEF add_port_chnl
  <2>2. /\ Graph({PortChannel(c)}, {}) \in Graphs
        /\ Within(Graph({PortChannel(c)}, {}), {"port_channel"})
    BY NodeTypes, NodeFeatures, NodeWithin
  <2> QED BY <1>0, <2>1, <2>2, OneFits DEF add_port_chnl_on_device
<1>2. CASE del_port_chnl
  <2>1. PICK cs \in {{c} : c \in Channels} \cup {Channels} :
           LET known == {c \in cs : PortChannel(c) \in db.nodes}
           IN  \E s \in [1..Cardinality(known) -> known] :
                   /\ \A c \in known : \E i \in DOMAIN s : s[i] = c
                   /\ Begin([i \in DOMAIN s |-> del_port_chnl_from_device(s[i])],
                            <<"port_channel">>)
    BY <1>2 DEF del_port_chnl
  <2> DEFINE known == {c \in cs : PortChannel(c) \in db.nodes}
  <2>2. PICK s \in [1..Cardinality(known) -> known] :
           Begin([i \in DOMAIN s |-> del_port_chnl_from_device(s[i])], <<"port_channel">>)
    BY <2>1
  <2>3. known \subseteq Channels
    OBVIOUS
  <2> HIDE DEF known
  <2>4. ASSUME NEW c \in Channels
        PROVE  /\ Fits(del_port_chnl_from_device(c), {"port_channel"})
               /\ NodesFor(del_port_chnl_from_device(c).upd, "port_channel") = {}
    BY NodeTypes, NodeFeatures, NodeWithin, RequestFits DEF del_port_chnl_from_device
  <2>5. \A i \in DOMAIN s : s[i] \in Channels
    BY <2>3
  <2> DEFINE ds == [i \in DOMAIN s |-> del_port_chnl_from_device(s[i])]
  <2>6. \A i \in DOMAIN ds : /\ Fits(ds[i], {"port_channel"})
                             /\ NodesFor(ds[i].upd, "port_channel") = {}
    BY <2>4, <2>5
  <2>7. reqs' = ds /\ then' = <<"port_channel">> /\ phase' = "call"
    BY <2>2 DEF Begin
  <2> HIDE DEF ds
  <2> QED BY <1>0, <2>6, <2>7 DEF FitsCall, AddsChannels
<1>3. CASE add_port_chnl_mem
  <2>1. PICK c \in Channels, is \in SUBSET Interfaces :
           Begin(<<add_port_chnl_member_on_device(c, is)>>, <<"port_channel">>)
    BY <1>3 DEF add_port_chnl_mem
  <2>2. is \in SUBSET Ports
    BY NodeTypes
  <2>3. /\ Graph({}, {PortChannel(c)} \X is) \in Graphs
        /\ Within(Graph({}, {PortChannel(c)} \X is), {"port_channel"})
    BY <2>2, NodeTypes, NodeFeatures, NodeWithin
  <2> QED BY <1>0, <2>1, <2>3, OneFits DEF add_port_chnl_member_on_device
<1>4. CASE del_port_chnl_mem
  <2>1. PICK c \in Channels, i \in Interfaces :
           Begin(<<remove_port_chnl_member(c, i)>>, <<"port_channel">>)
    BY <1>4 DEF del_port_chnl_mem
  <2>2. /\ Graph({}, {<<PortChannel(c), i>>}) \in Graphs
        /\ Within(Graph({}, {<<PortChannel(c), i>>}), {"port_channel"})
    BY NodeTypes, NodeFeatures, PairWithin
  <2> QED BY <1>0, <2>1, <2>2, OneFits DEF remove_port_chnl_member
<1>5. CASE add_port_chnl_vlan_members
  <2>1. PICK c \in Channels, vs \in SUBSET Vlans :
           \/ Begin(<<>>, <<"port_channel">>)
           \/ \E v \in vs :
                  Begin(<<delete_all_port_channel_member_vlan_from_device(c),
                          add_port_chnl_vlan(c, {v})>>, <<"port_channel">>)
           \/ Begin(<<add_port_chnl_vlan(c, vs)>>, <<"port_channel">>)
    BY <1>5 DEF add_port_chnl_vlan_members
  <2>2. CASE Begin(<<>>, <<"port_channel">>)
    BY <1>0, <2>2, NoneFits
  <2>3. CASE Begin(<<add_port_chnl_vlan(c, vs)>>, <<"port_channel">>)
    BY <1>0, <2>3, ChannelVlansFit, OneFits DEF add_port_chnl_vlan
  <2>4. ASSUME NEW v \in vs,
               Begin(<<delete_all_port_channel_member_vlan_from_device(c),
                       add_port_chnl_vlan(c, {v})>>, <<"port_channel">>)
        PROVE  FitsCall
    <3>1. {v} \in SUBSET Vlans /\ Vlans \in SUBSET Vlans
      OBVIOUS
    <3> DEFINE g == Graph({}, {<<Vlan(w), c>> : w \in Vlans})
               h == Graph({}, {<<Vlan(w), c>> : w \in {v}})
    <3>2. g \in Graphs /\ Within(g, {"port_channel"})
      BY <3>1, ChannelVlansFit
    <3>3. h \in Graphs /\ h.nodes = {} /\ Within(h, {"port_channel"})
      BY <3>1, ChannelVlansFit
    <3>4. /\ delete_all_port_channel_member_vlan_from_device(c) = Delete(g)
          /\ add_port_chnl_vlan(c, {v}) = Update(h)
      BY DEF delete_all_port_channel_member_vlan_from_device,
             delete_port_channel_member_vlan_from_device, add_port_chnl_vlan
    <3> HIDE DEF g, h
    <3>5. /\ Fits(Delete(g), {"port_channel"})
          /\ Fits(Update(h), {"port_channel"})
          /\ NodesFor(Delete(g).upd, "port_channel") = {}
      BY <3>2, <3>3, RequestFits
    <3>6. NodesFor(Update(h).upd, "port_channel") = {}
      BY <3>3 DEF Update, NodesFor
    <3> QED BY <1>0, <2>4, <3>4, <3>5, <3>6, TwoFit
  <2> QED BY <2>1, <2>2, <2>3, <2>4
<1>6. CASE remove_port_channel_vlan_member
  <2>1. PICK c \in Channels, vs \in SUBSET Vlans :
           \/ Begin(<<>>, <<"port_channel">>)
           \/ Begin(<<delete_port_channel_member_vlan_from_device(c, vs)>>,
                    <<"port_channel">>)
    BY <1>6 DEF remove_port_channel_vlan_member
  <2>2. CASE Begin(<<>>, <<"port_channel">>)
    BY <1>0, <2>2, NoneFits
  <2>3. CASE Begin(<<delete_port_channel_member_vlan_from_device(c, vs)>>,
                   <<"port_channel">>)
    BY <1>0, <2>3, ChannelVlansFit, OneFits DEF delete_port_channel_member_vlan_from_device
  <2> QED BY <2>1, <2>2, <2>3
<1>7. CASE remove_all_port_channel_vlan_member
  <2>1. PICK c \in Channels :
           Begin(<<delete_port_channel_member_vlan_from_device(c, Vlans)>>, <<"port_channel">>)
    BY <1>7 DEF remove_all_port_channel_vlan_member,
                delete_all_port_channel_member_vlan_from_device
  <2>2. Vlans \in SUBSET Vlans
    OBVIOUS
  <2> QED BY <1>0, <2>1, <2>2, ChannelVlansFit, OneFits
          DEF delete_port_channel_member_vlan_from_device
<1> QED BY <1>1, <1>2, <1>3, <1>4, <1>5, <1>6, <1>7 DEF PortChannelFunction

LEMMA VlanFunctionFits == VlanFunction => FitsCall
<1> SUFFICES ASSUME VlanFunction PROVE FitsCall
  OBVIOUS
<1>0. "vlan" \in Stored /\ <<"vlan">> \in Discoveries
  BY DEF Stored, Discoveries
<1>1. CASE config_vlan
  <2>1. PICK v \in Vlans, ps \in SUBSET Ports :
           Begin(<<config_vlan_on_device(v, ps)>>, <<"vlan">>)
    BY <1>1 DEF config_vlan
  <2>2. /\ Graph({Vlan(v)}, {Vlan(v)} \X ps) \in Graphs
        /\ Within(Graph({Vlan(v)}, {Vlan(v)} \X ps), {"vlan"})
    BY NodeTypes, NodeFeatures, NodeWithin
  <2> QED BY <1>0, <2>1, <2>2, OneFits DEF config_vlan_on_device
<1>2. CASE del_vlan
  <2>1. PICK v \in Vlans : Begin(<<del_vlan_from_device(v)>>, <<"vlan">>)
    BY <1>2 DEF del_vlan
  <2>2. Graph({Vlan(v)}, {}) \in Graphs /\ Within(Graph({Vlan(v)}, {}), {"vlan"})
    BY NodeTypes, NodeFeatures, NodeWithin
  <2> QED BY <1>0, <2>1, <2>2, OneFits DEF del_vlan_from_device
<1>3. CASE add_vlan_mem
  BY <1>0, <1>3, NoneFits DEF add_vlan_mem
<1>4. CASE del_vlan_mem
  <2>1. PICK v \in Vlans, p \in Ports :
           Begin(<<delete_vlan_members_on_device(v, p)>>, <<"vlan">>)
    BY <1>4 DEF del_vlan_mem
  <2>2. /\ Graph({}, {<<Vlan(v), p>>}) \in Graphs
        /\ Within(Graph({}, {<<Vlan(v), p>>}), {"vlan"})
    BY NodeTypes, NodeFeatures, PairWithin
  <2> QED BY <1>0, <2>1, <2>2, OneFits DEF delete_vlan_members_on_device
<1> QED BY <1>1, <1>2, <1>3, <1>4 DEF VlanFunction

LEMMA MclagFunctionFits == MclagFunction => FitsCall
<1> SUFFICES ASSUME MclagFunction PROVE FitsCall
  OBVIOUS
<1>0. "mclag" \in Stored
  BY DEF Stored
<1>1. CASE config_mclag
  <2>1. PICK d \in Domains : Begin(<<config_mclag_domain_on_device(d)>>, <<"mclag">>)
    BY <1>1 DEF config_mclag
  <2>2. Graph({Mclag(d)}, {}) \in Graphs /\ Within(Graph({Mclag(d)}, {}), {"mclag"})
    BY NodeTypes, NodeFeatures, NodeWithin
  <2> QED BY <1>0, <2>1, <2>2, OneFits DEF config_mclag_domain_on_device
<1>2. CASE del_mclag
  <2> DEFINE ds == {Mclag(d) : d \in Domains}
  <2>1. ds \in SUBSET NodeIds /\ \A x \in ds : Feature(x) = "mclag"
    BY NodeTypes, NodeFeatures
  <2> HIDE DEF ds
  <2>2. Graph(ds, {}) \in Graphs /\ Within(Graph(ds, {}), {"mclag"})
    BY <2>1, GraphType DEF Within
  <2>3. Begin(<<Delete(Graph(ds, {}))>>, <<"mclag">>)
    BY <1>2 DEF del_mclag, del_mclag_from_device, ds
  <2> QED BY <1>0, <2>2, <2>3, OneFits
<1>3. CASE config_mclag_mem_portchnl
  <2>1. PICK d \in Domains, c \in Channels :
           Begin(<<config_mclag_member_on_device(d, c)>>, <<"mclag">>)
    BY <1>3 DEF config_mclag_mem_portchnl
  <2>2. /\ Graph({}, {<<Mclag(d), c>>}) \in Graphs
        /\ Within(Graph({}, {<<Mclag(d), c>>}), {"mclag"})
    BY NodeTypes, NodeFeatures, PairWithin
  <2> QED BY <1>0, <2>1, <2>2, OneFits DEF config_mclag_member_on_device
<1>4. CASE del_mclag_member
  <2>1. PICK cs \in {{c} : c \in Channels} \cup {Channels} :
           Begin(<<del_mclag_member_on_device(cs)>>, <<"mclag">>)
    BY <1>4 DEF del_mclag_member
  <2> DEFINE rs == {<<Mclag(d), c>> : d \in Domains, c \in cs}
  <2>2. rs \in SUBSET (NodeIds \X Ports) /\ \A r \in rs : Feature(r[1]) = "mclag"
    BY NodeTypes, NodeFeatures
  <2>3. del_mclag_member_on_device(cs) = Delete(Graph({}, rs))
    BY DEF del_mclag_member_on_device
  <2> HIDE DEF rs
  <2>4. Graph({}, rs) \in Graphs /\ Within(Graph({}, rs), {"mclag"})
    BY <2>2, GraphType DEF Within
  <2> QED BY <1>0, <2>1, <2>3, <2>4, OneFits
<1> QED BY <1>1, <1>2, <1>3, <1>4 DEF MclagFunction

LEMMA StpPortFunctionFits == StpPortFunction => FitsCall
<1> SUFFICES ASSUME StpPortFunction PROVE FitsCall
  OBVIOUS
<1>0. <<>> \in Discoveries
  BY DEF Discoveries
<1> DEFINE fs == In(<<>>)
<1>1. ASSUME NEW p \in Ports
      PROVE  /\ Fits(delete_stp_port_member_from_device(p), fs)
             /\ NodesFor(delete_stp_port_member_from_device(p).upd, "port_channel") = {}
             /\ Fits(Update(Graph({StpPort(p)}, {<<StpPort(p), p>>})), fs)
             /\ NodesFor(Update(Graph({StpPort(p)}, {<<StpPort(p), p>>})).upd,
                         "port_channel") = {}
  <2> DEFINE x == StpPort(p)
  <2>1. x \in NodeIds /\ Feature(x) = "stp_port"
    BY NodeTypes, NodeFeatures
  <2> HIDE DEF x
  <2>2. /\ Graph({x}, {}) \in Graphs /\ Graph({x}, {}).nodes = {x} /\ Graph({x}, {}).rels = {}
        /\ Graph({x}, {<<x, p>>}) \in Graphs
        /\ Graph({x}, {<<x, p>>}).nodes = {x} /\ Graph({x}, {<<x, p>>}).rels = {<<x, p>>}
    BY <2>1, GraphType
  <2> HIDE DEF fs
  <2>3. Within(Graph({x}, {}), fs) /\ Within(Graph({x}, {<<x, p>>}), fs)
    <3>1. \A r \in {<<x, p>>} : r[1] = x
      OBVIOUS
    <3> QED BY <2>1, <2>2, <3>1 DEF Within
  <2>4. Fits(Delete(Graph({x}, {})), fs) /\ Fits(Update(Graph({x}, {<<x, p>>})), fs)
        /\ NodesFor(Delete(Graph({x}, {})).upd, "port_channel") = {}
    BY <2>2, <2>3, RequestFits
  <2>5. NodesFor(Update(Graph({x}, {<<x, p>>})).upd, "port_channel") = {}
    BY <2>1, <2>2 DEF Update, NodesFor
  <2> QED BY <2>4, <2>5 DEF x, delete_stp_port_member_from_device
<1>2. CASE add_stp_port_members
  <2>1. PICK p \in Ports : Begin(add_stp_port_members_on_device(p), <<>>)
    BY <1>2 DEF add_stp_port_members
  <2> DEFINE q == delete_stp_port_member_from_device(p)
             r == Update(Graph({StpPort(p)}, {<<StpPort(p), p>>}))
             t == [q EXCEPT !.must = FALSE]
  <2>2. t.del = q.del /\ t.upd = q.upd
    BY DEF delete_stp_port_member_from_device, Delete
  <2>3. Fits(t, fs) /\ NodesFor(t.upd, "port_channel") = {}
    <3>1. Fits(q, fs) /\ NodesFor(q.upd, "port_channel") = {}
      BY <1>1
    <3> HIDE DEF q, t
    <3> QED BY <2>2, <3>1 DEF Fits
  <2>4. Begin(<<t, r>>, <<>>)
    BY <2>1 DEF add_stp_port_members_on_device
  <2>5. Fits(r, fs) /\ NodesFor(r.upd, "port_channel") = {}
    BY <1>1
  <2> HIDE DEF q, r, t
  <2> QED BY <1>0, <2>3, <2>4, <2>5, TwoFit
<1>3. CASE delete_stp_port_member
  <2>1. PICK p \in Ports : Begin(<<delete_stp_port_member_from_device(p)>>, <<>>)
    BY <1>3 DEF delete_stp_port_member
  <2> DEFINE q == delete_stp_port_member_from_device(p)
  <2>2. Fits(q, fs) /\ NodesFor(q.upd, "port_channel") = {} /\ Begin(<<q>>, <<>>)
    BY <1>1, <2>1
  <2> HIDE DEF q
  <2>3. \A i \in DOMAIN <<q>> : <<q>>[i] = q
    OBVIOUS
  <2>4. ~AddsChannels(<<q>>)
    BY <2>2, <2>3 DEF AddsChannels
  <2> QED BY <1>0, <2>2, <2>3, <2>4 DEF Begin, FitsCall
<1> QED BY <1>2, <1>3 DEF StpPortFunction

-----------------------------------------------------------------------------
(* The steps.                                                              *)

LEMMA ApplyGraph ==
    ASSUME NEW g \in Graphs, NEW q \in Request
    PROVE  /\ Apply(g, q) \in Graphs
           /\ \A x : Feature(x) # "stp_port" =>
                  (x \in Apply(g, q).nodes <=>
                       x \in (g.nodes \ q.del.nodes) \cup q.upd.nodes)
           /\ \A r : r \in Apply(g, q).rels <=>
                  /\ r \in (g.rels \ q.del.rels) \cup q.upd.rels
                  /\ r[1] \in Apply(g, q).nodes /\ Known(Apply(g, q).nodes, r[2])
<1> DEFINE ns == (g.nodes \ q.del.nodes) \cup q.upd.nodes
           kept == {x \in ns : Feature(x) = "stp_port" => Known(ns, x[2])}
           rs == Connected(kept, (g.rels \ q.del.rels) \cup q.upd.rels)
<1>1. kept \in SUBSET NodeIds
  BY DEF Graphs, Request
<1>2. rs \in SUBSET (NodeIds \X Ports)
  BY DEF Graphs, Request, Connected
<1>3. Apply(g, q) = Graph(kept, rs)
  BY DEF Apply
<1>4. \A x : Feature(x) # "stp_port" => (x \in kept <=> x \in ns)
  OBVIOUS
<1>5. \A r : r \in rs <=> /\ r \in (g.rels \ q.del.rels) \cup q.upd.rels
                          /\ r[1] \in kept /\ Known(kept, r[2])
  BY DEF Connected
<1> HIDE DEF kept, rs
<1>6. Graph(kept, rs) \in Graphs /\ Graph(kept, rs).nodes = kept /\ Graph(kept, rs).rels = rs
  BY <1>1, <1>2, GraphType
<1> QED BY <1>3, <1>4, <1>5, <1>6

(* A request of a call leaves the features that are not discovered after   *)
(* it as they are, but for the relations to the channels it deletes.       *)
LEMMA ApplyElsewhere ==
    ASSUME NEW g \in Graphs, Whole(g), NEW q \in Request, NEW fs, Fits(q, fs),
           NEW f \in Stored, f \notin fs
    PROVE  /\ NodesFor(Apply(g, q), f) = NodesFor(g, f)
           /\ RelsFor(Apply(g, q), f) =
                  {r \in RelsFor(g, f) : Known(Apply(g, q).nodes, r[2])}
<1> DEFINE h == Apply(g, q)
<1>1. f # "stp_port"
  BY DEF Stored
<1>2. \A x \in q.del.nodes \cup q.upd.nodes : Feature(x) # f
  BY <1>1 DEF Fits, Within
<1>3. \A r \in q.del.rels \cup q.upd.rels :
          ~(Feature(r[1]) = f /\ (f = "vlan" => r[2] \notin Channels))
  BY <1>1 DEF Fits, Within
<1>4. NodesFor(h, f) = NodesFor(g, f)
  BY <1>1, <1>2, ApplyGraph DEF NodesFor
<1>5. ASSUME NEW r \in RelsFor(h, f)
      PROVE  r \in RelsFor(g, f) /\ Known(h.nodes, r[2])
  BY <1>3, <1>5, ApplyGraph DEF RelsFor
<1>6. ASSUME NEW r \in RelsFor(g, f), Known(h.nodes, r[2])
      PROVE  r \in RelsFor(h, f)
  <2>1. r \in g.rels /\ Feature(r[1]) = f /\ (f = "vlan" => r[2] \notin Channels)
    BY <1>6 DEF RelsFor
  <2>2. r[1] \in NodesFor(g, f)
    BY <2>1 DEF Whole, NodesFor
  <2>3. r[1] \in h.nodes
    BY <1>4, <2>2 DEF NodesFor
  <2>4. r \in h.rels
    BY <1>3, <1>6, <2>1, <2>3, ApplyGraph
  <2> QED BY <2>1, <2>4 DEF RelsFor
<1> QED BY <1>4, <1>5, <1>6

LEMMA ApplyWhole ==
    ASSUME NEW g \in Graphs, NEW q \in Request, NEW fs, Fits(q, fs),
           \A r \in g.rels : Feature(r[1]) = "port_channel" => r[2] \in Interfaces
    PROVE  LET h == Apply(g, q)
           IN  /\ Whole(h)
               /\ \A r \in h.rels : Feature(r[1]) = "port_channel" => r[2] \in Interfaces
<1> DEFINE h == Apply(g, q)
<1>1. Whole(h)
  BY ApplyGraph DEF Whole
<1>2. \A r \in h.rels : r \in g.rels \/ r \in q.upd.rels
  BY ApplyGraph
<1>3. \A r \in q.upd.rels : Feature(r[1]) = "port_channel" => r[2] \in Interfaces
  BY DEF Fits, Within
<1> HIDE DEF h
<1>4. \A r \in h.rels : Feature(r[1]) = "port_channel" => r[2] \in Interfaces
  BY <1>2, <1>3
<1> QED BY <1>1, <1>4 DEF h

(* The Sets: executed or not, with others to follow or not.                *)
LEMMA ExecutedSync ==
    ASSUME SyncInv, Sending, dev' = Apply(dev, Head(reqs))
    PROVE  /\ Whole(dev')
           /\ \A r \in dev'.rels : Feature(r[1]) = "port_channel" => r[2] \in Interfaces
           /\ AddsChannels(reqs) /\ ~missed =>
                  NodesFor(db, "port_channel") \subseteq NodesFor(dev', "port_channel")
           /\ ~missed => \A f \in Stored : f \in In(then) \/
                  /\ NodesFor(db, f) = NodesFor(dev', f)
                  /\ RelsFor(dev', f) = {r \in RelsFor(db, f) : Known(dev'.nodes, r[2])}
<1> DEFINE q == Head(reqs)
<1>1. dev \in Graphs /\ db \in Graphs /\ q \in Request
  BY DEF SyncInv, IInv, TypeOK, Sending
<1>2. q = reqs[1] /\ 1 \in DOMAIN reqs
  BY DEF Sending, SyncInv, IInv, TypeOK
<1>3. Fits(q, In(then))
  BY <1>2 DEF SyncInv, RequestsFit
<1>4. /\ dev' \in Graphs /\ Whole(dev')
      /\ \A r \in dev'.rels : Feature(r[1]) = "port_channel" => r[2] \in Interfaces
  BY <1>1, <1>3, ApplyGraph, ApplyWhole DEF SyncInv
<1>5. AddsChannels(reqs) =>
          NodesFor(dev, "port_channel") \subseteq NodesFor(dev', "port_channel")
  <2> SUFFICES ASSUME AddsChannels(reqs), NEW x \in NodesFor(dev, "port_channel")
               PROVE  x \in NodesFor(dev', "port_channel")
    OBVIOUS
  <2>1. NodesFor(q.del, "port_channel") = {}
    BY <1>2 DEF DropsChannels, SyncInv, RequestsFit
  <2>2. x \in dev.nodes /\ Feature(x) = "port_channel" /\ x \notin q.del.nodes
    BY <2>1 DEF NodesFor
  <2> QED BY <1>1, <2>2, ApplyGraph DEF NodesFor
<1>6. AddsChannels(reqs) /\ ~missed =>
          NodesFor(db, "port_channel") \subseteq NodesFor(dev', "port_channel")
  BY <1>5 DEF SyncInv, RequestsFit
<1>7. ASSUME ~missed, NEW f \in Stored, f \notin In(then)
      PROVE  /\ NodesFor(db, f) = NodesFor(dev', f)
             /\ RelsFor(dev', f) = {r \in RelsFor(db, f) : Known(dev'.nodes, r[2])}
  <2>1. /\ NodesFor(db, f) = NodesFor(dev, f)
        /\ RelsFor(dev, f) = {r \in RelsFor(db, f) : Known(dev.nodes, r[2])}
    BY <1>7 DEF SyncInv, Matches
  <2>2. /\ NodesFor(dev', f) = NodesFor(dev, f)
        /\ RelsFor(dev', f) = {r \in RelsFor(dev, f) : Known(dev'.nodes, r[2])}
    BY <1>1, <1>3, <1>7, ApplyElsewhere DEF SyncInv
  <2>3. ASSUME NEW r \in RelsFor(db, f), Known(dev'.nodes, r[2])
        PROVE  Known(dev.nodes, r[2])
    <3>1. r \in db.rels /\ r[2] \in Ports /\ Known(db.nodes, r[2])
      BY <1>1, <2>3, RelType DEF RelsFor, SyncInv, Whole
    <3>2. CASE AddsChannels(reqs)
      BY <1>1, <1>7, <3>1, <3>2, KnownGrows DEF SyncInv, RequestsFit
    <3>3. CASE ~AddsChannels(reqs)
      <4>1. NodesFor(q.upd, "port_channel") = {}
        BY <1>2, <3>3 DEF AddsChannels
      <4>2. NodesFor(dev', "port_channel") \subseteq NodesFor(dev, "port_channel")
        BY <1>1, <4>1, ApplyGraph DEF NodesFor
      <4> QED BY <1>1, <1>4, <2>3, <3>1, <4>2, KnownGrows
    <3> QED BY <3>2, <3>3
  <2> QED BY <2>1, <2>2, <2>3
<1> QED BY <1>4, <1>6, <1>7

LEMMA SetSync == SyncInv /\ (SetSucceeds \/ SetRefused \/ SetFails \/ SetNotSent) => SyncInv'
<1> SUFFICES ASSUME SyncInv, SetSucceeds \/ SetRefused \/ SetFails \/ SetNotSent PROVE SyncInv'
  OBVIOUS
<1>0. IInv'
  BY SetIInv DEF SyncInv
<1>1. /\ Sending /\ phase = "call" /\ phase' = "call" /\ then' = then
      /\ db' = db /\ missed' = missed /\ got' = got
      /\ reqs' = Tail(reqs) \/ reqs' = <<>>
      /\ dev' = Apply(dev, Head(reqs)) \/ dev' = dev
  BY DEF SetSucceeds, SetRefused, SetFails, SetNotSent, Sending, Executed, AfterError
<1>2. reqs \in Seq(Request) /\ reqs # <<>>
  BY <1>1 DEF Sending, SyncInv, IInv, TypeOK
<1>3. \A i \in DOMAIN reqs' : i + 1 \in DOMAIN reqs /\ reqs'[i] = reqs[i + 1]
  BY <1>1, <1>2
<1>4. /\ AddsChannels(reqs') => AddsChannels(reqs)
      /\ DropsChannels(reqs') => DropsChannels(reqs)
      /\ \A i \in DOMAIN reqs' : Fits(reqs'[i], In(then'))
  BY <1>1, <1>3 DEF AddsChannels, DropsChannels, SyncInv, RequestsFit
<1>5. /\ Whole(dev')
      /\ \A r \in dev'.rels : Feature(r[1]) = "port_channel" => r[2] \in Interfaces
      /\ AddsChannels(reqs) /\ ~missed =>
             NodesFor(db, "port_channel") \subseteq NodesFor(dev', "port_channel")
      /\ ~missed => \A f \in Stored : f \in In(then) \/
             /\ NodesFor(db, f) = NodesFor(dev', f)
             /\ RelsFor(dev', f) = {r \in RelsFor(db, f) : Known(dev'.nodes, r[2])}
  <2>1. CASE dev' = Apply(dev, Head(reqs))
    BY <1>1, <2>1, ExecutedSync
  <2>2. CASE dev' = dev
    BY <2>2 DEF SyncInv, RequestsFit, Matches
  <2> QED BY <1>1, <2>1, <2>2
<1>6. RequestsFit'
  BY <1>1, <1>4, <1>5 DEF RequestsFit, SyncInv
<1>7. AnswerExact' /\ InsertedTaken'
  BY <1>1 DEF AnswerExact, InsertedTaken
<1>8. ~missed' => \A f \in Stored : f \in In(then') \/ Matches(f)'
  BY <1>1, <1>5 DEF Matches
<1> QED BY <1>0, <1>1, <1>5, <1>6, <1>7, <1>8 DEF SyncInv

(* Neither graph changes when a call begins.                               *)
LEMMA CallSync == SyncInv /\ (Configure \/ DiscoverDevice) => SyncInv'
<1> SUFFICES ASSUME SyncInv, Configure \/ DiscoverDevice PROVE SyncInv'
  OBVIOUS
<1>0. IInv'
  BY ConfigureIInv, DiscoverDeviceIInv DEF SyncInv
<1>1. phase = "idle" /\ dev' = dev /\ db' = db
  BY DEF Configure, DiscoverDevice
<1>2. FitsCall
  <2>1. <<"port_channel", "vlan", "mclag", "stp_port">> \in Discoveries
    BY DEF Discoveries
  <2> QED BY <2>1, NoneFits, PortChannelFunctionFits, VlanFunctionFits,
             MclagFunctionFits, StpPortFunctionFits DEF Configure, DiscoverDevice
<1>3. then = <<>> /\ In(<<>>) = {}
  BY <1>1 DEF SyncInv, In
<1>4. ~missed => \A f \in Stored : Matches(f)
  BY <1>3 DEF SyncInv
<1>5. CASE Configure
  <2>1. missed' = missed
    BY <1>5 DEF Configure
  <2>2. ~missed => NodesFor(db, "port_channel") = NodesFor(dev, "port_channel")
    BY <1>4 DEF Stored, Matches
  <2>3. RequestsFit'
    BY <1>1, <1>2, <2>1, <2>2 DEF RequestsFit, FitsCall
  <2>4. ~missed' => \A f \in Stored : Matches(f)'
    BY <1>1, <1>4, <2>1 DEF Matches
  <2> QED BY <1>0, <1>1, <1>2, <2>3, <2>4
          DEF SyncInv, FitsCall, AnswerExact, InsertedTaken
<1>6. CASE DiscoverDevice
  <2>1. reqs' = <<>> /\ then' = <<"port_channel", "vlan", "mclag", "stp_port">>
    BY <1>6 DEF DiscoverDevice, Begin
  <2>2. then'[1] = "port_channel" /\ then'[2] = "vlan" /\ then'[3] = "mclag"
        /\ 1 \in DOMAIN then' /\ 2 \in DOMAIN then' /\ 3 \in DOMAIN then'
    BY <2>1
  <2>3. \A f \in Stored : f \in In(then')
    BY <2>2 DEF In, Stored
  <2>4. RequestsFit'
    BY <2>1 DEF RequestsFit, AddsChannels
  <2> QED BY <1>0, <1>1, <1>2, <2>3, <2>4
          DEF SyncInv, FitsCall, AnswerExact, InsertedTaken
<1> QED BY <1>5, <1>6

(* A Get is answered with all that the device has of the feature.          *)
LEMMA GetSync == SyncInv /\ (Get \/ GetFails \/ GetNothing) => SyncInv'
<1> SUFFICES ASSUME SyncInv, Get \/ GetFails \/ GetNothing PROVE SyncInv'
  OBVIOUS
<1>0. IInv'
  BY GetIInv DEF SyncInv
<1>1. /\ reqs = <<>> /\ then # <<>> /\ phase = "call"
      /\ reqs' = reqs /\ dev' = dev /\ db' = db /\ then \in Discoveries
  BY DEF Get, GetFails, GetNothing, Getting, SyncInv
<1>2. \A i : i \notin DOMAIN reqs'
  BY <1>1
<1>3. RequestsFit'
  BY <1>2 DEF RequestsFit, AddsChannels
<1>4. CASE Get
  <2>1. got' = Of(dev, Head(then)) /\ todo' = got'.nodes /\ then' = then
        /\ phase' = "insert" /\ missed' = missed
    BY <1>4 DEF Get
  <2>2. /\ got'.nodes = {x \in dev.nodes : Feature(x) = Head(then)}
        /\ got'.rels = {r \in dev.rels : Feature(r[1]) = Head(then)}
    BY <2>1, OfType DEF SyncInv, IInv, TypeOK
  <2>3. AnswerExact'
    BY <1>1, <2>1, <2>2 DEF AnswerExact
  <2>4. InsertedTaken'
    BY <2>1 DEF InsertedTaken
  <2>5. ~missed' => \A f \in Stored : f \in In(then') \/ Matches(f)'
    BY <1>1, <2>1 DEF SyncInv, Matches
  <2> QED BY <1>0, <1>1, <1>3, <2>1, <2>3, <2>4, <2>5 DEF SyncInv
<1>5. CASE GetFails
  <2>1. missed' = TRUE
    BY <1>5 DEF GetFails
  <2>2. CASE Head(then) = "stp_port"
    <3>1. got' = Nothing /\ todo' = {} /\ phase' = "insert" /\ then' = then
      BY <1>5, <2>2 DEF GetFails
    <3>2. AnswerExact'
      BY <1>1, <2>2, <3>1, NothingType DEF AnswerExact
    <3> QED BY <1>0, <1>1, <1>3, <2>1, <3>1, <3>2 DEF SyncInv
  <2>3. CASE Head(then) # "stp_port"
    <3>1. phase' = "call" /\ then' \in {Tail(then), <<>>}
      BY <1>1, <1>5, <2>3 DEF GetFails
    <3>2. then' \in Discoveries
      BY <1>1, <3>1, DiscoveryOrder DEF Discoveries
    <3> QED BY <1>0, <1>1, <1>3, <2>1, <3>1, <3>2 DEF SyncInv, AnswerExact
  <2> QED BY <2>2, <2>3
<1>6. CASE GetNothing
  <2>1. /\ missed' = TRUE /\ got' = Nothing /\ todo' = {}
        /\ phase' = "insert" /\ then' = then
    BY <1>6 DEF GetNothing
  <2>2. AnswerExact'
    BY <1>1, <2>1, NothingType DEF AnswerExact
  <2> QED BY <1>0, <1>1, <1>3, <2>1, <2>2 DEF SyncInv
<1> QED BY <1>4, <1>5, <1>6

LEMMA UpsertedGraph ==
    ASSUME db \in Graphs, NEW g \in Graphs, NEW x \in NodeIds
    PROVE  /\ Upserted(x, g) \in Graphs
           /\ Upserted(x, g).nodes = db.nodes \cup {x}
           /\ \A r : r \in Upserted(x, g).rels <=>
                  \/ r \in db.rels /\ ~(Feature(x) \in {"port_channel", "vlan"} /\ r[1] = x)
                  \/ r \in g.rels /\ r[1] = x /\ Known(db.nodes \cup {x}, r[2])
<1> DEFINE ns == db.nodes \cup {x}
           old == IF Feature(x) \in {"port_channel", "vlan"} THEN RelsOf(x, db) ELSE {}
           rs == (db.rels \ old) \cup Connected(ns, RelsOf(x, g))
<1>1. ns \in SUBSET NodeIds
  BY DEF Graphs
<1>2. rs \in SUBSET (NodeIds \X Ports)
  BY DEF Graphs, Connected, RelsOf
<1>3. Upserted(x, g) = Graph(ns, rs)
  BY DEF Upserted
<1>4. \A r : r \in rs <=>
          \/ r \in db.rels /\ ~(Feature(x) \in {"port_channel", "vlan"} /\ r[1] = x)
          \/ r \in g.rels /\ r[1] = x /\ Known(ns, r[2])
  BY DEF Connected, RelsOf
<1> HIDE DEF ns, rs
<1>5. Graph(ns, rs) \in Graphs /\ Graph(ns, rs).nodes = ns /\ Graph(ns, rs).rels = rs
  BY <1>1, <1>2, GraphType
<1> QED BY <1>3, <1>4, <1>5 DEF ns

(* Inserting a node leaves the DB whole, and other features as they are.   *)
LEMMA UpsertedElsewhere ==
    ASSUME db \in Graphs, Whole(db), NEW g \in Graphs, NEW x \in NodeIds
    PROVE  /\ Whole(Upserted(x, g))
           /\ \A f : f # Feature(x) => /\ NodesFor(Upserted(x, g), f) = NodesFor(db, f)
                                       /\ RelsFor(Upserted(x, g), f) = RelsFor(db, f)
<1> DEFINE h == Upserted(x, g)
<1>0. /\ h \in Graphs /\ h.nodes = db.nodes \cup {x}
      /\ \A r : r \in h.rels <=>
             \/ r \in db.rels /\ ~(Feature(x) \in {"port_channel", "vlan"} /\ r[1] = x)
             \/ r \in g.rels /\ r[1] = x /\ Known(db.nodes \cup {x}, r[2])
  BY UpsertedGraph
<1> HIDE DEF h
<1>1. /\ h \in Graphs /\ h.nodes = db.nodes \cup {x}
      /\ \A r \in h.rels : \/ r \in db.rels
                           \/ r[1] = x /\ Known(h.nodes, r[2])
  BY <1>0
<1>2. \A r : r[1] # x => (r \in h.rels <=> r \in db.rels)
  BY <1>0
<1>3. Whole(h)
  <2>1. NodesFor(db, "port_channel") \subseteq NodesFor(h, "port_channel")
    BY <1>1 DEF NodesFor
  <2>2. ASSUME NEW r \in h.rels
        PROVE  r[1] \in h.nodes /\ Known(h.nodes, r[2])
    <3>1. r[2] \in Ports
      BY <1>1, RelType
    <3>2. CASE r \in db.rels
      BY <1>1, <2>1, <3>1, <3>2, KnownGrows DEF Whole
    <3>3. CASE r[1] = x /\ Known(h.nodes, r[2])
      BY <1>1, <3>3
    <3> QED BY <1>1, <3>2, <3>3
  <2> QED BY <2>2 DEF Whole
<1>4. ASSUME NEW f, f # Feature(x)
      PROVE  NodesFor(h, f) = NodesFor(db, f) /\ RelsFor(h, f) = RelsFor(db, f)
  <2>1. NodesFor(h, f) = NodesFor(db, f)
    BY <1>1, <1>4 DEF NodesFor
  <2>2. \A r : Feature(r[1]) = f => (r \in h.rels <=> r \in db.rels)
    BY <1>2, <1>4
  <2> QED BY <2>1, <2>2 DEF RelsFor
<1> QED BY <1>3, <1>4 DEF h

LEMMA InsertSync == SyncInv /\ Insert => SyncInv'
<1> SUFFICES ASSUME SyncInv, Insert PROVE SyncInv'
  OBVIOUS
<1>0. IInv'
  BY InsertIInv DEF SyncInv
<1> PICK f : f = Head(then)
  OBVIOUS
<1>1. PICK x \in todo : db' = Upserted(x, got) /\ todo' = todo \ {x}
  BY DEF Insert
<1>2. /\ phase = "insert" /\ phase' = "insert" /\ reqs = <<>> /\ reqs' = <<>>
      /\ UNCHANGED <<dev, then, got, missed>> /\ then # <<>>
  BY DEF Insert, app, SyncInv, AnswerExact, IInv, TypeOK
<1>3. db \in Graphs /\ got \in Graphs /\ dev \in Graphs /\ x \in NodeIds /\ x \in got.nodes
  BY <1>1, <1>2 DEF SyncInv, IInv, TypeOK, AnswerExact
<1>4. Feature(x) = f /\ (f # "stp_port" /\ ~missed => got = Of(dev, f))
  BY <1>2, <1>3 DEF SyncInv, AnswerExact
<1>5. /\ f \in In(then) /\ f \in Features
      /\ "port_channel" \in In(then) => f = "port_channel"
  BY <1>2, DiscoveryOrder DEF SyncInv
<1>6. Whole(db')
  BY <1>1, <1>3, UpsertedElsewhere DEF SyncInv
<1>7. RequestsFit'
  BY <1>2 DEF RequestsFit, AddsChannels
<1>8. AnswerExact'
  BY <1>1, <1>2 DEF AnswerExact, SyncInv
<1>9. ASSUME ~missed, NEW e \in Stored, e \notin In(then)
      PROVE  Matches(e)'
  <2>1. Matches(e) /\ e # Feature(x)
    BY <1>4, <1>5, <1>9 DEF SyncInv
  <2>2. NodesFor(db', e) = NodesFor(db, e) /\ RelsFor(db', e) = RelsFor(db, e)
    BY <1>1, <1>3, <2>1, UpsertedElsewhere DEF SyncInv
  <2> QED BY <1>2, <2>1, <2>2 DEF Matches
<1>10. ASSUME ~missed, f # "stp_port", NEW y \in got.nodes \ todo'
       PROVE  Taken(y, f)'
  <2>1. /\ db'.nodes = db.nodes \cup {x}
        /\ \A r : r \in db'.rels <=>
               \/ r \in db.rels /\ ~(f \in {"port_channel", "vlan"} /\ r[1] = x)
               \/ r \in got.rels /\ r[1] = x /\ Known(db'.nodes, r[2])
    <3> DEFINE h == Upserted(x, got)
    <3>1. /\ h.nodes = db.nodes \cup {x}
          /\ \A r : r \in h.rels <=>
                 \/ r \in db.rels /\ ~(Feature(x) \in {"port_channel", "vlan"} /\ r[1] = x)
                 \/ r \in got.rels /\ r[1] = x /\ Known(db.nodes \cup {x}, r[2])
      BY <1>3, UpsertedGraph
    <3>2. db' = h
      BY <1>1
    <3> HIDE DEF h
    <3> QED BY <1>4, <3>1, <3>2
  <2>2. CASE y # x
    <3>1. Taken(y, f)
      BY <1>1, <1>2, <1>10, <2>2 DEF SyncInv, InsertedTaken
    <3>2. \A r : r[1] = y => (r \in db'.rels <=> r \in db.rels)
      BY <2>1, <2>2
    <3>3. {r \in RelsFor(db', f) : r[1] = y} = {r \in RelsFor(db, f) : r[1] = y}
      BY <3>2 DEF RelsFor
    <3> QED BY <1>2, <2>1, <3>1, <3>2, <3>3 DEF Taken, RelsOf
  <2>3. CASE y = x
    <3>1. y \in db'.nodes
      BY <2>1, <2>3
    <3>2. /\ got.rels = {r \in dev.rels : Feature(r[1]) = f}
      BY <1>3, <1>4, <1>10, OfType
    <3>3. CASE f = "mclag"
      <4>1. NodesFor(db, "port_channel") = NodesFor(dev, "port_channel")
        BY <1>5, <1>10, <3>3 DEF SyncInv, Matches, Stored
      <4>2. NodesFor(dev, "port_channel") \subseteq NodesFor(db', "port_channel")
        BY <2>1, <4>1 DEF NodesFor
      <4>3. \A r \in got.rels : Known(dev.nodes, r[2]) /\ r[2] \in Ports
        BY <1>3, <3>2, RelType DEF SyncInv, Whole
      <4>4. db' \in Graphs
        BY <1>0 DEF IInv, TypeOK
      <4>5. \A r \in got.rels : Known(db'.nodes, r[2])
        BY <1>3, <4>2, <4>3, <4>4, KnownGrows
      <4> QED BY <1>2, <2>1, <2>3, <3>1, <3>3, <4>5 DEF Taken, RelsOf
    <3>4. CASE f # "mclag"
      <4>1. f \in {"port_channel", "vlan"}
        BY <1>5, <1>10, <3>4 DEF Features
      <4>2. ASSUME NEW r \in RelsFor(got, f)
            PROVE  Known(db'.nodes, r[2])
        <5>1. r \in dev.rels /\ r[2] \in Ports /\ Feature(r[1]) = f
              /\ (f = "vlan" => r[2] \notin Channels)
          BY <1>3, <3>2, <4>2, RelType DEF RelsFor
        <5>2. r[2] \in Interfaces
          BY <4>1, <5>1 DEF SyncInv, Ports
        <5> QED BY <5>2 DEF Known
      <4>3. {r \in RelsFor(db', f) : r[1] = x} = {r \in RelsFor(got, f) : r[1] = x}
        BY <2>1, <4>1, <4>2 DEF RelsFor
      <4> QED BY <1>2, <2>3, <3>1, <3>4, <4>3 DEF Taken
    <3> QED BY <3>3, <3>4
  <2> QED BY <2>2, <2>3
<1>11. InsertedTaken' \/ missed
  BY <1>2, <1>10 DEF InsertedTaken
<1> QED BY <1>0, <1>2, <1>6, <1>7, <1>8, <1>9, <1>11 DEF SyncInv

(* An error in the insertion of STP ports counts as missed.                *)
LEMMA InsertRaisesSync == SyncInv /\ InsertRaises => SyncInv'
<1> SUFFICES ASSUME SyncInv, InsertRaises PROVE SyncInv'
  OBVIOUS
<1>0. IInv'
  BY InsertIInv DEF SyncInv
<1>1. PICK x \in todo : db' = Upserted(x, Nothing)
  BY DEF InsertRaises
<1>2. /\ phase = "insert" /\ phase' = "call" /\ missed' = TRUE /\ reqs' = reqs
      /\ dev' = dev /\ then' = Tail(then) /\ then # <<>> /\ reqs = <<>>
  BY DEF InsertRaises, SyncInv, IInv, TypeOK, AnswerExact
<1>3. Whole(db')
  <2>1. db \in Graphs /\ x \in NodeIds
    BY <1>1 DEF SyncInv, IInv, TypeOK
  <2> QED BY <1>1, <2>1, NothingType, UpsertedElsewhere DEF SyncInv
<1>4. then' \in Discoveries
  BY <1>2, DiscoveryOrder DEF SyncInv
<1>5. RequestsFit'
  BY <1>2 DEF RequestsFit, AddsChannels
<1> QED BY <1>0, <1>2, <1>3, <1>4, <1>5 DEF SyncInv, AnswerExact

LEMMA WithoutGraph ==
    ASSUME db \in Graphs, NEW ns, NEW rs
    PROVE  LET h == Without(ns, rs)
           IN  /\ h \in Graphs
               /\ h.nodes = db.nodes \ ns
               /\ \A r : r \in h.rels <=>
                      r \in db.rels \ rs /\ r[1] \in h.nodes /\ Known(h.nodes, r[2])
<1> DEFINE ms == db.nodes \ ns
           ts == Connected(ms, db.rels \ rs)
<1>1. ms \in SUBSET NodeIds /\ ts \in SUBSET (NodeIds \X Ports)
  BY DEF Graphs, Connected
<1>2. \A r : r \in ts <=> r \in db.rels \ rs /\ r[1] \in ms /\ Known(ms, r[2])
  BY DEF Connected
<1>3. Without(ns, rs) = Graph(ms, ts)
  BY DEF Without
<1> HIDE DEF ms, ts
<1>4. Graph(ms, ts) \in Graphs /\ Graph(ms, ts).nodes = ms /\ Graph(ms, ts).rels = ts
  BY <1>1, GraphType
<1> QED BY <1>2, <1>3, <1>4 DEF ms

LEMMA PruneSync == SyncInv /\ Prune => SyncInv'
<1> SUFFICES ASSUME SyncInv, Prune PROVE SyncInv'
  OBVIOUS
<1>0. IInv'
  BY PruneIInv DEF SyncInv
<1> PICK f : f = Head(then)
  OBVIOUS
<1>1. /\ phase = "prune" /\ phase' = "call" /\ reqs = <<>> /\ reqs' = <<>>
      /\ dev' = dev /\ missed' = missed /\ then' = Tail(then) /\ then # <<>>
      /\ todo = {} /\ then \in Discoveries
  BY DEF Prune, SyncInv, AnswerExact, IInv, TypeOK
<1>2. /\ db \in Graphs /\ dev \in Graphs /\ got \in Graphs /\ db' \in Graphs
  BY <1>0 DEF SyncInv, IInv, TypeOK
<1>3. /\ db'.nodes = db.nodes \ Stale(f)
      /\ \A r : r \in db'.rels <=>
             r \in db.rels \ StaleRels(f) /\ r[1] \in db'.nodes /\ Known(db'.nodes, r[2])
  BY <1>2, WithoutGraph DEF Prune
<1>4. /\ Stale(f) = {x \in db.nodes : Feature(x) = f /\ x \notin got.nodes}
      /\ StaleRels(f) = {r \in db.rels : f = "mclag" /\ Feature(r[1]) = f /\ r \notin got.rels}
  BY <1>2, OfType DEF Stale, StaleRels
<1>5. /\ In(then) = In(then') \cup {f} /\ f \notin In(then') /\ then' \in Discoveries
      /\ f \in Features
  BY <1>1, DiscoveryOrder
<1>6. f # "stp_port" /\ ~missed => got = Of(dev, f)
  BY <1>1 DEF SyncInv, AnswerExact
<1>7. f # "stp_port" /\ ~missed =>
          /\ got.nodes = NodesFor(dev, f)
          /\ got.rels = {r \in dev.rels : Feature(r[1]) = f}
  BY <1>2, <1>6, OfType DEF NodesFor
<1>8. Whole(db')
  BY <1>3 DEF Whole
<1>9. RequestsFit' /\ AnswerExact' /\ InsertedTaken'
  BY <1>1 DEF RequestsFit, AddsChannels, AnswerExact, InsertedTaken
<1>10. ASSUME ~missed, f # "stp_port"
       PROVE  Matches(f)'
  <2>1. \A x \in got.nodes : Taken(x, f)
    BY <1>1, <1>10 DEF SyncInv, InsertedTaken
  <2>2. NodesFor(db', f) = NodesFor(dev, f)
    BY <1>3, <1>4, <1>7, <1>10, <2>1 DEF NodesFor, Taken
  <2>3. ASSUME NEW r \in RelsFor(dev, f)
        PROVE  r \in RelsFor(db', f) /\ Known(dev.nodes, r[2])
    <3>1. /\ r \in dev.rels /\ Feature(r[1]) = f /\ (f = "vlan" => r[2] \notin Channels)
          /\ r[1] \in got.nodes /\ Known(dev.nodes, r[2]) /\ r \in got.rels
          /\ r[2] \in Ports
      BY <1>2, <1>7, <1>10, <2>3, RelType DEF RelsFor, SyncInv, Whole, NodesFor
    <3>2. r \in db.rels /\ r \notin StaleRels(f) /\ Taken(r[1], f)
      BY <1>4, <2>1, <3>1 DEF Taken, RelsOf, RelsFor
    <3>3. r[1] \in db'.nodes
      BY <1>3, <1>4, <3>1, <3>2 DEF Taken
    <3>4. Known(db'.nodes, r[2])
      <4>1. CASE f = "mclag"
        <5>1. NodesFor(db, "port_channel") \subseteq NodesFor(db', "port_channel")
          BY <1>3, <1>4, <4>1 DEF NodesFor
        <5> QED BY <1>2, <3>1, <3>2, <5>1, KnownGrows DEF SyncInv, Whole
      <4>2. CASE f # "mclag"
        <5>1. f \in {"port_channel", "vlan"}
          BY <1>5, <1>10, <4>2 DEF Features
        <5>2. r[2] \in Interfaces
          BY <3>1, <5>1 DEF SyncInv, Ports
        <5> QED BY <5>2 DEF Known
      <4> QED BY <4>1, <4>2
    <3> QED BY <1>3, <3>1, <3>2, <3>3, <3>4 DEF RelsFor
  <2>4. ASSUME NEW r \in RelsFor(db', f), Known(dev.nodes, r[2])
        PROVE  r \in RelsFor(dev, f)
    <3>1. /\ r \in db.rels /\ Feature(r[1]) = f /\ (f = "vlan" => r[2] \notin Channels)
          /\ r[1] \in db'.nodes /\ r \notin StaleRels(f)
      BY <1>3, <2>4 DEF RelsFor
    <3>2. r[1] \in got.nodes
      BY <1>3, <1>4, <3>1
    <3>3. CASE f = "mclag"
      BY <1>4, <1>7, <1>10, <3>1, <3>3 DEF RelsFor
    <3>4. CASE f # "mclag"
      <4>1. r \in RelsFor(db, f)
        BY <3>1 DEF RelsFor
      <4>2. r \in RelsFor(got, f)
        BY <2>1, <3>2, <3>4, <4>1 DEF Taken
      <4> QED BY <1>7, <1>10, <4>2 DEF RelsFor
    <3> QED BY <3>3, <3>4
  <2> QED BY <1>1, <2>2, <2>3, <2>4 DEF Matches
<1>11. ASSUME ~missed, NEW e \in Stored, e \notin In(then)
       PROVE  Matches(e)'
  <2>1. Matches(e) /\ e # f
    BY <1>5, <1>11 DEF SyncInv
  <2>2. NodesFor(db', e) = NodesFor(db, e)
    BY <1>3, <1>4, <2>1 DEF NodesFor
  <2>3. ASSUME NEW r, Known(dev.nodes, r[2])
        PROVE  r \in RelsFor(db', e) <=> r \in RelsFor(db, e)
    <3>1. r \in RelsFor(db', e) => r \in RelsFor(db, e)
      BY <1>3 DEF RelsFor
    <3>2. ASSUME r \in RelsFor(db, e)
          PROVE  r \in RelsFor(db', e)
      <4>1. /\ r \in db.rels /\ Feature(r[1]) = e /\ r \notin StaleRels(f)
            /\ r[1] \in db.nodes /\ Known(db.nodes, r[2]) /\ r[2] \in Ports
        BY <1>2, <1>4, <2>1, <3>2, RelType DEF RelsFor, SyncInv, Whole
      <4>2. r[1] \in db'.nodes
        BY <1>3, <1>4, <2>1, <4>1
      <4>3. Known(db'.nodes, r[2])
        <5>1. CASE r[2] \in Interfaces
          BY <5>1 DEF Known
        <5>2. CASE r[2] \notin Interfaces
          <6>1. /\ r[2] \in Channels
                /\ PortChannel(r[2]) \in db.nodes /\ PortChannel(r[2]) \in dev.nodes
            BY <2>3, <4>1, <5>2 DEF Known, Ports
          <6>2. PortChannel(r[2]) \notin Stale(f)
            BY <1>4, <1>7, <1>11, <6>1, NodeFeatures DEF NodesFor
          <6> QED BY <1>3, <6>1, <6>2 DEF Known
        <5> QED BY <5>1, <5>2
      <4> QED BY <1>3, <3>2, <4>1, <4>2, <4>3 DEF RelsFor
    <3> QED BY <3>1, <3>2
  <2> QED BY <1>1, <2>1, <2>2, <2>3 DEF Matches
<1>12. ~missed' => \A e \in Stored : e \in In(then') \/ Matches(e)'
  BY <1>1, <1>5, <1>10, <1>11 DEF Stored
<1> QED BY <1>0, <1>1, <1>5, <1>8, <1>9, <1>12 DEF SyncInv

LEMMA QuietSync == SyncInv /\ (Inserted \/ Return) => SyncInv'
<1> SUFFICES ASSUME SyncInv, Inserted \/ Return PROVE SyncInv'
  OBVIOUS
<1>0. IInv'
  BY PruneIInv DEF SyncInv
<1>1. UNCHANGED <<dev, db, reqs, then, todo, missed>>
  BY DEF Inserted, Return
<1>2. RequestsFit' /\ \A f \in Stored : Matches(f) => Matches(f)'
  BY <1>1 DEF RequestsFit, SyncInv, Matches
<1>3. CASE Inserted
  <2>1. phase = "insert" /\ phase' = "prune" /\ todo = {} /\ got' = got
    BY <1>3 DEF Inserted
  <2>2. AnswerExact'
    BY <1>1, <2>1 DEF AnswerExact, SyncInv
  <2>3. ~missed' => InsertedTaken'
    BY <1>1, <2>1 DEF InsertedTaken, SyncInv, Taken
  <2> QED BY <1>0, <1>1, <1>2, <2>1, <2>2, <2>3 DEF SyncInv
<1>4. CASE Return
  <2>1. phase' = "idle" /\ reqs = <<>> /\ then = <<>>
    BY <1>4 DEF Return
  <2> QED BY <1>0, <1>1, <1>2, <2>1 DEF SyncInv, AnswerExact, InsertedTaken
<1> QED BY <1>3, <1>4

(* The subscription thread changes STP ports and their relations only.     *)
LEMMA NotificationElsewhere ==
    ASSUME IInv, Whole(db), HandleNotification
    PROVE  /\ Whole(db')
           /\ \A f \in Stored : /\ NodesFor(db', f) = NodesFor(db, f)
                                /\ RelsFor(db', f) = RelsFor(db, f)
           /\ \A f \in Stored, x \in NodeIds :
                  Feature(x) = f => /\ x \in db.nodes => x \in db'.nodes
                                    /\ RelsOf(x, db') = RelsOf(x, db)
<1>0. queue # <<>> /\ Head(queue)[2] \in Ports
  BY DEF HandleNotification, StpPortDeleted, StpPortUpdated, IInv, TypeOK
<1> DEFINE p == Head(queue)[2]
           x == StpPort(p)
<1>1. x \in NodeIds /\ Feature(x) = "stp_port"
  BY <1>0, NodeTypes, NodeFeatures
<1>2. db \in Graphs
  BY DEF IInv, TypeOK
<1>3. /\ Whole(db')
      /\ \A y : Feature(y) # "stp_port" => (y \in db'.nodes <=> y \in db.nodes)
      /\ \A r : Feature(r[1]) # "stp_port" => (r \in db'.rels <=> r \in db.rels)
  <2>1. CASE StpPortDeleted
    <3>1. db' = Without({x}, {})
      BY <2>1 DEF StpPortDeleted
    <3> HIDE DEF x
    <3>2. /\ db' \in Graphs /\ db'.nodes = db.nodes \ {x}
          /\ \A r : r \in db'.rels <=>
                 r \in db.rels /\ r[1] \in db'.nodes /\ Known(db'.nodes, r[2])
      BY <1>2, <3>1, WithoutGraph
    <3>3. NodesFor(db, "port_channel") \subseteq NodesFor(db', "port_channel")
      BY <1>1, <3>2 DEF NodesFor
    <3>4. \A r \in db.rels : Known(db'.nodes, r[2])
      BY <1>2, <3>2, <3>3, RelType, KnownGrows DEF Whole
    <3>5. \A r \in db.rels : Feature(r[1]) # "stp_port" => r \in db'.rels
      BY <1>1, <3>2, <3>4 DEF Whole
    <3> QED BY <1>1, <3>2, <3>5 DEF Whole
  <2>2. CASE StpPortUpdated
    <3> DEFINE others == {y \in db.nodes : Feature(y) = "stp_port" /\ y # x}
               ns == (db.nodes \ others) \cup {x}
               rs == Connected(ns, db.rels \cup {<<x, p>>})
    <3>1. db' = IF PortMissing(x) THEN Graph(db.nodes \cup {x}, db.rels) ELSE Graph(ns, rs)
      BY <1>1, <2>2, Zenon DEF StpPortUpdated, StpPort
    <3> HIDE DEF x, p
    <3>2. /\ db.nodes \cup {x} \in SUBSET NodeIds
          /\ db.rels \in SUBSET (NodeIds \X Ports)
          /\ ns \in SUBSET NodeIds
          /\ rs \in SUBSET (NodeIds \X Ports)
      BY <1>0, <1>1, <1>2 DEF Graphs, Connected, p
    <3>3. \A r : r \in rs <=> /\ r \in db.rels \cup {<<x, p>>}
                              /\ r[1] \in ns /\ Known(ns, r[2])
      BY DEF Connected
    <3>4. \A y : Feature(y) # "stp_port" => (y \in ns <=> y \in db.nodes)
      BY <1>1
    <3>5. <<x, p>>[1] = x
      OBVIOUS
    <3> HIDE DEF ns, rs
    <3>6. CASE PortMissing(x)
      <4>1. db'.nodes = db.nodes \cup {x} /\ db'.rels = db.rels /\ db' \in Graphs
        BY <3>1, <3>2, <3>6, GraphType
      <4>2. NodesFor(db, "port_channel") \subseteq NodesFor(db', "port_channel")
        BY <4>1 DEF NodesFor
      <4>3. \A r \in db.rels : Known(db'.nodes, r[2])
        BY <1>2, <4>1, <4>2, RelType, KnownGrows DEF Whole
      <4> QED BY <1>1, <4>1, <4>3 DEF Whole
    <3>7. CASE ~PortMissing(x)
      <4>1. db'.nodes = ns /\ db'.rels = rs /\ db' \in Graphs
        BY <3>1, <3>2, <3>7, GraphType
      <4>2. NodesFor(db, "port_channel") \subseteq NodesFor(db', "port_channel")
        BY <3>4, <4>1 DEF NodesFor
      <4>3. \A r \in db.rels : Known(db'.nodes, r[2])
        BY <1>2, <4>1, <4>2, RelType, KnownGrows DEF Whole
      <4>4. \A r : Feature(r[1]) # "stp_port" => (r \in rs <=> r \in db.rels)
        BY <1>1, <3>3, <3>4, <3>5, <4>1, <4>3 DEF Whole
      <4> QED BY <3>3, <3>4, <4>1, <4>4 DEF Whole
    <3> QED BY <3>6, <3>7
  <2> QED BY <2>1, <2>2 DEF HandleNotification
<1>4. \A f \in Stored : f # "stp_port"
  BY DEF Stored
<1> QED BY <1>3, <1>4 DEF NodesFor, RelsFor, RelsOf

LEMMA NotificationSync == SyncInv /\ HandleNotification => SyncInv'
<1> SUFFICES ASSUME SyncInv, HandleNotification PROVE SyncInv'
  OBVIOUS
<1>0. IInv'
  BY HandleNotificationIInv DEF SyncInv
<1>1. UNCHANGED <<dev, phase, reqs, then, got, todo, missed>>
  BY DEF HandleNotification, StpPortDeleted, StpPortUpdated, app
<1>2. /\ Whole(db')
      /\ \A f \in Stored : /\ NodesFor(db', f) = NodesFor(db, f)
                           /\ RelsFor(db', f) = RelsFor(db, f)
      /\ \A f \in Stored, x \in NodeIds :
             Feature(x) = f => /\ x \in db.nodes => x \in db'.nodes
                               /\ RelsOf(x, db') = RelsOf(x, db)
  BY NotificationElsewhere DEF SyncInv
<1>3. "port_channel" \in Stored
  BY DEF Stored
<1>4. RequestsFit'
  BY <1>1, <1>2, <1>3 DEF RequestsFit, SyncInv
<1>5. AnswerExact'
  BY <1>1 DEF AnswerExact, SyncInv
<1>6. \A f \in Stored : Matches(f) => Matches(f)'
  BY <1>1, <1>2 DEF Matches
<1>7. ASSUME ~missed, phase \in {"insert", "prune"}, Head(then) # "stp_port",
             NEW x \in got.nodes \ todo
      PROVE  Taken(x, Head(then))'
  <2> DEFINE f == Head(then)
  <2>1. Taken(x, f) /\ Feature(x) = f /\ x \in NodeIds
    BY <1>7 DEF SyncInv, InsertedTaken, AnswerExact, IInv, TypeOK, Graphs
  <2>2. f \in Stored
    BY <1>7, <2>1, NodeFeature DEF Features, Stored
  <2> HIDE DEF f
  <2>3. RelsOf(x, db') = RelsOf(x, db) /\ RelsFor(db', f) = RelsFor(db, f) /\ x \in db'.nodes
    BY <1>2, <2>1, <2>2 DEF Taken
  <2>4. f = "mclag" => RelsOf(x, got) \subseteq db'.rels
    BY <2>1, <2>3 DEF Taken, RelsOf
  <2> QED BY <1>1, <2>1, <2>3, <2>4 DEF Taken, f
<1>8. ~missed' => InsertedTaken'
  BY <1>1, <1>7 DEF InsertedTaken
<1> QED BY <1>0, <1>1, <1>2, <1>4, <1>5, <1>6, <1>8 DEF SyncInv

LEMMA InitSync == Init => SyncInv
<1> SUFFICES ASSUME Init PROVE SyncInv
  OBVIOUS
<1>1. IInv
  BY InitIInv
<1>2. Whole(dev) /\ Whole(db) /\ \A r \in dev.rels : FALSE
  BY NothingType DEF Init, Whole
<1>3. \A f : Matches(f)
  BY NothingType DEF Init, Matches, NodesFor, RelsFor
<1>4. RequestsFit /\ AnswerExact /\ InsertedTaken
  BY DEF Init, RequestsFit, AddsChannels, AnswerExact, InsertedTaken
<1> QED BY <1>1, <1>2, <1>3, <1>4 DEF Init, SyncInv, Discoveries

LEMMA NextSync == SyncInv /\ [Next]_vars => SyncInv'
<1> SUFFICES ASSUME SyncInv, [Next]_vars PROVE SyncInv'
  OBVIOUS
<1>1. CASE UNCHANGED vars
  <2>1. IInv'
    BY NextIInv DEF SyncInv
  <2>2. UNCHANGED <<dev, db, phase, reqs, then, got, todo, missed>>
    BY <1>1 DEF vars, app
  <2>3. /\ RequestsFit' /\ AnswerExact' /\ (~missed' => InsertedTaken')
        /\ \A f \in Stored : Matches(f) => Matches(f)'
    BY <2>2 DEF SyncInv, RequestsFit, AnswerExact, InsertedTaken, Taken, Matches
  <2> QED BY <2>1, <2>2, <2>3 DEF SyncInv
<1>2. CASE Next
  BY <1>2, CallSync, SetSync, GetSync, InsertSync, InsertRaisesSync, PruneSync, QuietSync,
     NotificationSync DEF Next, AppStep
<1> QED BY <1>1, <1>2

(* The DB keeps up with the device: for any numbers of channels, VLANs,    *)
(* domains and interfaces, whichever Sets are refused, fail half-way or    *)
(* are executed without an answer, the port channels, VLANs and MCLAG      *)
(* domains of the DB and their relations are those of the device whenever  *)
(* no function runs, unless since the last complete discovery a Get has    *)
(* failed or has been answered with nothing.                               *)
THEOREM StoresStayInSync == Spec => []InSync
<1>1. SyncInv => InSync
  <2> SUFFICES ASSUME SyncInv, phase = "idle", ~missed
               PROVE  /\ \A f \in {"port_channel", "mclag"} : Of(db, f) = Of(dev, f)
                      /\ Of(db, "vlan").nodes = Of(dev, "vlan").nodes
                      /\ Of(db, "vlan").rels \ ToChannels(db)
                             = Of(dev, "vlan").rels \ ToChannels(dev)
    BY DEF InSync
  <2>1. \A f \in Stored : Matches(f)
    BY DEF SyncInv, In
  <2>2. db \in Graphs /\ dev \in Graphs
    BY DEF SyncInv, IInv, TypeOK
  <2>3. NodesFor(db, "port_channel") \subseteq NodesFor(dev, "port_channel")
    BY <2>1 DEF Stored, Matches
  <2>4. \A r \in db.rels : Known(dev.nodes, r[2])
    BY <2>2, <2>3, RelType, KnownGrows DEF SyncInv, Whole
  <2>5. \A f \in Stored : NodesFor(db, f) = NodesFor(dev, f) /\ RelsFor(db, f) = RelsFor(dev, f)
    BY <2>1, <2>4 DEF Matches, RelsFor
  <2>6. \A f : /\ Of(db, f).nodes = NodesFor(db, f) /\ Of(dev, f).nodes = NodesFor(dev, f)
               /\ Of(db, f).rels = {r \in db.rels : Feature(r[1]) = f}
               /\ Of(dev, f).rels = {r \in dev.rels : Feature(r[1]) = f}
    BY <2>2, OfType DEF NodesFor
  <2>7. ASSUME NEW f \in {"port_channel", "mclag"}
        PROVE  Of(db, f) = Of(dev, f)
    <3>1. f \in Stored /\ f # "vlan"
      BY DEF Stored
    <3>2. NodesFor(db, f) = NodesFor(dev, f)
      BY <2>5, <3>1
    <3>3. RelsFor(db, f) = {r \in db.rels : Feature(r[1]) = f}
          /\ RelsFor(dev, f) = {r \in dev.rels : Feature(r[1]) = f}
      BY <3>1 DEF RelsFor
    <3> QED BY <2>5, <3>1, <3>2, <3>3 DEF Of, NodesFor
  <2>8. "vlan" \in Stored
    BY DEF Stored
  <2>9. Of(db, "vlan").rels \ ToChannels(db) = RelsFor(db, "vlan")
        /\ Of(dev, "vlan").rels \ ToChannels(dev) = RelsFor(dev, "vlan")
    BY <2>6 DEF RelsFor, ToChannels
  <2> QED BY <2>5, <2>6, <2>7, <2>8, <2>9
<1> QED BY InitSync, NextSync, <1>1, PTL DEF Spec
=============================================================================
