------------------------ MODULE NetworkMissesProofs ------------------------
(***************************************************************************)
(* OneThreadMissesOnly of NetworkFeatures as a theorem, for any devices,   *)
(* names and limits.  With one thread and no failure no answer is          *)
(* overtaken, the DB has the interfaces that the device has but for those  *)
(* that the thread is about to ask for or to forget, what it forgets the   *)
(* device has given up, and ports that do not come and go stay tied to     *)
(* their port groups.                                                      *)
(***************************************************************************)
EXTENDS NetworkSyncProofs

(* An answer is what the device has.                                       *)
Fresh(c) == pc[c] = "insert" =>
    got[c] = OfAll(dev[DeviceOf(Current(c))], Covered(Current(c)))

(* The discoveries th ask for the interfaces that only the devices have,   *)
(* and forget those that only the DB has.                                  *)
Awaited(dv, store, th) == \A d \in Devices, i \in Interfaces :
    /\ i \in PortsIn(dv[d]) \ PortsIn(store[d]) => \E k \in DOMAIN th : Plain(th[k], d, i)
    /\ i \in PortsIn(store[d]) \ PortsIn(dv[d]) => \E k \in DOMAIN th : Forgets(th[k], d, i)

(* A port that is no part of another comes neither to the device nor to    *)
(* the DB, and is tied to its group while either has it.                   *)
Steady(dv, store, tied) == \A d \in Devices, g \in Groups :
    \A i \in Members[g] \ PartPorts :
        /\ Port(i) \in dv[d] => Port(i) \in store[d]
        /\ Port(i) \in store[d] => <<g, i>> \in tied[d]

OneInv == faults = 0 =>
    /\ \A c \in Clients :
        Fresh(c) /\ Awaited(dev, db, then[c]) /\ Fits(dev, reqs[c], then[c])
    /\ missed \subseteq Devices \X Excused
    /\ Steady(dev, db, ties)

-----------------------------------------------------------------------------
(* Ports.                                                                  *)

LEMMA PortsOf ==
    ASSUME NEW x, NEW i \in Interfaces
    PROVE  /\ i \in PortsIn(x) <=> Port(i) \in x
           /\ i \in PortsIn(x) <=> Port(i) \in Of(x, <<"interface", i>>)
BY UnitOfPort DEF PortsIn, Of

(* Without the port there is nothing of an interface.                      *)
LEMMA NoPort ==
    ASSUME NEW x, PortsWhole(x), NEW i \in Interfaces, i \notin PortsIn(x)
    PROVE  Of(x, <<"interface", i>>) = {}
<1> SUFFICES ASSUME NEW f \in x, UnitOf(f) = <<"interface", i>> PROVE FALSE
  BY DEF Of
<1>1. f[1] = "interface" /\ f[2] = i
  BY UnitKinds
<1> QED BY <1>1, PortsOf DEF PortsWhole

LEMMA SamePorts ==
    ASSUME NEW x, NEW y, NEW i \in Interfaces,
           Of(x, <<"interface", i>>) = Of(y, <<"interface", i>>)
    PROVE  i \in PortsIn(x) <=> i \in PortsIn(y)
BY PortsOf

(* An insertion stores the ports of the answer that it decides.            *)
LEMMA StoredPorts ==
    ASSUME NEW old, NEW answer, NEW decided,
           NEW kept \in _create_bgp_graph_objects(GlobalsOf(answer)), NEW i
    PROVE  Port(i) \in Stored(old, answer, kept, decided)
               <=> Port(i) \in answer /\ <<"interface", i>> \in decided
<1> DEFINE named == {g \in OfAll(answer, decided) : g[1] = "interface"}
<1>1. Port(i) \in Stored(old, answer, kept, decided)
          <=> Port(i) \in _create_interface_graph_objects(named)
  BY StoredParts, UnitOfPort
<1>2. \A f : Address(f[2], "ip", f[4]) # Port(i)
  BY DEF Address, Port
<1>3. Port(i) \in _create_interface_graph_objects(named) <=> Port(i) \in named
  BY <1>2, UnitOfPort DEF _create_interface_graph_objects
<1>4. Port(i) \in named <=> Port(i) \in answer /\ <<"interface", i>> \in decided
  BY UnitOfPort DEF OfAll
<1> QED BY <1>1, <1>3, <1>4

LEMMA StandingPorts == \A x : PortsIn(Standing(x)) = PortsIn(x)
<1>1. ASSUME NEW x, NEW i PROVE Port(i) \in Standing(x) <=> Port(i) \in x
  BY StandingElsewhere, UnitOfPort
<1> QED BY <1>1 DEF PortsIn

(* What an insertion or a deletion leaves stays tied.                      *)
LEMMA TiesStay ==
    ASSUME NEW old, NEW decided, NEW store, NEW g, NEW i,
           <<g, i>> \in old, Port(i) \in store
    PROVE  <<g, i>> \in TiedMembers(old, decided, store)
BY DEF TiedMembers

(* The same of sets of ports.                                              *)
LEMMA SteadyPorts ==
    ASSUME NEW dv, NEW store, NEW tied
    PROVE  Steady(dv, store, tied) <=>
               \A d \in Devices, g \in Groups : \A i \in Members[g] \ PartPorts :
                   /\ i \in PortsIn(dv[d]) => i \in PortsIn(store[d])
                   /\ i \in PortsIn(store[d]) => <<g, i>> \in tied[d]
<1>1. \A g \in Groups : Members[g] \subseteq Interfaces
  BY PortsAssumption
<1>2. \A x, i : i \in Interfaces => (i \in PortsIn(x) <=> Port(i) \in x)
  BY DEF PortsIn
<1> QED BY <1>1, <1>2 DEF Steady

(* Discoveries that forget nothing; discoveries that ask for nothing.      *)
LEMMA NothingAwaited ==
    ASSUME NEW dv, NEW store, NEW th, Awaited(dv, store, th), NEW d \in Devices
    PROVE  /\ (\A k \in DOMAIN th : Prelude(th[k]) # "forget_parts")
                  => PortsIn(store[d]) \subseteq PortsIn(dv[d])
           /\ (\A k \in DOMAIN th : Prelude(th[k]) # "none")
                  => PortsIn(dv[d]) \subseteq PortsIn(store[d])
BY DEF Awaited, Plain, Forgets, PortsIn

LEMMA AllAwaited ==
    ASSUME NEW dv, NEW store, NEW th,
           \A d \in Devices : PortsIn(dv[d]) = PortsIn(store[d])
    PROVE  Awaited(dv, store, th)
BY DEF Awaited

LEMMA OneStep ==
    ASSUME NEW c, Clients = {c},
           faults' = 0 => /\ Fresh(c)' /\ Awaited(dev', db', then'[c])
                          /\ Fits(dev', reqs'[c], then'[c])
                          /\ missed' \subseteq Devices \X Excused
                          /\ Steady(dev', db', ties')
    PROVE  OneInv'
BY DEF OneInv

(* What OneInv says of the thread.                                         *)
LEMMA OneThread ==
    ASSUME SyncInv, OneInv, NEW c, Clients = {c}, faults = 0
    PROVE  /\ TypeOK /\ Hardware /\ Alone(then[c]) /\ then[c] \in Seq(Entry)
           /\ Fresh(c) /\ Awaited(dev, db, then[c]) /\ Fits(dev, reqs[c], then[c])
           /\ missed \subseteq Devices \X Excused /\ Steady(dev, db, ties)
BY DEF SyncInv, OneInv, TypeOK

(* One that has a prelude is the only one.                                 *)
LEMMA TheOnlyOne ==
    ASSUME NEW th \in Seq(Entry), Alone(th), th # <<>>
    PROVE  /\ Head(th) = th[1] /\ 1 \in DOMAIN th
           /\ Prelude(Head(th)) # "none" => \A k \in DOMAIN th : k = 1
           /\ Prelude(Head(th)) = "none" => \A k \in DOMAIN th : Prelude(th[k]) = "none"
<1>1. Head(th) = th[1] /\ 1 \in DOMAIN th /\ DOMAIN th = 1..Len(th) /\ Len(th) \in Nat
  OBVIOUS
<1>2. ASSUME NEW k \in DOMAIN th, Prelude(th[k]) # "none" PROVE \A j \in DOMAIN th : j = 1
  <2>1. Len(th) = 1
    BY <1>2 DEF Alone
  <2> QED BY <1>1, <2>1
<1> QED BY <1>1, <1>2
-----------------------------------------------------------------------------
(* Steps.                                                                  *)

LEMMA OneInit == Init => OneInv
<1> SUFFICES ASSUME Init PROVE OneInv
  OBVIOUS
<1>1. /\ missed = {} /\ \A c \in Clients : reqs[c] = <<>> /\ then[c] = <<>> /\ pc[c] = "idle"
  BY DEF Init
<1>2. ASSUME NEW d \in Devices PROVE PortsIn(dev[d]) = PortsIn(db[d])
  <2>1. PICK kept :
          /\ \A x \in Devices : kept[x] \in _create_bgp_graph_objects(GlobalsOf(dev[x]))
          /\ db = [x \in Devices |-> Stored({}, dev[x], kept[x], Units)]
    BY DEF Init
  <2>2. PICK k \in _create_bgp_graph_objects(GlobalsOf(dev[d])) :
            db[d] = Stored({}, dev[d], k, Units)
    BY <2>1
  <2>3. \A i \in Interfaces : <<"interface", i>> \in Units
    BY DEF Units, PortUnits
  <2>4. \A i \in Interfaces : Port(i) \in db[d] <=> Port(i) \in dev[d]
    <3> TAKE i \in Interfaces
    <3>1. Port(i) \in Stored({}, dev[d], k, Units)
              <=> Port(i) \in dev[d] /\ <<"interface", i>> \in Units
      BY StoredPorts
    <3> QED BY <2>2, <2>3, <3>1
  <2> QED BY <2>4 DEF PortsIn
<1>3. \A c \in Clients : Fits(dev, reqs[c], then[c])
  BY <1>1 DEF Fits, Freed
<1>4. \A c \in Clients : Awaited(dev, db, then[c])
  BY <1>2, AllAwaited
<1>5. Steady(dev, db, ties)
  <2>1. ASSUME NEW d \in Devices, NEW g \in Groups, NEW i \in Members[g], i \in PortsIn(db[d])
        PROVE  <<g, i>> \in ties[d]
    <3>1. <<"port_group", g>> \in Units
      BY DEF Units, GroupUnits
    <3>2. ties[d] = TiedMembers({}, Units, db[d])
      BY DEF Init
    <3> QED BY <2>1, <3>1, <3>2 DEF TiedMembers
  <2> QED BY <1>2, <2>1, SteadyPorts
<1> QED BY <1>1, <1>3, <1>4, <1>5 DEF OneInv, Fresh

LEMMA OneBegin ==
    ASSUME SyncInv, OneInv, NEW c, Clients = {c}, SafeCall(c)
    PROVE  OneInv'
<1>1. PICK rs, th : Begin(c, rs, th) /\ Fits(dev, rs, th)
  BY DEF SafeCall
<1> SUFFICES ASSUME faults' = 0
             PROVE  /\ Fresh(c)' /\ Awaited(dev', db', then'[c])
                    /\ Fits(dev', reqs'[c], then'[c])
                    /\ missed' \subseteq Devices \X Excused
                    /\ Steady(dev', db', ties')
  BY OneStep
<1>2. /\ faults' = faults /\ dev' = dev /\ db' = db /\ missed' = missed /\ pc[c] = "idle"
      /\ ties' = ties
      /\ pc' = [pc EXCEPT ![c] = "busy"] /\ reqs' = [reqs EXCEPT ![c] = rs]
      /\ then' = [then EXCEPT ![c] = th]
  BY <1>1 DEF Begin
<1>3. /\ TypeOK /\ Awaited(dev, db, then[c]) /\ missed \subseteq Devices \X Excused
      /\ Steady(dev, db, ties)
  BY <1>2, OneThread
<1>4. then[c] = <<>> /\ pc'[c] = "busy" /\ reqs'[c] = rs /\ then'[c] = th
  BY <1>2, <1>3 DEF TypeOK
<1>5. \A k : k \notin DOMAIN then[c]
  BY <1>4
<1>6. ASSUME NEW d \in Devices PROVE PortsIn(dev[d]) = PortsIn(db[d])
  <2>1. /\ \A k \in DOMAIN then[c] : Prelude(then[c][k]) # "forget_parts"
        /\ \A k \in DOMAIN then[c] : Prelude(then[c][k]) # "none"
    BY <1>5
  <2>2. PortsIn(db[d]) \subseteq PortsIn(dev[d]) /\ PortsIn(dev[d]) \subseteq PortsIn(db[d])
    BY <1>3, <2>1, NothingAwaited
  <2> QED BY <2>2
<1>7. Awaited(dev, db, th)
  BY <1>6, AllAwaited
<1> QED BY <1>1, <1>2, <1>3, <1>4, <1>7 DEF Fresh

LEMMA OneReturn ==
    ASSUME SyncInv, OneInv, NEW c, Clients = {c}, Return(c)
    PROVE  OneInv'
<1> SUFFICES ASSUME faults' = 0
             PROVE  /\ Fresh(c)' /\ Awaited(dev', db', then'[c])
                    /\ Fits(dev', reqs'[c], then'[c])
                    /\ missed' \subseteq Devices \X Excused
                    /\ Steady(dev', db', ties')
  BY OneStep
<1>1. /\ faults' = faults /\ dev' = dev /\ db' = db /\ missed' = missed /\ reqs' = reqs
      /\ then' = then /\ ties' = ties /\ pc' = [pc EXCEPT ![c] = "idle"]
  BY DEF Return
<1>2. TypeOK /\ Awaited(dev, db, then[c]) /\ Fits(dev, reqs[c], then[c])
      /\ missed \subseteq Devices \X Excused /\ Steady(dev, db, ties)
  BY <1>1, OneThread
<1>3. pc'[c] = "idle"
  BY <1>1, <1>2 DEF TypeOK
<1> QED BY <1>1, <1>2, <1>3 DEF Fresh

(* A step that fails a request says nothing about what happens without.    *)
LEMMA OneFault ==
    ASSUME TypeOK, NEW c, Clients = {c}, Fault
    PROVE  OneInv'
<1>1. faults' # 0
  BY DEF Fault, TypeOK
<1> QED BY <1>1, OneStep

LEMMA OneNotification ==
    ASSUME SyncInv, OneInv, NEW c, Clients = {c},
           NEW x \in Devices, handle_port_group_config_update(x)
    PROVE  OneInv'
<1> SUFFICES ASSUME faults' = 0
             PROVE  /\ Fresh(c)' /\ Awaited(dev', db', then'[c])
                    /\ Fits(dev', reqs'[c], then'[c])
                    /\ missed' \subseteq Devices \X Excused
                    /\ Steady(dev', db', ties')
  BY OneStep
<1> DEFINE g == Head(queue[x])[1]
           s == Head(queue[x])[2]
<1>1. /\ faults' = faults /\ dev' = dev /\ missed' = missed /\ reqs' = reqs
      /\ then' = then /\ pc' = pc /\ got' = got /\ ties' = ties
      /\ db' = [db EXCEPT ![x] = IF g \in GroupsIn(@)
                                 THEN (@ \ Of(@, <<"port_group", g>>)) \cup {GroupSpeed(g, s)}
                                 ELSE @]
  BY DEF handle_port_group_config_update, client
<1>2. TypeOK /\ Fresh(c) /\ Awaited(dev, db, then[c]) /\ Fits(dev, reqs[c], then[c])
      /\ missed \subseteq Devices \X Excused /\ Steady(dev, db, ties)
  BY <1>1, OneThread
<1>3. ASSUME NEW d \in Devices PROVE PortsIn(db'[d]) = PortsIn(db[d])
  <2>1. ASSUME NEW i \in Interfaces PROVE Port(i) \in db'[d] <=> Port(i) \in db[d]
    <3>1. UnitOf(Port(i)) # <<"port_group", g>> /\ Port(i) # GroupSpeed(g, s)
      BY UnitOfPort
    <3>2. \/ db'[d] = db[d]
          \/ db'[d] = (db[d] \ Of(db[d], <<"port_group", g>>)) \cup {GroupSpeed(g, s)}
      BY <1>1, <1>2 DEF TypeOK
    <3> HIDE DEF g, s
    <3> QED BY <3>1, <3>2 DEF Of
  <2> QED BY <2>1 DEF PortsIn
<1>4. Awaited(dev, db', then[c])
  BY <1>2, <1>3 DEF Awaited
<1>5. Fresh(c)'
  BY <1>1, <1>2 DEF Fresh, Current
<1>6. Steady(dev', db', ties')
  BY <1>1, <1>2, <1>3, SteadyPorts
<1> QED BY <1>1, <1>2, <1>4, <1>5, <1>6

(* A Set: what it adds and removes, the discoveries that follow it ask for *)
(* or forget, and what they forget it removes.                             *)
LEMMA ExecutedPorts ==
    ASSUME NEW x, NEW r, NEW i \in Interfaces
    PROVE  i \in PortsIn(Executed(x, r)) <=>
               (Port(i) \in x /\ Port(i) \notin Removed(r)) \/ Port(i) \in Added(r)
<1>1. Port(i)[2] = i
  BY DEF Port
<1>2. PortsIn(Executed(x, r)) = PortsIn(Asked(x, r))
  BY StandingPorts DEF Executed
<1> QED BY <1>1, <1>2 DEF Asked, PortsIn

LEMMA SetAwaited ==
    ASSUME NEW dv, NEW store, NEW th, Awaited(dv, store, th), NEW r, Apt(r, th),
           NEW after, \A d \in Devices : after[d] = IF d = Target(r) THEN Executed(dv[d], r) ELSE dv[d]
    PROVE  Awaited(after, store, th)
<1> SUFFICES ASSUME NEW d \in Devices, NEW i \in Interfaces
             PROVE  /\ i \in PortsIn(after[d]) \ PortsIn(store[d]) =>
                           \E k \in DOMAIN th : Plain(th[k], d, i)
                    /\ i \in PortsIn(store[d]) \ PortsIn(after[d]) =>
                           \E k \in DOMAIN th : Forgets(th[k], d, i)
  BY DEF Awaited
<1>1. CASE d # Target(r)
  BY <1>1 DEF Awaited
<1>2. CASE d = Target(r)
  <2>1. i \in PortsIn(after[d]) <=>
            (Port(i) \in dv[d] /\ Port(i) \notin Removed(r)) \/ Port(i) \in Added(r)
    BY <1>2, ExecutedPorts
  <2>2. i \in PortsIn(dv[d]) <=> Port(i) \in dv[d]
    BY PortsOf
  <2>3. CASE i \in PortsIn(dv[d]) <=> i \in PortsIn(after[d])
    BY <2>3 DEF Awaited
  <2>4. CASE i \in PortsIn(after[d]) /\ i \notin PortsIn(dv[d])
    BY <1>2, <2>1, <2>2, <2>4 DEF Apt
  <2>5. CASE i \in PortsIn(dv[d]) /\ i \notin PortsIn(after[d])
    BY <1>2, <2>1, <2>2, <2>5 DEF Apt
  <2> QED BY <2>3, <2>4, <2>5
<1> QED BY <1>1, <1>2

LEMMA SetFits ==
    ASSUME NEW dv, \A d \in Devices : dv[d] \in SUBSET Facts, NEW th,
           NEW rs \in Seq(Request), rs # <<>>, Fits(dv, rs, th),
           NEW after, \A d \in Devices : after[d] = IF d = Target(Head(rs))
                                                    THEN Executed(dv[d], Head(rs)) ELSE dv[d]
    PROVE  Fits(after, Tail(rs), th)
<1> DEFINE r == Head(rs)
<1>1. /\ r = rs[1] /\ 1 \in DOMAIN rs
      /\ \A k \in DOMAIN Tail(rs) : k + 1 \in DOMAIN rs /\ Tail(rs)[k] = rs[k + 1]
      /\ \A k \in DOMAIN rs : k = 1 \/ (k - 1 \in DOMAIN Tail(rs) /\ Tail(rs)[k - 1] = rs[k])
  OBVIOUS
<1> HIDE DEF r
<1>2. \A k \in DOMAIN Tail(rs) : Apt(Tail(rs)[k], th)
  BY <1>1 DEF Fits
<1>3. ASSUME NEW k \in DOMAIN th, Prelude(th[k]) = "forget_parts"
      PROVE  /\ \A m \in DOMAIN Tail(rs) : Added(Tail(rs)[m]) = {}
             /\ \A d \in Devices, i \in Interfaces : Forgets(th[k], d, i) =>
                    \/ Of(after[d], <<"interface", i>>) = {}
                    \/ \E m \in DOMAIN Tail(rs) : Clears(Tail(rs)[m], d, i)
  <2>1. \A m \in DOMAIN rs : Added(rs[m]) = {}
    BY <1>3 DEF Fits, Freed
  <2>2. \A m \in DOMAIN Tail(rs) : Added(Tail(rs)[m]) = {}
    BY <1>1, <2>1
  <2>3. Added(r) = {}
    BY <1>1, <2>1
  <2>4. ASSUME NEW d \in Devices, NEW i \in Interfaces, Forgets(th[k], d, i)
        PROVE  \/ Of(after[d], <<"interface", i>>) = {}
               \/ \E m \in DOMAIN Tail(rs) : Clears(Tail(rs)[m], d, i)
    <3>1. \/ Of(dv[d], <<"interface", i>>) = {}
          \/ \E m \in DOMAIN rs : Clears(rs[m], d, i)
      BY <1>3, <2>4 DEF Fits, Freed
    <3>2. after[d] \subseteq dv[d] /\ (d = Target(r) => after[d] \cap Removed(r) = {})
      <4>1. \A x : Executed(x, r) \subseteq Asked(x, r)
        BY StandingFacts DEF Executed
      <4>2. \A x : Asked(x, r) = x \ Removed(r)
        BY <2>3 DEF Asked
      <4>3. after[d] = IF d = Target(r) THEN Executed(dv[d], r) ELSE dv[d]
        BY DEF r
      <4> QED BY <4>1, <4>2, <4>3
    <3>3. CASE Of(dv[d], <<"interface", i>>) = {}
      BY <3>2, <3>3 DEF Of
    <3>4. CASE Clears(r, d, i)
      <4>1. d = Target(r) /\ \A f \in Facts : UnitOf(f) = <<"interface", i>> => f \in Removed(r)
        BY <3>4 DEF Clears
      <4> QED BY <3>2, <4>1 DEF Of
    <3>5. ASSUME NEW m \in DOMAIN rs, m # 1, Clears(rs[m], d, i)
          PROVE  \E n \in DOMAIN Tail(rs) : Clears(Tail(rs)[n], d, i)
      BY <1>1, <3>5
    <3> QED BY <1>1, <3>1, <3>3, <3>4, <3>5
  <2> QED BY <2>2, <2>4
<1>4. Freed(after, Tail(rs), th)
  BY <1>3 DEF Freed
<1> QED BY <1>2, <1>4 DEF Fits

LEMMA UprootedExcused ==
    ASSUME NEW d \in Devices, NEW x, NEW y
    PROVE  Uprooted(d, x, y) \subseteq Devices \X Excused
<1>1. Whole("vlan") \in Excused
  BY DEF Excused
<1> QED BY <1>1 DEF Uprooted

LEMMA OneSet ==
    ASSUME SyncInv, OneInv, NEW c, Clients = {c}, Set(c)
    PROVE  OneInv'
<1> SUFFICES ASSUME faults' = 0
             PROVE  /\ Fresh(c)' /\ Awaited(dev', db', then'[c])
                    /\ Fits(dev', reqs'[c], then'[c])
                    /\ missed' \subseteq Devices \X Excused
                    /\ Steady(dev', db', ties')
  BY OneStep
<1> DEFINE r == Head(reqs[c])
<1>1. /\ faults' = faults /\ db' = db /\ pc' = pc /\ then' = then /\ pc[c] = "busy"
      /\ reqs[c] # <<>> /\ reqs' = [reqs EXCEPT ![c] = Tail(@)]
      /\ dev' = [dev EXCEPT ![Target(r)] = Executed(@, r)] /\ ties' = ties
      /\ missed' = missed \cup ({Target(r)} \X Lost(r))
                   \cup Uprooted(Target(r), Asked(dev[Target(r)], r), db[Target(r)])
  BY DEF Set, Sending, Execute
<1>2. TypeOK /\ Awaited(dev, db, then[c]) /\ Fits(dev, reqs[c], then[c])
      /\ missed \subseteq Devices \X Excused /\ Steady(dev, db, ties)
  BY <1>1, OneThread
<1>3. /\ reqs[c] \in Seq(Request) /\ reqs'[c] = Tail(reqs[c])
      /\ r = reqs[c][1] /\ 1 \in DOMAIN reqs[c] /\ r \in Request
      /\ \A d \in Devices : dev[d] \in SUBSET Facts
  BY <1>1, <1>2 DEF TypeOK
<1>4. \A d \in Devices : dev'[d] = IF d = Target(r) THEN Executed(dev[d], r) ELSE dev[d]
  BY <1>1, <1>2 DEF TypeOK
<1>5. Apt(r, then[c]) /\ Target(r) \in Devices
  BY <1>2, <1>3 DEF Fits, Request, Target
<1>6. Awaited(dev', db, then[c])
  <2> HIDE DEF r
  <2> QED BY <1>2, <1>4, <1>5, SetAwaited
<1>7. Fits(dev', Tail(reqs[c]), then[c])
  BY <1>1, <1>2, <1>3, <1>4, SetFits
<1>8. missed' \subseteq Devices \X Excused
  <2>1. Lost(r) \subseteq Excused
    BY <1>5 DEF Apt
  <2>2. Uprooted(Target(r), Asked(dev[Target(r)], r), db[Target(r)]) \subseteq Devices \X Excused
    BY <1>5, UprootedExcused
  <2> QED BY <1>1, <1>2, <1>5, <2>1, <2>2
<1>9. Steady(dev', db', ties')
  <2> HIDE DEF r
  <2>1. \A d \in Devices, i \in Interfaces \ PartPorts :
            i \in PortsIn(dev'[d]) => i \in PortsIn(dev[d])
    <3> TAKE d \in Devices, i \in Interfaces \ PartPorts
    <3>1. CASE d = Target(r)
      <4>1. Port(i) \notin Added(r)
        BY <1>5 DEF Apt
      <4> QED BY <1>4, <3>1, <4>1, ExecutedPorts, PortsOf
    <3>2. CASE d # Target(r)
      BY <1>4, <3>2
    <3> QED BY <3>1, <3>2
  <2>2. \A g \in Groups : Members[g] \subseteq Interfaces
    BY PortsAssumption
  <2> QED BY <1>1, <1>2, <2>1, <2>2, SteadyPorts
<1> QED BY <1>1, <1>3, <1>6, <1>7, <1>8, <1>9 DEF Fresh

LEMMA LeftPorts ==
    ASSUME NEW x, NEW is, NEW left, left = x \ OfAll(x, PortUnits(is))
    PROVE  /\ PortsIn(left) = PortsIn(x) \ is
           /\ PortsIn(Standing(left)) = PortsIn(x) \ is
<1>1. PortsIn(left) = PortsIn(x) \ is
  BY UnitOfPort, PortUnitsFacts DEF PortsIn, OfAll
<1> QED BY <1>1, StandingPorts

(* What is forgotten the device has not: the DB then has what it has.      *)
LEMMA OneForgetParts ==
    ASSUME SyncInv, OneInv, NEW c, Clients = {c}, ForgetParts(c)
    PROVE  OneInv'
<1> SUFFICES ASSUME faults' = 0
             PROVE  /\ Fresh(c)' /\ Awaited(dev', db', then'[c])
                    /\ Fits(dev', reqs'[c], then'[c])
                    /\ missed' \subseteq Devices \X Excused
                    /\ Steady(dev', db', ties')
  BY OneStep
<1> DEFINE e == Current(c)
           d == DeviceOf(e)
<1>1. /\ faults' = faults /\ dev' = dev /\ pc' = pc /\ reqs' = reqs /\ pc[c] = "busy"
      /\ reqs[c] = <<>> /\ then[c] # <<>> /\ Prelude(e) = "forget_parts"
  BY DEF ForgetParts, Discovering
<1>2. /\ TypeOK /\ Hardware /\ Alone(then[c]) /\ then[c] \in Seq(Entry)
      /\ Awaited(dev, db, then[c]) /\ Fits(dev, reqs[c], then[c])
      /\ missed \subseteq Devices \X Excused /\ Steady(dev, db, ties)
  BY <1>1, OneThread
<1>3. e = then[c][1] /\ 1 \in DOMAIN then[c] /\ \A k \in DOMAIN then[c] : k = 1
  BY <1>1, <1>2, TheOnlyOne DEF Current
<1> DEFINE left(i) == db[d] \ OfAll(db[d], PortUnits(Parts[i]))
<1>4. PICK i \in Interfaces :
        /\ PortUnits({i} \cup Parts[i]) = Covered(e)
        /\ db' = [db EXCEPT ![d] = Standing(left(i))]
        /\ ties' = [ties EXCEPT ![d] = TiedMembers(@, {}, left(i))]
        /\ missed' = (missed \ ({d} \X PortUnits(Parts[i])))
             \cup ({d} \X PortUnits({j \in Parts[i] : Of(dev[d], <<"interface", j>>) # {}}))
             \cup Uprooted(d, left(i), dev[d])
        /\ then' = [then EXCEPT ![c] = IF i \in PortsIn(db[d])
                                       THEN discover_interface(d, i) ELSE <<>>]
  BY DEF ForgetParts
<1> HIDE DEF e, d
<1>5. d \in Devices /\ Parts[i] \subseteq Interfaces
  BY <1>1, <1>2, CurrentType, PortsAssumption DEF d, e
<1>6. ASSUME NEW x \in Devices, NEW j \in Interfaces
      PROVE  Forgets(e, x, j) <=> x = d /\ j \in Parts[i]
  <2>1. ASSUME Forgets(e, x, j) PROVE x = d /\ j \in Parts[i]
    <3>1. PICK y \in Interfaces : Covered(e) = PortUnits({y} \cup Parts[y]) /\ j \in Parts[y]
      BY <2>1 DEF Forgets
    <3>2. i = y
      BY <1>4, <3>1, PartsClear
    <3> QED BY <2>1, <3>1, <3>2 DEF Forgets, d
  <2> QED BY <1>1, <1>4, <2>1 DEF Forgets, d
<1>7. \A j \in Parts[i] : Of(dev[d], <<"interface", j>>) = {}
  <2> TAKE j \in Parts[i]
  <2>1. Forgets(then[c][1], d, j)
    BY <1>3, <1>5, <1>6
  <2>2. \A m : m \notin DOMAIN reqs[c]
    BY <1>1
  <2>3. Prelude(then[c][1]) = "forget_parts"
    BY <1>1, <1>3
  <2> QED BY <1>2, <1>3, <1>5, <2>1, <2>2, <2>3 DEF Fits, Freed
<1>8. missed' \subseteq Devices \X Excused
  <2>1. PortUnits({j \in Parts[i] : Of(dev[d], <<"interface", j>>) # {}}) = {}
    BY <1>7 DEF PortUnits
  <2>2. Uprooted(d, left(i), dev[d]) \subseteq Devices \X Excused
    BY <1>5, UprootedExcused
  <2> QED BY <1>2, <1>4, <2>1, <2>2
<1>9. ASSUME NEW x \in Devices PROVE PortsIn(dev[x]) = PortsIn(db'[x])
  <2>1. \A k \in DOMAIN then[c] : Prelude(then[c][k]) # "none"
    BY <1>1, <1>3
  <2>2. PortsIn(dev[x]) \subseteq PortsIn(db[x])
    BY <1>2, <2>1, NothingAwaited
  <2>3. ASSUME NEW j \in PortsIn(db[x]) \ PortsIn(dev[x]) PROVE x = d /\ j \in Parts[i]
    <3>1. j \in Interfaces
      BY DEF PortsIn
    <3>2. PICK k \in DOMAIN then[c] : Forgets(then[c][k], x, j)
      BY <1>2, <3>1 DEF Awaited
    <3> QED BY <1>3, <1>6, <3>1, <3>2
  <2>4. CASE x # d
    <3>1. db'[x] = db[x]
      BY <1>2, <1>4, <2>4 DEF TypeOK
    <3> QED BY <2>2, <2>3, <2>4, <3>1
  <2>5. CASE x = d
    <3>1. db'[x] = Standing(left(i))
      BY <1>2, <1>4, <1>5, <2>5 DEF TypeOK
    <3>2. PortsIn(db'[x]) = PortsIn(db[x]) \ Parts[i]
      BY <2>5, <3>1, LeftPorts
    <3>3. \A j \in Parts[i] : j \notin PortsIn(dev[x])
      BY <1>5, <1>7, <2>5, PortsOf
    <3> QED BY <2>2, <2>3, <3>2, <3>3
  <2> QED BY <2>4, <2>5
<1>10. Awaited(dev', db', then'[c])
  BY <1>1, <1>9, AllAwaited
<1>11. Fits(dev', reqs'[c], then'[c])
  <2>1. \A k \in DOMAIN then'[c] : Prelude(then'[c][k]) # "forget_parts"
    <3>1. then'[c] = discover_interface(d, i) \/ then'[c] = <<>>
      BY <1>2, <1>4 DEF TypeOK
    <3> QED BY <3>1 DEF discover_interface, Discover, Prelude
  <2>2. \A m : m \notin DOMAIN reqs'[c]
    BY <1>1
  <2> QED BY <2>1, <2>2 DEF Fits, Freed
<1>12. Steady(dev', db', ties')
  <2>1. ASSUME NEW x \in Devices, NEW g \in Groups, NEW j \in Members[g] \ PartPorts,
               j \in PortsIn(db'[x])
        PROVE  <<g, j>> \in ties'[x]
    <3>1. CASE x # d
      <4>1. db'[x] = db[x] /\ ties'[x] = ties[x]
        BY <1>2, <1>4, <3>1 DEF TypeOK
      <4> QED BY <1>2, <2>1, <4>1, SteadyPorts
    <3>2. CASE x = d
      <4>1. db'[x] = Standing(left(i)) /\ ties'[x] = TiedMembers(ties[x], {}, left(i))
        BY <1>2, <1>4, <1>5, <3>2 DEF TypeOK
      <4>2. j \in PortsIn(db[x]) /\ Port(j) \in left(i)
        <5>1. j \in PortsIn(left(i)) /\ j \in PortsIn(db[d])
          BY <2>1, <4>1, StandingPorts, LeftPorts
        <5> QED BY <3>2, <5>1 DEF PortsIn
      <4>3. <<g, j>> \in ties[x]
        BY <1>2, <4>2, SteadyPorts
      <4> QED BY <4>1, <4>2, <4>3, TiesStay
    <3> QED BY <3>1, <3>2
  <2> QED BY <1>1, <1>9, <2>1, SteadyPorts
<1> QED BY <1>1, <1>8, <1>10, <1>11, <1>12 DEF Fresh

(* The members that are not looked up neither the device nor the DB has,   *)
(* or they are parts.                                                      *)
LEMMA OneLookUpMembers ==
    ASSUME SyncInv, OneInv, NEW c, Clients = {c}, LookUpMembers(c)
    PROVE  OneInv'
<1> SUFFICES ASSUME faults' = 0
             PROVE  /\ Fresh(c)' /\ Awaited(dev', db', then'[c])
                    /\ Fits(dev', reqs'[c], then'[c])
                    /\ missed' \subseteq Devices \X Excused
                    /\ Steady(dev', db', ties')
  BY OneStep
<1> DEFINE e == Current(c)
           d == DeviceOf(e)
           known(g) == {i \in Members[g] : <<g, i>> \in ties[d]}
           other(g) == {j \in Members[g] \ known(g) : Port(j) \in dev[d] \cup db[d]}
<1>1. /\ faults' = faults /\ dev' = dev /\ db' = db /\ ties' = ties /\ pc' = pc /\ reqs' = reqs /\ pc[c] = "busy"
      /\ reqs[c] = <<>> /\ then[c] # <<>> /\ Prelude(e) = "look_up_members"
  BY DEF LookUpMembers, Discovering
<1>2. /\ TypeOK /\ Hardware /\ Alone(then[c]) /\ then[c] \in Seq(Entry)
      /\ Awaited(dev, db, then[c]) /\ missed \subseteq Devices \X Excused
      /\ Steady(dev, db, ties)
  BY <1>1, OneThread
<1>3. e = then[c][1] /\ 1 \in DOMAIN then[c] /\ \A k \in DOMAIN then[c] : k = 1
  BY <1>1, <1>2, TheOnlyOne DEF Current
<1>4. PICK g \in Groups :
        /\ \E order \in Orders(known(g)) :
            then' = [then EXCEPT ![c] = [k \in DOMAIN order |-> Discover(d, PortUnits({order[k]}))]]
        /\ missed' = missed \cup ({d} \X PortUnits(other(g)))
  BY DEF LookUpMembers
<1>5. PICK order \in Orders(known(g)) :
        then' = [then EXCEPT ![c] = [k \in DOMAIN order |-> Discover(d, PortUnits({order[k]}))]]
  BY <1>4
<1>6. d \in Devices
  BY <1>1, <1>2, CurrentType
<1>7. ASSUME NEW x \in Devices PROVE PortsIn(dev[x]) = PortsIn(db[x])
  <2>1. /\ \A k \in DOMAIN then[c] : Prelude(then[c][k]) # "none"
        /\ \A k \in DOMAIN then[c] : Prelude(then[c][k]) # "forget_parts"
    BY <1>1, <1>3
  <2>2. PortsIn(db[x]) \subseteq PortsIn(dev[x]) /\ PortsIn(dev[x]) \subseteq PortsIn(db[x])
    BY <1>2, <2>1, NothingAwaited
  <2> QED BY <2>2
<1>8. other(g) \subseteq PartMembers
  <2> SUFFICES ASSUME NEW j \in other(g) PROVE j \in PartMembers
    OBVIOUS
  <2>1. j \in Members[g] /\ <<g, j>> \notin ties[d] /\ Port(j) \in dev[d] \cup db[d]
    OBVIOUS
  <2>2. j \in PartPorts
    BY <1>2, <1>6, <2>1 DEF Steady
  <2>3. j \in UNION {Members[h] : h \in Groups}
    BY <2>1
  <2> QED BY ONLY <2>2, <2>3 DEF PartMembers, PartPorts
<1>9. missed' \subseteq Devices \X Excused
  <2> HIDE DEF other, d
  <2>1. PortUnits(other(g)) \subseteq Excused
    BY <1>8 DEF PortUnits, Excused
  <2> QED BY <1>2, <1>4, <1>6, <2>1
<1>10. Awaited(dev', db', then'[c])
  BY <1>1, <1>7, AllAwaited
<1>11. Fits(dev', reqs'[c], then'[c])
  <2>1. \A k \in DOMAIN then'[c] : Prelude(then'[c][k]) # "forget_parts"
    <3>1. then'[c] = [k \in DOMAIN order |-> Discover(d, PortUnits({order[k]}))]
      BY <1>2, <1>5 DEF TypeOK
    <3> QED BY <3>1 DEF Discover, Prelude
  <2>2. \A m : m \notin DOMAIN reqs'[c]
    BY <1>1
  <2> QED BY <2>1, <2>2 DEF Fits, Freed
<1> QED BY <1>1, <1>2, <1>9, <1>10, <1>11 DEF Fresh

LEMMA OneGet ==
    ASSUME SyncInv, OneInv, NEW c, Clients = {c}, Get(c)
    PROVE  OneInv'
<1> SUFFICES ASSUME faults' = 0
             PROVE  /\ Fresh(c)' /\ Awaited(dev', db', then'[c])
                    /\ Fits(dev', reqs'[c], then'[c])
                    /\ missed' \subseteq Devices \X Excused
                    /\ Steady(dev', db', ties')
  BY OneStep
<1>1. /\ faults' = faults /\ dev' = dev /\ db' = db /\ reqs' = reqs /\ then' = then
      /\ missed' = missed /\ ties' = ties
      /\ got' = [got EXCEPT ![c] = OfAll(dev[DeviceOf(Current(c))], Covered(Current(c)))]
  BY DEF Get, Ask
<1>2. /\ TypeOK /\ Awaited(dev, db, then[c]) /\ Fits(dev, reqs[c], then[c])
      /\ missed \subseteq Devices \X Excused /\ Steady(dev, db, ties)
  BY <1>1, OneThread
<1>3. got'[c] = OfAll(dev[DeviceOf(Current(c))], Covered(Current(c)))
  BY <1>1, <1>2 DEF TypeOK
<1>4. Fresh(c)'
  BY <1>1, <1>3 DEF Fresh, Current
<1> QED BY <1>1, <1>2, <1>4

(* An answer that is what the device has, when the DB has no port that the *)
(* device has not: it decides all units but those that neither has.        *)
LEMMA WholeAnswer ==
    ASSUME NEW x, PortsWhole(x), OneSpeed(x), NEW y, PortsWhole(y),
           PortsIn(y) \subseteq PortsIn(x), NEW us \in SUBSET Units,
           NEW answer, answer = OfAll(x, us), NEW u \in us
    PROVE  IF u \in Decided(us, answer) THEN Of(answer, u) = Of(x, u)
                                        ELSE Of(y, u) = {} /\ Of(x, u) = {}
<1>1. CASE u \in Decided(us, answer)
  BY <1>1 DEF Of, OfAll
<1>2. CASE u \notin Decided(us, answer)
  <2>1. \A f \in Features : u # Whole(f)
    BY <1>2, DecidedFacts
  <2>2. ASSUME NEW g \in Groups, u = <<"port_group", g>> PROVE FALSE
    <3>1. PICK s \in Speeds : GroupSpeed(g, s) \in x
      BY DEF OneSpeed
    <3>2. GroupSpeed(g, s) \in answer
      BY <2>2, <3>1, UnitOfPort DEF OfAll
    <3>3. u \in insert_device_port_groups_in_db(us, answer)
      BY <2>2, <3>2 DEF insert_device_port_groups_in_db, GroupsIn
    <3> QED BY <1>2, <3>3 DEF Decided
  <2>3. ASSUME NEW i \in Interfaces, u = <<"interface", i>>
        PROVE  Of(y, u) = {} /\ Of(x, u) = {}
    <3>1. ASSUME i \in PortsIn(x) PROVE FALSE
      <4>1. i \in PortsIn(answer)
        BY <2>3, <3>1, UnitOfPort DEF PortsIn, OfAll
      <4>2. u \in us \cap PortUnits(PortsIn(answer)) /\ u \in us \cap PortUnits(Interfaces)
        BY <2>3, <4>1, PortUnitsFacts
      <4>3. u \in insert_device_interfaces_in_db(us, answer)
        BY <4>2 DEF insert_device_interfaces_in_db
      <4> QED BY <1>2, <4>3 DEF Decided
    <3>2. i \notin PortsIn(x) /\ i \notin PortsIn(y)
      BY <3>1
    <3> QED BY <2>3, <3>2, NoPort
  <2>4. u \in Units
    OBVIOUS
  <2>5. \/ \E f \in Features : u = Whole(f)
        \/ \E i \in Interfaces : u = <<"interface", i>>
        \/ \E g \in Groups : u = <<"port_group", g>>
    BY <2>4 DEF Units, PortUnits, GroupUnits
  <2> QED BY <1>2, <2>1, <2>2, <2>3, <2>5
<1> QED BY <1>1, <1>2

(* Such an insertion brings the ports asked for and takes none away.       *)
LEMMA InsertedPorts ==
    ASSUME NEW x, PortsWhole(x), OneSpeed(x), NEW y, PortsWhole(y),
           PortsIn(y) \subseteq PortsIn(x), NEW us \in SUBSET Units,
           NEW answer, answer = OfAll(x, us),
           NEW kept \in _create_bgp_graph_objects(GlobalsOf(answer)),
           NEW new, new = (y \ OfAll(y, Decided(us, answer)))
                          \cup Stored(y, answer, kept, Decided(us, answer))
    PROVE  /\ PortsIn(y) \subseteq PortsIn(new) /\ PortsIn(new) \subseteq PortsIn(x)
           /\ \A i \in PortsIn(x) : <<"interface", i>> \in us => i \in PortsIn(new)
<1> DEFINE decided == Decided(us, answer)
<1>1. ASSUME NEW i PROVE Port(i) \in new <=>
                             IF <<"interface", i>> \in decided THEN Port(i) \in answer
                                                               ELSE Port(i) \in y
  <2>1. Port(i) \in Stored(y, answer, kept, decided)
            <=> Port(i) \in answer /\ <<"interface", i>> \in decided
    BY StoredPorts
  <2>2. Port(i) \in OfAll(y, decided) <=> Port(i) \in y /\ <<"interface", i>> \in decided
    BY UnitOfPort DEF OfAll
  <2> QED BY <2>1, <2>2
<1>2. decided \subseteq us
  BY DecidedFacts
<1> HIDE DEF decided
<1>3. \A i : Port(i) \in answer <=> Port(i) \in x /\ <<"interface", i>> \in us
  BY UnitOfPort DEF OfAll
<1>4. PortsIn(y) \subseteq PortsIn(new) /\ PortsIn(new) \subseteq PortsIn(x)
  BY <1>1, <1>2, <1>3 DEF PortsIn
<1>5. ASSUME NEW i \in PortsIn(x), <<"interface", i>> \in us PROVE i \in PortsIn(new)
  <2>1. i \in Interfaces /\ Port(i) \in x
    BY DEF PortsIn
  <2>2. CASE <<"interface", i>> \in decided
    BY <1>1, <1>3, <1>5, <2>1, <2>2 DEF PortsIn
  <2>3. CASE <<"interface", i>> \notin decided
    <3>1. Of(x, <<"interface", i>>) = {}
      BY <1>5, <2>3, WholeAnswer DEF decided
    <3> QED BY <2>1, <3>1, PortsOf
  <2> QED BY <2>2, <2>3
<1> QED BY <1>4, <1>5

(* The answer that is inserted has not been overtaken.                     *)
LEMMA OneInsert ==
    ASSUME SyncInv, OneInv, NEW c, Clients = {c}, Insert(c)
    PROVE  OneInv'
<1> SUFFICES ASSUME faults' = 0
             PROVE  /\ Fresh(c)' /\ Awaited(dev', db', then'[c])
                    /\ Fits(dev', reqs'[c], then'[c])
                    /\ missed' \subseteq Devices \X Excused
                    /\ Steady(dev', db', ties')
  BY OneStep
<1> DEFINE e == Current(c)
           d == DeviceOf(e)
           answer == got[c]
           decided == Decided(Covered(e), answer)
           current == {u \in decided : Of(answer, u) = Of(dev[d], u)}
               \cup {u \in Covered(e) \ decided : Of(db[d], u) = {} /\ Of(dev[d], u) = {}}
<1>1. /\ faults' = faults /\ dev' = dev /\ reqs' = reqs /\ pc[c] = "insert"
      /\ pc' = [pc EXCEPT ![c] = "busy"] /\ then' = [then EXCEPT ![c] = Tail(@)]
  BY DEF Insert
<1>2. /\ TypeOK /\ Hardware /\ Alone(then[c]) /\ then[c] \in Seq(Entry)
      /\ Fresh(c) /\ Awaited(dev, db, then[c]) /\ missed \subseteq Devices \X Excused
      /\ Steady(dev, db, ties)
  BY <1>1, OneThread
<1>3. /\ then[c] # <<>> /\ Prelude(e) = "none" /\ reqs[c] = <<>>
      /\ then'[c] = Tail(then[c]) /\ pc'[c] = "busy"
  BY <1>1, <1>2 DEF TypeOK
<1>4. e = then[c][1] /\ 1 \in DOMAIN then[c]
      /\ \A k \in DOMAIN then[c] : Prelude(then[c][k]) = "none"
  BY <1>2, <1>3, TheOnlyOne DEF Current
<1>5. e \in Entry /\ d \in Devices /\ Covered(e) \in SUBSET Units
  BY <1>2, <1>4 DEF Entry, DeviceOf, Covered
<1>6. answer = OfAll(dev[d], Covered(e))
  BY <1>1, <1>2 DEF Fresh
<1>7. \A x \in Devices : PortsIn(db[x]) \subseteq PortsIn(dev[x])
  BY <1>2, <1>4, NothingAwaited
<1>8. /\ PortsWhole(dev[d]) /\ OneSpeed(dev[d]) /\ PortsWhole(db[d])
      /\ PortsIn(db[d]) \subseteq PortsIn(dev[d])
  BY <1>2, <1>5, <1>7 DEF Hardware
<1> DEFINE New(kept) ==
             (db[d] \ OfAll(db[d], decided)) \cup Stored(db[d], answer, kept, decided)
<1>9. PICK kept \in _create_bgp_graph_objects(GlobalsOf(answer)) :
          /\ db' = [db EXCEPT ![d] = Standing(New(kept))]
          /\ ties' = [ties EXCEPT ![d] = TiedMembers(@, decided, New(kept))]
          /\ missed' = (missed \ ({d} \X current)) \cup ({d} \X (Covered(e) \ current))
                       \cup Uprooted(d, New(kept), dev[d])
  BY DEF Insert, InsertAnswer
<1> DEFINE new == New(kept)
<1>10. PortsIn(db'[d]) = PortsIn(new)
  <2> HIDE DEF new
  <2>1. db'[d] = Standing(new)
    BY <1>2, <1>5, <1>9 DEF TypeOK, new
  <2> QED BY <2>1, StandingPorts
<1>11. \A x \in Devices : x # d => db'[x] = db[x] /\ ties'[x] = ties[x]
  BY <1>2, <1>5, <1>9 DEF TypeOK
<1> HIDE DEF e, d, answer
<1>12. Covered(e) \subseteq current
  BY <1>5, <1>6, <1>8, WholeAnswer
<1>13. missed' \subseteq Devices \X Excused
  <2> HIDE DEF current
  <2>1. Covered(e) \ current = {}
    BY <1>12
  <2>2. Uprooted(d, new, dev[d]) \subseteq Devices \X Excused
    BY <1>5, UprootedExcused
  <2> QED BY <1>2, <1>9, <2>1, <2>2
<1>14. /\ PortsIn(db[d]) \subseteq PortsIn(db'[d]) /\ PortsIn(db'[d]) \subseteq PortsIn(dev[d])
       /\ \A i \in PortsIn(dev[d]) : <<"interface", i>> \in Covered(e) => i \in PortsIn(db'[d])
  <2>1. /\ PortsIn(db[d]) \subseteq PortsIn(new) /\ PortsIn(new) \subseteq PortsIn(dev[d])
        /\ \A i \in PortsIn(dev[d]) : <<"interface", i>> \in Covered(e) => i \in PortsIn(new)
    BY <1>5, <1>6, <1>8, InsertedPorts
  <2> QED BY <1>10, <2>1
<1>15. Awaited(dev', db', then'[c])
  <2> SUFFICES ASSUME NEW x \in Devices, NEW i \in Interfaces
               PROVE  /\ i \in PortsIn(dev[x]) \ PortsIn(db'[x]) =>
                             \E k \in DOMAIN Tail(then[c]) : Plain(Tail(then[c])[k], x, i)
                      /\ i \notin PortsIn(db'[x]) \ PortsIn(dev[x])
    BY <1>1, <1>3 DEF Awaited
  <2>1. i \notin PortsIn(db'[x]) \ PortsIn(dev[x])
    BY <1>7, <1>11, <1>14
  <2>2. ASSUME i \in PortsIn(dev[x]) \ PortsIn(db'[x])
        PROVE  \E k \in DOMAIN Tail(then[c]) : Plain(Tail(then[c])[k], x, i)
    <3>1. i \in PortsIn(dev[x]) \ PortsIn(db[x])
      BY <1>11, <1>14, <2>2
    <3>2. PICK k \in DOMAIN then[c] : Plain(then[c][k], x, i)
      BY <1>2, <3>1 DEF Awaited
    <3>3. k # 1
      BY <1>4, <1>14, <2>2, <3>2 DEF Plain, d
    <3>4. k - 1 \in DOMAIN Tail(then[c]) /\ Tail(then[c])[k - 1] = then[c][k]
      BY <1>2, <1>3, <3>3, TailAlone
    <3> QED BY <3>2, <3>4
  <2> QED BY <2>1, <2>2
<1>16. Fits(dev', reqs'[c], then'[c])
  <2>1. \A k \in DOMAIN Tail(then[c]) : k + 1 \in DOMAIN then[c] /\ Tail(then[c])[k] = then[c][k + 1]
    BY <1>2, <1>3
  <2>2. \A k \in DOMAIN then'[c] : Prelude(then'[c][k]) # "forget_parts"
    BY <1>3, <1>4, <2>1
  <2>3. \A m : m \notin DOMAIN reqs'[c]
    BY <1>1, <1>3
  <2> QED BY <2>2, <2>3 DEF Fits, Freed
<1>17. Steady(dev', db', ties')
  <2>1. ASSUME NEW x \in Devices, NEW g \in Groups, NEW j \in Members[g] \ PartPorts
        PROVE  /\ j \in PortsIn(dev[x]) => j \in PortsIn(db[x])
               /\ j \in PortsIn(db[x]) => <<g, j>> \in ties[x]
    BY <1>2, SteadyPorts
  <2>2. ASSUME NEW x \in Devices, NEW g \in Groups, NEW j \in Members[g] \ PartPorts
        PROVE  /\ j \in PortsIn(dev[x]) => j \in PortsIn(db'[x])
               /\ j \in PortsIn(db'[x]) => <<g, j>> \in ties'[x]
    <3>1. CASE x # d
      BY <1>11, <2>1, <3>1
    <3>2. CASE x = d
      <4>1. ASSUME j \in PortsIn(db'[x]) PROVE <<g, j>> \in ties'[x]
        <5>1. <<g, j>> \in ties[x]
          BY <1>14, <2>1, <3>2, <4>1
        <5>2. Port(j) \in new
          BY <1>10, <3>2, <4>1 DEF PortsIn
        <5>3. ties'[x] = TiedMembers(ties[x], decided, new)
          BY <1>2, <1>5, <1>9, <3>2 DEF TypeOK
        <5> QED BY <5>1, <5>2, <5>3, TiesStay
      <4> QED BY <1>14, <2>1, <3>2, <4>1
    <3> QED BY <3>1, <3>2
  <2> QED BY <1>1, <2>2, SteadyPorts
<1> QED BY <1>3, <1>13, <1>15, <1>16, <1>17 DEF Fresh

LEMMA OneThreadStep ==
    ASSUME SyncInv, OneInv, NEW c, Clients = {c}, [Next]_vars
    PROVE  OneInv'
<1>1. TypeOK
  BY DEF SyncInv
<1>2. ASSUME NEW k \in Clients, NEW d \in Devices,
             BgpCall(k, d) \/ SpanningCall(k, d) \/ PortCall(k, d)
      PROVE  OneInv'
  BY <1>2, EveryCallSafe, OneBegin
<1>3. ASSUME NEW k \in Clients, ClientStep(k) PROVE OneInv'
  <2>1. k = c
    OBVIOUS
  <2>2. CASE SetNotSent(k) \/ SetRaises(k) \/ GetNothing(k) \/ GetRaises(k)
    BY <1>1, <2>2, OneFault DEF SetNotSent, SetRaises, GetNothing, GetRaises
  <2>3. CASE Set(k) \/ ForgetParts(k) \/ LookUpMembers(k) \/ Get(k) \/ Insert(k) \/ Return(k)
    BY <2>1, <2>3, OneSet, OneForgetParts, OneLookUpMembers, OneGet, OneInsert, OneReturn
  <2> QED BY <1>3, <2>2, <2>3 DEF ClientStep
<1>4. ASSUME NEW k \in Clients, discover_device(k) PROVE OneInv'
  BY <1>4, SafeDiscoverDevice, OneBegin
<1>5. ASSUME NEW d \in Devices, handle_port_group_config_update(d) PROVE OneInv'
  BY <1>5, OneNotification
<1>6. CASE UNCHANGED vars
  <2>1. UNCHANGED <<dev, db, ties, faults, pc, reqs, then, got, missed>>
    BY <1>6 DEF vars, client
  <2> QED BY <2>1 DEF OneInv, Fresh, Current
<1> QED BY <1>2, <1>3, <1>4, <1>5, <1>6 DEF Next

(* One thread, and no failure so far: whatever the functions configure and *)
(* in whatever order, with the notifications of port groups in between,    *)
(* the DB follows the devices but for the neighbors of BGP and the members *)
(* of VLANs, which some functions change and do not discover, and the      *)
(* speed of the parts of a breakout, which the DB has not tied to their    *)
(* port group.                                                             *)
THEOREM OneThreadMissesNoMore == Spec => []OneThreadMissesOnly
<1>1. CASE Cardinality(Clients) # 1
  <2>1. OneThreadMissesOnly
    BY <1>1 DEF OneThreadMissesOnly
  <2> QED BY <2>1, PTL
<1>2. CASE Cardinality(Clients) = 1
  <2>1. PICK c : Clients = {c}
    BY <1>2, FS_Singleton, DevicesAssumption
  <2>2. SyncInv /\ OneInv /\ [Next]_vars => OneInv'
    BY <2>1, OneThreadStep
  <2>3. OneInv => OneThreadMissesOnly
    BY <2>1 DEF OneInv, OneThreadMissesOnly, Excused
  <2> QED BY NetworkSync, OneInit, <2>2, <2>3, PTL DEF Spec
<1> QED BY <1>1, <1>2
=============================================================================
