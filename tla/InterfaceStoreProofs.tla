------------------------ MODULE InterfaceStoreProofs ------------------------
(***************************************************************************)
(* Theorems about InterfaceStore, for every set of threads, attributes,    *)
(* values and nodes and every number of changes.                           *)
(***************************************************************************)
EXTENDS InterfaceStore, FiniteSetTheorems, TLAPS

(* Only discoveries insert, and they always have all attributes to write.  *)
DiscoveriesComplete ==
    /\ \A w \in Writers : pc[w] = "insert" => w \in Discoverers
    /\ \A w \in Discoverers : want[w] \in Config

LEMMA InitTypeOK == Init => TypeOK
<1> SUFFICES ASSUME Init PROVE TypeOK
  OBVIOUS
<1>1. dev \in PartialConfig
  BY DEF Init, Config, PartialConfig
<1>2. raced \in BOOLEAN /\ present \in BOOLEAN
  BY Zenon DEF Init
<1>3. 0 \in Change
  BY BoundAssumption DEF Change
<1>4. DOMAIN db \subseteq Nodes /\ \A n \in DOMAIN db : db[n] \in Config
  BY DEF Init
<1>5. QED
  BY <1>1, <1>2, <1>3, <1>4 DEF Init, TypeOK, Config, PC

(* What a writer that is done leaves behind is well-typed.                 *)
LEMMA DoneTypeOK ==
    ASSUME TypeOK, NEW w \in Writers, NEW wrong \in BOOLEAN, Done(w, wrong)
    PROVE  /\ seen' \in [Attrs -> Change] /\ raced' \in BOOLEAN
           /\ UNCHANGED <<device, queue, want, age, node, copy>>
<1>1. raced' \in BOOLEAN
  BY Zenon DEF TypeOK, Done
<1>2. QED
  BY <1>1 DEF TypeOK, Done

LEMMA SaveTypeOK ==
    ASSUME TypeOK, NEW w \in Writers, NEW values \in Config, Save(w, values)
    PROVE  TypeOK'
<1>1. Stale(w) \in BOOLEAN
  BY DEF Stale
<1>2. Done(w, Stale(w))
  BY DEF Save
<1>3. /\ seen' \in [Attrs -> Change] /\ raced' \in BOOLEAN
      /\ UNCHANGED <<device, queue, want, age, node, copy>>
  BY <1>1, <1>2, DoneTypeOK
<1>4. /\ pc' \in [Writers -> PC] /\ DOMAIN db' = DOMAIN db
      /\ \A n \in DOMAIN db' : db'[n] \in Config
  BY DEF Save, Goto, TypeOK, PC
<1>5. QED
  BY <1>3, <1>4 DEF TypeOK, device

LEMMA InsertTypeOK ==
    ASSUME TypeOK, DiscoveriesComplete, NEW w \in Writers, InsertNode(w)
    PROVE  TypeOK'
<1>1. Done(w, DOMAIN db # {})
  BY DEF InsertNode
<1>2. (DOMAIN db # {}) \in BOOLEAN
  OBVIOUS
<1>3. /\ seen' \in [Attrs -> Change] /\ raced' \in BOOLEAN
      /\ UNCHANGED <<device, queue, want, age, node, copy>>
  BY <1>1, <1>2, DoneTypeOK
<1>4. want[w] \in Config
  BY DEF InsertNode, Goto, DiscoveriesComplete
<1>5. /\ pc' \in [Writers -> PC] /\ DOMAIN db' \subseteq Nodes
      /\ \A n \in DOMAIN db' : db'[n] \in Config
  BY <1>4 DEF InsertNode, Goto, TypeOK, PC
<1>6. QED
  BY <1>3, <1>5 DEF TypeOK, device

(* What a writer is about to write, and what it saves, is well-typed.      *)
LEMMA StepTypeOK ==
    ASSUME TypeOK, DiscoveriesComplete, [Next]_vars PROVE TypeOK'
<1>a. changes + 1 \in Change \/ changes = MaxChanges
  BY BoundAssumption DEF TypeOK, Change
<1>1. ASSUME NEW a \in Attrs, NEW v \in Vals, SetAttribute(a, v)
      PROVE  TypeOK'
  <2>1. changes + 1 \in Change /\ changes' = changes + 1
    BY <1>1, BoundAssumption DEF SetAttribute, ChangeDevice, TypeOK, Change
  <2>2. [attr |-> a, val |-> v, at |-> changes + 1] \in Notification
    BY <2>1 DEF Notification
  <2>3. /\ queue' \in Seq(Notification) /\ last' \in [Attrs -> Change]
        /\ dev' \in Config
    BY <1>1, <2>1, <2>2 DEF SetAttribute, TypeOK, Config
  <2>4. UNCHANGED <<db, present, locals, history>>
    BY <1>1 DEF SetAttribute, ChangeDevice
  <2>5. QED
    BY <2>1, <2>3, <2>4 DEF TypeOK, locals, history
<1>2. CASE ToggleInterface
  <2>1. changes + 1 \in Change /\ changes' = changes + 1
    BY <1>2, BoundAssumption DEF ToggleInterface, ChangeDevice, TypeOK, Change
  <2>2. present' \in BOOLEAN
    BY <1>2 DEF ToggleInterface
  <2>3. UNCHANGED <<dev, last, queue, db, locals, history>>
    BY <1>2 DEF ToggleInterface, ChangeDevice
  <2>4. QED
    BY <2>1, <2>2, <2>3 DEF TypeOK, locals, history
<1>3. ASSUME NEW w \in Writers, Dispatch(w) PROVE TypeOK'
  <2>1. /\ Head(queue) \in Notification
        /\ Tail(queue) \in Seq(Notification)
    BY <1>3 DEF Dispatch, TypeOK
  <2>2. [a \in {Head(queue).attr} |-> Head(queue).val] \in PartialConfig
    <3> DEFINE n == Head(queue)
    <3>1. {n.attr} \in SUBSET Attrs /\ n.val \in Vals
      BY <2>1 DEF Notification
    <3>2. [a \in {n.attr} |-> n.val] \in [{n.attr} -> Vals]
      BY <3>1
    <3> HIDE DEF n
    <3>3. [a \in {n.attr} |-> n.val] \in PartialConfig
      BY <3>1, <3>2 DEF PartialConfig
    <3>4. QED
      BY <3>3 DEF n
  <2>3. Head(queue).at \in Change
    BY <2>1 DEF Notification
  <2>4. /\ pc' \in [Writers -> PC] /\ want' \in [Writers -> PartialConfig]
        /\ age' \in [Writers -> Change] /\ queue' \in Seq(Notification)
    BY <1>3, <2>1, <2>2, <2>3 DEF Dispatch, Goto, TypeOK, PC
  <2>5. UNCHANGED <<device, db, node, copy, history>>
    BY <1>3 DEF Dispatch
  <2>6. QED
    BY <2>4, <2>5 DEF TypeOK, device, history
<1>4. ASSUME NEW w \in Writers, Discover(w) PROVE TypeOK'
  <2>1. dev \in PartialConfig
    BY DEF Config, PartialConfig, TypeOK
  <2>2. /\ pc' \in [Writers -> PC] /\ want' \in [Writers -> PartialConfig]
        /\ age' \in [Writers -> Change]
    BY <1>4, <2>1 DEF Discover, Reply, Goto, TypeOK, PC
  <2>3. UNCHANGED <<device, queue, db, node, copy, history>>
    BY <1>4 DEF Discover, Reply
  <2>4. QED
    BY <2>2, <2>3 DEF TypeOK, device, history
<1>5. ASSUME NEW w \in Writers, WriterStep(w) PROVE TypeOK'
  <2>1. CASE ReadNode(w)
    BY <2>1 DEF ReadNode, Goto, TypeOK, PC, device, history
  <2>2. CASE LookOn(w)
    BY <2>2 DEF LookOn, Goto, TypeOK, PC, device, history
  <2>3. CASE DropUpdate(w)
    <3>1. Done(w, FALSE)
      BY <2>3 DEF DropUpdate
    <3>2. /\ seen' \in [Attrs -> Change] /\ raced' \in BOOLEAN
          /\ UNCHANGED <<device, queue, want, age, node, copy>>
      BY <3>1, DoneTypeOK
    <3>3. pc' \in [Writers -> PC] /\ db' = db
      BY <2>3 DEF DropUpdate, Goto, TypeOK, PC
    <3>4. QED
      BY <3>2, <3>3 DEF TypeOK, device
  <2>4. CASE ReadAmbiguous(w)
    BY <2>4 DEF ReadAmbiguous, Goto, TypeOK, PC, device, history
  <2>5. CASE SaveNode(w)
    <3>1. PICK A \in SUBSET Attrs : want[w] \in [A -> Vals]
      BY DEF PartialConfig, TypeOK
    <3>2. [a \in Attrs |-> IF a \in DOMAIN want[w]
                            THEN want[w][a] ELSE copy[w][a]] \in Config
      BY <3>1 DEF Config, TypeOK
    <3>3. QED
      BY <2>5, <3>2, SaveTypeOK DEF SaveNode
  <2>6. CASE InsertNode(w)
    BY <2>6, InsertTypeOK
  <2>7. CASE PruneNode(w)
    BY <2>7 DEF PruneNode, Goto, TypeOK, PC, device, history
  <2>8. QED
    BY <1>5, <2>1, <2>2, <2>3, <2>4, <2>5, <2>6, <2>7 DEF WriterStep
<1>6. CASE UNCHANGED vars
  BY <1>6 DEF vars, TypeOK
<1>7. QED
  BY <1>1, <1>2, <1>3, <1>4, <1>5, <1>6 DEF Next

(* Notifications never touch what a discovery has collected.               *)
LEMMA StepDiscoveriesComplete ==
    ASSUME TypeOK, DiscoveriesComplete, [Next]_vars
    PROVE  DiscoveriesComplete'
<1> USE DEF TypeOK, DiscoveriesComplete, Goto, device, locals, Writers
<1>1. CASE \E a \in Attrs, v \in Vals : SetAttribute(a, v)
  BY <1>1 DEF SetAttribute, ChangeDevice
<1>2. CASE ToggleInterface
  BY <1>2 DEF ToggleInterface, ChangeDevice
<1>3. CASE \E w \in Writers : Dispatch(w)
  BY <1>3, WritersAssumption DEF Dispatch
<1>4. CASE \E w \in Writers : Discover(w)
  BY <1>4 DEF Discover, Reply
<1>5. CASE \E w \in Writers : WriterStep(w)
  BY <1>5
  DEF WriterStep, ReadNode, LookOn, DropUpdate, ReadAmbiguous, SaveNode, Save,
      Done, InsertNode, PruneNode
<1>6. CASE UNCHANGED vars
  BY <1>6 DEF vars
<1>7. QED
  BY <1>1, <1>2, <1>3, <1>4, <1>5, <1>6 DEF Next

LEMMA TypeInvariance == Spec => [](TypeOK /\ DiscoveriesComplete)
<1>1. Init => TypeOK /\ DiscoveriesComplete
  BY InitTypeOK DEF Init, DiscoveriesComplete, Writers
<1>2. TypeOK /\ DiscoveriesComplete /\ [Next]_vars
          => (TypeOK /\ DiscoveriesComplete)'
  BY StepTypeOK, StepDiscoveriesComplete
<1>3. QED
  BY <1>1, <1>2, PTL DEF Spec

(* The state of the interface store is well-typed throughout: whatever the *)
(* writers interleave, a node always has all attributes.                   *)
THEOREM StoreTypeCorrect == Spec => []TypeOK
BY TypeInvariance, PTL

-----------------------------------------------------------------------------
(* The nodes of one round of discoveries: NodesOfOneRound.                 *)

(* The discoveries that have seen no node.                                 *)
Inserters == {w \in Discoverers : pc[w] = "insert"}

RoundInv ==
    /\ IsFiniteSet(DOMAIN db)
    /\ Cardinality(DOMAIN db) + Cardinality(Inserters) <= Cardinality(Discoverers)

(* A step that adds neither nodes nor insertions.                          *)
LEMMA RoundShrinks ==
    ASSUME RoundInv, Inserters' \subseteq Inserters,
           DOMAIN db' \subseteq DOMAIN db
    PROVE  RoundInv'
<1>1. IsFiniteSet(Inserters)
  BY DiscoverersAssumption, FS_Subset DEF Inserters
<1>2. /\ IsFiniteSet(DOMAIN db') /\ Cardinality(DOMAIN db') <= Cardinality(DOMAIN db)
      /\ Cardinality(Inserters') <= Cardinality(Inserters)
      /\ IsFiniteSet(Inserters')
  BY <1>1, FS_Subset DEF RoundInv
<1>3. /\ Cardinality(DOMAIN db) \in Nat /\ Cardinality(DOMAIN db') \in Nat
      /\ Cardinality(Inserters) \in Nat /\ Cardinality(Inserters') \in Nat
      /\ Cardinality(Discoverers) \in Nat
  BY <1>1, <1>2, DiscoverersAssumption, FS_CardinalityType DEF RoundInv
<1>4. QED
  BY <1>2, <1>3 DEF RoundInv

LEMMA StepRoundInv ==
    ASSUME TypeOK, DiscoveriesComplete, RoundInv, [Next]_vars PROVE RoundInv'
<1> USE DEF Goto
<1>0. /\ Cardinality(Discoverers) \in Nat /\ Cardinality(DOMAIN db) \in Nat
      /\ IsFiniteSet(Inserters) /\ Cardinality(Inserters) \in Nat
  BY DiscoverersAssumption, FS_CardinalityType, FS_Subset DEF RoundInv, Inserters
<1>1. ASSUME NEW a \in Attrs, NEW v \in Vals, SetAttribute(a, v)
      PROVE  RoundInv'
  BY <1>1 DEF SetAttribute, ChangeDevice, locals, RoundInv, Inserters
<1>2. CASE ToggleInterface
  BY <1>2 DEF ToggleInterface, ChangeDevice, locals, RoundInv, Inserters
<1>3. ASSUME NEW w \in Writers, Dispatch(w) PROVE RoundInv'
  <2>1. Inserters' \subseteq Inserters /\ db' = db
    BY <1>3 DEF Dispatch, Inserters, TypeOK
  <2>2. QED
    BY <2>1, RoundShrinks
<1>4. ASSUME NEW w \in Writers, Discover(w) PROVE RoundInv'
  <2>1. Inserters' \subseteq Inserters /\ db' = db
    BY <1>4 DEF Discover, Reply, Inserters, TypeOK
  <2>2. QED
    BY <2>1, RoundShrinks
<1>5. ASSUME NEW w \in Writers, WriterStep(w) PROVE RoundInv'
  <2>1. CASE ReadNode(w) \/ DropUpdate(w) \/ ReadAmbiguous(w)
    <3>1. /\ db' = db
          /\ \/ pc' = [pc EXCEPT ![w] = "save"]
             \/ pc' = [pc EXCEPT ![w] = "idle"]
      BY <2>1 DEF ReadNode, DropUpdate, ReadAmbiguous
    <3>2. Inserters' \subseteq Inserters
      BY <3>1 DEF Inserters, TypeOK, Writers
    <3>3. QED
      BY <3>1, <3>2, RoundShrinks
  <2>2. CASE LookOn(w)
    <3>1. DOMAIN db' = {} /\ Cardinality(DOMAIN db') = 0 /\ IsFiniteSet(DOMAIN db')
      BY <2>2, FS_EmptySet DEF LookOn
    <3>2. Cardinality(Inserters') <= Cardinality(Discoverers)
      BY DiscoverersAssumption, FS_Subset DEF Inserters
    <3>3. IsFiniteSet(Inserters') /\ Cardinality(Inserters') \in Nat
      BY DiscoverersAssumption, FS_Subset, FS_CardinalityType DEF Inserters
    <3>4. QED
      BY <1>0, <3>1, <3>2, <3>3 DEF RoundInv
  <2>3. CASE SaveNode(w)
    <3>1. Inserters' \subseteq Inserters /\ DOMAIN db' = DOMAIN db
      BY <2>3 DEF SaveNode, Save, Inserters, TypeOK
    <3>2. QED
      BY <3>1, RoundShrinks
  <2>4. CASE InsertNode(w)
    <3>1. PICK n \in Nodes \ DOMAIN db :
              db' = [m \in DOMAIN db \cup {n} |-> IF m = n THEN want[w] ELSE db[m]]
      BY <2>4 DEF InsertNode
    <3>2. DOMAIN db' = DOMAIN db \cup {n} /\ n \notin DOMAIN db
      BY <3>1
    <3>3. w \in Inserters /\ Inserters' = Inserters \ {w}
      BY <2>4 DEF InsertNode, Inserters, DiscoveriesComplete, TypeOK
    <3>4. /\ Cardinality(DOMAIN db') = Cardinality(DOMAIN db) + 1
          /\ IsFiniteSet(DOMAIN db')
      BY <3>2, FS_AddElement DEF RoundInv
    <3>5. Cardinality(Inserters') = Cardinality(Inserters) - 1
      BY <1>0, <3>3, FS_RemoveElement
    <3>6. QED
      BY <1>0, <3>4, <3>5 DEF RoundInv
  <2>5. CASE PruneNode(w)
    <3>1. Inserters' \subseteq Inserters /\ DOMAIN db' = {}
      BY <2>5 DEF PruneNode, Inserters, TypeOK
    <3>2. QED
      BY <3>1, RoundShrinks
  <2>6. QED
    BY <1>5, <2>1, <2>2, <2>3, <2>4, <2>5 DEF WriterStep
<1>6. CASE UNCHANGED vars
  BY <1>6 DEF vars, RoundInv, Inserters
<1>7. QED
  BY <1>1, <1>2, <1>3, <1>4, <1>5, <1>6 DEF Next

(* However many discoveries overlap, with each other and with any number   *)
(* of notifications, an interface has no more nodes than there are threads *)
(* that discover; with one such thread, it has one.                        *)
THEOREM NodesStayOfOneRound == Spec => []NodesOfOneRound
<1>1. Init => RoundInv
  <2>1. SUFFICES ASSUME Init PROVE RoundInv
    OBVIOUS
  <2>a. pc = [w \in Writers |-> "idle"]
    BY <2>1 DEF Init
  <2>2. Inserters = {}
    BY <2>a DEF Inserters, Writers
  <2>b. PICK n \in Nodes : db = <<>> \/ db = [m \in {n} |-> dev]
    BY <2>1 DEF Init
  <2>3. DOMAIN db \subseteq {n}
    BY <2>b
  <2>c. IsFiniteSet({n}) /\ Cardinality({n}) = 1
    BY FS_Singleton
  <2>4. IsFiniteSet(DOMAIN db) /\ Cardinality(DOMAIN db) <= 1
    BY <2>3, <2>c, FS_Subset
  <2>5. Cardinality(Discoverers) \in Nat /\ Cardinality(Discoverers) # 0
    BY DiscoverersAssumption, FS_CardinalityType, FS_EmptySet
  <2>6. Cardinality(DOMAIN db) \in Nat /\ Cardinality(Inserters) = 0
    BY <2>2, <2>4, FS_CardinalityType, FS_EmptySet
  <2>7. QED
    BY <2>4, <2>5, <2>6 DEF RoundInv
<1>2. TypeOK /\ DiscoveriesComplete /\ RoundInv /\ [Next]_vars => RoundInv'
  BY StepRoundInv
<1>3. RoundInv => NodesOfOneRound
  <2>1. SUFFICES ASSUME RoundInv PROVE NodesOfOneRound
    OBVIOUS
  <2>2. /\ Cardinality(Discoverers) \in Nat /\ Cardinality(DOMAIN db) \in Nat
        /\ IsFiniteSet(Inserters)
    BY <2>1, DiscoverersAssumption, FS_CardinalityType, FS_Subset
    DEF RoundInv, Inserters
  <2>3. Cardinality(Inserters) \in Nat
    BY <2>2, FS_CardinalityType
  <2>4. QED
    BY <2>1, <2>2, <2>3 DEF RoundInv, NodesOfOneRound
<1>4. QED
  BY <1>1, <1>2, <1>3, TypeInvariance, PTL DEF Spec

-----------------------------------------------------------------------------
(* Right unless raced: InSync.                                             *)

AtWork(w) == pc[w] \in {"read", "save", "insert"}

(* The last change of a is on its way to the DB.                           *)
Carries(w, a) == AtWork(w) /\ a \in DOMAIN want[w] /\ age[w] >= last[a]

OnItsWay(a) ==
    \/ \E i \in 1..Len(queue) : queue[i].attr = a /\ queue[i].at >= last[a]
    \/ \E w \in Writers : Carries(w, a)

RightIn(a) == \A n \in DOMAIN db : db[n][a] = dev[a]

OneNode == \A m, n \in DOMAIN db : m = n

(* Who knows of the last change knows the value, and nobody knows of a     *)
(* change that is still to come.                                           *)
Truthful ==
    /\ \A i \in 1..Len(queue) :
           /\ queue[i].at <= changes
           /\ queue[i].at >= last[queue[i].attr] => queue[i].val = dev[queue[i].attr]
    /\ \A w \in Writers :
           /\ age[w] <= changes
           /\ \A a \in DOMAIN want[w] :
                  /\ a \in Attrs
                  /\ AtWork(w) /\ age[w] >= last[a] => want[w][a] = dev[a]
    /\ \A a \in Attrs : last[a] <= changes /\ seen[a] <= changes

(* Without a race there is one node, and what is wrong there is about to   *)
(* be put right.                                                           *)
Unraced ==
    /\ OneNode
    /\ \A a \in Attrs : IF seen[a] < last[a] THEN OnItsWay(a) ELSE RightIn(a)
    /\ \A w \in Writers : pc[w] = "insert" => DOMAIN want[w] = Attrs

RaceInv == Truthful /\ (~raced => Unraced)

(* Ages and the numbers of changes are numbers.                            *)
LEMMA Numbers ==
    ASSUME TypeOK
    PROVE  /\ changes \in Nat
           /\ \A i \in 1..Len(queue) : queue[i].at \in Nat /\ queue[i].attr \in Attrs
           /\ \A w \in Writers : age[w] \in Nat
           /\ \A b \in Attrs : last[b] \in Nat /\ seen[b] \in Nat
<1>1. \A x \in Change : x \in Nat
  BY BoundAssumption DEF Change
<1>2. \A i \in 1..Len(queue) : queue[i] \in Notification
  BY DEF TypeOK
<1>3. \A i \in 1..Len(queue) : queue[i].at \in Change /\ queue[i].attr \in Attrs
  BY <1>2 DEF Notification
<1>4. QED
  BY <1>1, <1>3 DEF TypeOK

LEMMA InitRaceInv == Init => RaceInv
<1> SUFFICES ASSUME Init PROVE RaceInv
  OBVIOUS
<1>1. /\ changes = 0 /\ queue = <<>> /\ dev \in Config
      /\ last = [a \in Attrs |-> 0] /\ seen = [a \in Attrs |-> 0]
      /\ pc = [w \in Writers |-> "idle"] /\ age = [w \in Writers |-> 0]
      /\ want = [w \in Writers |-> dev]
  BY DEF Init
<1>2. PICK n \in Nodes : db = <<>> \/ db = [m \in {n} |-> dev]
  BY DEF Init
<1>3. Truthful
  BY <1>1 DEF Truthful, AtWork, Config
<1>4. Unraced
  BY <1>1, <1>2 DEF Unraced, OneNode, RightIn, Config
<1>5. QED
  BY <1>3, <1>4 DEF RaceInv

(* A change of the device: its notification is the last in the queue.      *)
LEMMA RaceChange ==
    ASSUME TypeOK, RaceInv,
           NEW a \in Attrs, NEW v \in Vals, SetAttribute(a, v)
    PROVE  RaceInv'
<1>1. /\ changes' = changes + 1 /\ changes \in Nat
      /\ dev' = [dev EXCEPT ![a] = v] /\ last' = [last EXCEPT ![a] = changes + 1]
      /\ queue' = Append(queue, [attr |-> a, val |-> v, at |-> changes + 1])
      /\ UNCHANGED <<db, pc, want, age, seen, raced>>
  BY BoundAssumption
  DEF SetAttribute, ChangeDevice, locals, history, TypeOK, Change
<1>2. /\ queue \in Seq(Notification) /\ Len(queue') = Len(queue) + 1
      /\ \A i \in 1..Len(queue) : queue'[i] = queue[i] /\ queue[i] \in Notification
      /\ queue'[Len(queue) + 1] = [attr |-> a, val |-> v, at |-> changes + 1]
      /\ Len(queue) \in Nat
  BY <1>1 DEF TypeOK
<1>3. /\ dev'[a] = v /\ last'[a] = changes + 1
      /\ \A b \in Attrs \ {a} : dev'[b] = dev[b] /\ last'[b] = last[b]
      /\ \A b \in Attrs : last[b] \in Nat /\ seen[b] \in Nat /\ last'[b] \in Nat
  BY <1>1, BoundAssumption DEF TypeOK, Config, Change
<1>4. /\ \A i \in 1..Len(queue) : queue[i].at \in Nat /\ queue[i].attr \in Attrs
      /\ \A w \in Writers : age[w] \in Nat
  BY Numbers
<1>5. Truthful'
  <2>1. ASSUME NEW i \in 1..Len(queue')
        PROVE  /\ queue'[i].at <= changes'
               /\ queue'[i].at >= last'[queue'[i].attr]
                      => queue'[i].val = dev'[queue'[i].attr]
    <3>1. CASE i = Len(queue) + 1
      BY <1>1, <1>2, <1>3, <3>1
    <3>2. CASE i # Len(queue) + 1
      <4>1. /\ i \in 1..Len(queue) /\ queue'[i] = queue[i]
            /\ queue[i].at \in Nat /\ queue[i].attr \in Attrs
        BY <1>2, <1>4, <3>2
      <4>2. /\ queue[i].at <= changes
            /\ queue[i].at >= last[queue[i].attr] => queue[i].val = dev[queue[i].attr]
        BY <4>1 DEF RaceInv, Truthful
      <4>3. QED
        BY <1>1, <1>3, <4>1, <4>2
    <3>3. QED
      BY <3>1, <3>2
  <2>2. ASSUME NEW w \in Writers
        PROVE  /\ age'[w] <= changes'
               /\ \A b \in DOMAIN want'[w] :
                      /\ b \in Attrs
                      /\ AtWork(w)' /\ age'[w] >= last'[b] => want'[w][b] = dev'[b]
    <3>1. age[w] \in Nat /\ age[w] <= changes
      BY <1>4 DEF RaceInv, Truthful
    <3>2. ASSUME NEW b \in DOMAIN want[w]
          PROVE  /\ b \in Attrs
                 /\ AtWork(w)' /\ age[w] >= last'[b] => want[w][b] = dev'[b]
      <4>1. /\ b \in Attrs
            /\ AtWork(w) /\ age[w] >= last[b] => want[w][b] = dev[b]
        BY <3>2 DEF RaceInv, Truthful
      <4>2. AtWork(w)' <=> AtWork(w)
        BY <1>1 DEF AtWork
      <4>3. CASE b = a
        BY <1>1, <1>3, <3>1, <4>1, <4>3
      <4>4. CASE b # a
        BY <1>3, <4>1, <4>2, <4>4
      <4>5. QED
        BY <4>3, <4>4
    <3>3. QED
      BY <1>1, <3>1, <3>2
  <2>3. \A b \in Attrs : last'[b] <= changes' /\ seen'[b] <= changes'
    BY <1>1, <1>3 DEF RaceInv, Truthful
  <2>4. QED
    BY <2>1, <2>2, <2>3 DEF Truthful
<1>6. ASSUME ~raced' PROVE Unraced'
  <2>1. Unraced
    BY <1>1, <1>6 DEF RaceInv
  <2>2. seen'[a] < last'[a] /\ OnItsWay(a)'
    <3>1. seen[a] <= changes
      BY DEF RaceInv, Truthful
    <3>2. Len(queue) + 1 \in 1..Len(queue')
      BY <1>2
    <3>3. OnItsWay(a)'
      BY <1>1, <1>2, <1>3, <3>2 DEF OnItsWay
    <3>4. QED
      BY <1>1, <1>3, <3>1, <3>3
  <2>3. ASSUME NEW b \in Attrs \ {a}
        PROVE  IF seen'[b] < last'[b] THEN OnItsWay(b)' ELSE RightIn(b)'
    <3>1. OnItsWay(b) => OnItsWay(b)'
      BY <1>1, <1>2, <1>3 DEF OnItsWay, Carries, AtWork
    <3>2. RightIn(b) => RightIn(b)'
      BY <1>1, <1>3 DEF RightIn
    <3>3. QED
      BY <1>1, <1>3, <2>1, <3>1, <3>2 DEF Unraced
  <2>4. OneNode' /\ \A w \in Writers : pc'[w] = "insert" => DOMAIN want'[w] = Attrs
    BY <1>1, <2>1 DEF Unraced, OneNode
  <2>5. QED
    BY <2>2, <2>3, <2>4 DEF Unraced
<1>7. QED
  BY <1>5, <1>6 DEF RaceInv

(* The number of changes grows: nothing else is said of it.                *)
LEMMA RaceToggle ==
    ASSUME TypeOK, RaceInv, ToggleInterface PROVE RaceInv'
<1>1. /\ changes' = changes + 1 /\ changes \in Nat
      /\ UNCHANGED <<dev, last, queue, db, pc, want, age, seen, raced>>
  BY BoundAssumption
  DEF ToggleInterface, ChangeDevice, locals, history, TypeOK, Change
<1>2. /\ \A i \in 1..Len(queue) : queue[i].at \in Nat
      /\ \A w \in Writers : age[w] \in Nat
      /\ \A b \in Attrs : last[b] \in Nat /\ seen[b] \in Nat
  BY Numbers
<1>3. Truthful'
  BY <1>1, <1>2 DEF RaceInv, Truthful, AtWork
<1>4. Unraced => Unraced'
  BY <1>1 DEF Unraced, OneNode, OnItsWay, Carries, AtWork, RightIn
<1>5. QED
  BY <1>1, <1>3, <1>4 DEF RaceInv

(* A thread takes over what was on its way in the queue.                   *)
LEMMA RaceDispatch ==
    ASSUME TypeOK, RaceInv, NEW w \in Writers, Dispatch(w) PROVE RaceInv'
<1> DEFINE n == Head(queue)
<1>1. /\ queue # <<>> /\ pc[w] = "idle" /\ pc' = [pc EXCEPT ![w] = "read"]
      /\ want' = [want EXCEPT ![w] = [a \in {n.attr} |-> n.val]]
      /\ age' = [age EXCEPT ![w] = n.at]
      /\ queue' = Tail(queue)
      /\ UNCHANGED <<dev, changes, last, db, seen, raced>>
  BY DEF Dispatch, Goto, device, history
<1>2. /\ Len(queue) \in Nat /\ Len(queue) >= 1 /\ n = queue[1]
      /\ Len(queue') = Len(queue) - 1
      /\ \A i \in 1..Len(queue') : queue'[i] = queue[i + 1]
  BY <1>1 DEF TypeOK
<1>3. /\ n.at <= changes /\ n.attr \in Attrs
      /\ n.at >= last[n.attr] => n.val = dev[n.attr]
  BY <1>2, Numbers DEF RaceInv, Truthful
<1>4. /\ want'[w] = [a \in {n.attr} |-> n.val] /\ age'[w] = n.at
      /\ pc'[w] = "read"
      /\ \A x \in Writers \ {w} :
             want'[x] = want[x] /\ age'[x] = age[x] /\ pc'[x] = pc[x]
  BY <1>1 DEF TypeOK
<1> HIDE DEF n
<1>5. Truthful'
  <2>1. ASSUME NEW i \in 1..Len(queue')
        PROVE  /\ queue'[i].at <= changes'
               /\ queue'[i].at >= last'[queue'[i].attr]
                      => queue'[i].val = dev'[queue'[i].attr]
    <3>1. i + 1 \in 1..Len(queue) /\ queue'[i] = queue[i + 1]
      BY <1>2
    <3>2. QED
      BY <1>1, <3>1 DEF RaceInv, Truthful
  <2>2. ASSUME NEW x \in Writers
        PROVE  /\ age'[x] <= changes'
               /\ \A b \in DOMAIN want'[x] :
                      /\ b \in Attrs
                      /\ AtWork(x)' /\ age'[x] >= last'[b] => want'[x][b] = dev'[b]
    <3>1. CASE x = w
      BY <1>1, <1>3, <1>4, <3>1
    <3>2. CASE x # w
      BY <1>1, <1>4, <3>2 DEF RaceInv, Truthful, AtWork
    <3>3. QED
      BY <3>1, <3>2
  <2>3. QED
    BY <1>1, <2>1, <2>2 DEF RaceInv, Truthful
<1>6. ASSUME Unraced PROVE Unraced'
  <2>1. ASSUME NEW a \in Attrs, OnItsWay(a) PROVE OnItsWay(a)'
    <3>1. CASE \E x \in Writers : Carries(x, a)
      <4>1. PICK x \in Writers : Carries(x, a)
        BY <3>1
      <4>2. x # w
        BY <1>1, <4>1 DEF Carries, AtWork
      <4>3. Carries(x, a)'
        BY <1>1, <1>4, <4>1, <4>2 DEF Carries, AtWork
      <4>4. QED
        BY <4>3 DEF OnItsWay
    <3>2. CASE \E i \in 1..Len(queue) : queue[i].attr = a /\ queue[i].at >= last[a]
      <4>1. PICK i \in 1..Len(queue) : queue[i].attr = a /\ queue[i].at >= last[a]
        BY <3>2
      <4>2. CASE i = 1
        <5>1. n.attr = a /\ n.at >= last[a]
          BY <1>2, <4>1, <4>2
        <5>2. Carries(w, a)'
          BY <1>1, <1>4, <5>1 DEF Carries, AtWork
        <5>3. QED
          BY <5>2 DEF OnItsWay
      <4>3. CASE i # 1
        <5>1. i - 1 \in 1..Len(queue') /\ queue'[i - 1] = queue[i]
          BY <1>2, <4>3
        <5>2. QED
          BY <1>1, <4>1, <5>1 DEF OnItsWay
      <4>4. QED
        BY <4>2, <4>3
    <3>3. QED
      BY <2>1, <3>1, <3>2 DEF OnItsWay
  <2>2. \A a \in Attrs : RightIn(a) => RightIn(a)'
    BY <1>1 DEF RightIn
  <2>3. OneNode' /\ \A x \in Writers : pc'[x] = "insert" => DOMAIN want'[x] = Attrs
    BY <1>1, <1>4, <1>6 DEF Unraced, OneNode
  <2>4. QED
    BY <1>1, <1>6, <2>1, <2>2, <2>3 DEF Unraced
<1>7. QED
  BY <1>1, <1>5, <1>6 DEF RaceInv

(* A discovery knows of all changes there have been.                       *)
LEMMA RaceDiscover ==
    ASSUME TypeOK, RaceInv, NEW w \in Writers, Discover(w) PROVE RaceInv'
<1>1. /\ pc[w] = "idle" /\ pc' = [pc EXCEPT ![w] = pc'[w]]
      /\ pc'[w] \in {"read", "prune"}
      /\ want' = [want EXCEPT ![w] = dev] /\ age' = [age EXCEPT ![w] = changes]
      /\ UNCHANGED <<dev, changes, last, queue, db, seen, raced>>
  BY DEF Discover, Reply, Goto, device, history, TypeOK
<1>2. /\ want'[w] = dev /\ DOMAIN dev = Attrs /\ age'[w] = changes
      /\ \A x \in Writers \ {w} :
             want'[x] = want[x] /\ age'[x] = age[x] /\ pc'[x] = pc[x]
  BY <1>1 DEF TypeOK, Config
<1>3. Truthful'
  <2>1. ASSUME NEW x \in Writers
        PROVE  /\ age'[x] <= changes'
               /\ \A b \in DOMAIN want'[x] :
                      /\ b \in Attrs
                      /\ AtWork(x)' /\ age'[x] >= last'[b] => want'[x][b] = dev'[b]
    <3>1. CASE x = w
      BY <1>1, <1>2, <3>1, Numbers
    <3>2. CASE x # w
      BY <1>1, <1>2, <3>2 DEF RaceInv, Truthful, AtWork
    <3>3. QED
      BY <3>1, <3>2
  <2>2. QED
    BY <1>1, <2>1 DEF RaceInv, Truthful
<1>4. ASSUME Unraced PROVE Unraced'
  <2>1. ASSUME NEW a \in Attrs, OnItsWay(a) PROVE OnItsWay(a)'
    <3>1. ASSUME NEW x \in Writers, Carries(x, a) PROVE Carries(x, a)'
      BY <1>1, <1>2, <3>1 DEF Carries, AtWork
    <3>2. QED
      BY <1>1, <2>1, <3>1 DEF OnItsWay
  <2>2. \A a \in Attrs : RightIn(a) => RightIn(a)'
    BY <1>1 DEF RightIn
  <2>3. OneNode' /\ \A x \in Writers : pc'[x] = "insert" => DOMAIN want'[x] = Attrs
    BY <1>1, <1>2, <1>4 DEF Unraced, OneNode
  <2>4. QED
    BY <1>1, <1>4, <2>1, <2>2, <2>3 DEF Unraced
<1>5. QED
  BY <1>1, <1>3, <1>4 DEF RaceInv

(* A writer goes on from one step of its work to the next, or had nothing  *)
(* to write.                                                               *)
LEMMA RaceMoves ==
    ASSUME TypeOK, RaceInv, NEW w \in Writers, NEW to,
           Goto(w, pc[w], to),
           AtWork(w) => to \in {"save", "insert"},
           ~AtWork(w) => to = "idle",
           to = "insert" => DOMAIN want[w] = Attrs,
           UNCHANGED <<device, queue, want, age, history>>,
           db' = db \/ DOMAIN db' = {}
    PROVE  RaceInv'
<1>1. /\ pc' = [pc EXCEPT ![w] = to]
      /\ UNCHANGED <<dev, changes, last, queue, want, age, seen, raced>>
  BY DEF Goto, device, history
<1>2. \A x \in Writers : AtWork(x)' <=> AtWork(x)
  BY <1>1 DEF AtWork, TypeOK
<1>3. Truthful'
  BY <1>1, <1>2 DEF RaceInv, Truthful
<1>4. ASSUME Unraced PROVE Unraced'
  <2>1. \A a \in Attrs : OnItsWay(a) <=> OnItsWay(a)'
    BY <1>1, <1>2 DEF OnItsWay, Carries
  <2>2. \A a \in Attrs : RightIn(a) => RightIn(a)'
    BY <1>1 DEF RightIn
  <2>3. OneNode'
    BY <1>4 DEF Unraced, OneNode
  <2>4. \A x \in Writers : pc'[x] = "insert" => DOMAIN want'[x] = Attrs
    BY <1>1, <1>4 DEF Unraced, TypeOK
  <2>5. QED
    BY <1>1, <1>4, <2>1, <2>2, <2>3, <2>4 DEF Unraced
<1>5. QED
  BY <1>1, <1>3, <1>4 DEF RaceInv

(* Of a set without two elements, Cardinality says no more than one.       *)
LEMMA OneElement ==
    ASSUME NEW S, \A m, n \in S : m = n PROVE ~(Cardinality(S) > 1)
<1>1. CASE S = {}
  BY <1>1, FS_EmptySet
<1>2. CASE S # {}
  <2>1. PICK n \in S : S = {n}
    BY <1>2
  <2>2. Cardinality({n}) = 1
    BY FS_Singleton
  <2>3. QED
    BY <2>1, <2>2
<1>3. QED
  BY <1>1, <1>2

(* A writer that is idle again leaves Truthful alone.                      *)
LEMMA TruthfulRests ==
    ASSUME TypeOK, Truthful, NEW w \in Writers,
           pc' = [pc EXCEPT ![w] = "idle"],
           UNCHANGED <<dev, changes, last, queue, want, age>>,
           \A a \in Attrs : seen'[a] <= changes
    PROVE  Truthful'
<1>1. \A x \in Writers : AtWork(x)' => AtWork(x)
  BY DEF AtWork, TypeOK
<1>2. QED
  BY <1>1 DEF Truthful

(* A writer that is done, and has not raced, leaves the attributes right   *)
(* that it knew of, and the others as they were.                           *)
LEMMA RaceDone ==
    ASSUME TypeOK, RaceInv, NEW w \in Writers, NEW wrong \in BOOLEAN,
           Done(w, wrong), AtWork(w), pc' = [pc EXCEPT ![w] = "idle"],
           ~raced' => OneNode',
           ~raced' => \A a \in DOMAIN want[w] : age[w] >= last[a] => RightIn(a)',
           ~raced' => \A a \in Attrs \ DOMAIN want[w] : RightIn(a) => RightIn(a)'
    PROVE  RaceInv'
<1>1. /\ seen' = [a \in Attrs |-> IF a \in DOMAIN want[w] THEN age[w] ELSE seen[a]]
      /\ UNCHANGED <<dev, changes, last, queue, want, age>>
  BY DEF Done, device
<1>2. Truthful'
  <2>1. \A a \in Attrs : seen'[a] <= changes
    BY <1>1 DEF RaceInv, Truthful
  <2>2. QED
    BY <1>1, <2>1, TruthfulRests DEF RaceInv
<1>3. ASSUME ~raced' PROVE Unraced'
  <2>1. ~raced /\ ~(\E a \in DOMAIN want[w] : age[w] < seen[a])
    BY <1>3, Zenon DEF Done
  <2>2. Unraced
    BY <2>1 DEF RaceInv
  <2>3. \A a \in DOMAIN want[w] : a \in Attrs
    BY DEF RaceInv, Truthful
  <2>4. /\ age[w] \in Nat
        /\ \A a \in Attrs : last[a] \in Nat /\ seen[a] \in Nat
    BY Numbers
  <2>5. ASSUME NEW a \in Attrs, OnItsWay(a), ~Carries(w, a) PROVE OnItsWay(a)'
    <3>1. CASE \E x \in Writers : Carries(x, a)
      <4>1. PICK x \in Writers : Carries(x, a)
        BY <3>1
      <4>2. x # w
        BY <2>5, <4>1
      <4>3. Carries(x, a)'
        BY <1>1, <4>1, <4>2 DEF Carries, AtWork, TypeOK
      <4>4. QED
        BY <4>3 DEF OnItsWay
    <3>2. CASE \E i \in 1..Len(queue) : queue[i].attr = a /\ queue[i].at >= last[a]
      BY <1>1, <3>2 DEF OnItsWay
    <3>3. QED
      BY <2>5, <3>1, <3>2 DEF OnItsWay
  <2>6. ASSUME NEW a \in Attrs
        PROVE  IF seen'[a] < last'[a] THEN OnItsWay(a)' ELSE RightIn(a)'
    <3>1. CASE a \in DOMAIN want[w]
      <4>1. seen'[a] = age[w] /\ last'[a] = last[a] /\ age[w] >= seen[a]
        BY <1>1, <2>1, <2>4, <3>1
      <4>2. CASE age[w] >= last[a]
        BY <1>3, <2>4, <3>1, <4>1, <4>2
      <4>3. CASE age[w] < last[a]
        <5>1. seen[a] < last[a] /\ ~Carries(w, a)
          BY <2>4, <4>1, <4>3 DEF Carries
        <5>2. OnItsWay(a)
          BY <2>2, <5>1 DEF Unraced
        <5>3. QED
          BY <2>5, <4>1, <4>3, <5>1, <5>2
      <4>4. QED
        BY <2>4, <4>2, <4>3
    <3>2. CASE a \notin DOMAIN want[w]
      <4>1. seen'[a] = seen[a] /\ last'[a] = last[a] /\ ~Carries(w, a)
        BY <1>1, <3>2 DEF Carries
      <4>2. IF seen[a] < last[a] THEN OnItsWay(a) ELSE RightIn(a)
        BY <2>2 DEF Unraced
      <4>3. QED
        BY <1>3, <2>5, <3>2, <4>1, <4>2
    <3>3. QED
      BY <3>1, <3>2
  <2>7. \A x \in Writers : pc'[x] = "insert" => DOMAIN want'[x] = Attrs
    BY <1>1, <2>2 DEF Unraced, TypeOK
  <2>8. QED
    BY <1>3, <2>6, <2>7 DEF Unraced
<1>4. QED
  BY <1>2, <1>3 DEF RaceInv

(* The node written is the only one, and its other attributes are as read. *)
LEMMA RaceSave ==
    ASSUME TypeOK, RaceInv, NEW w \in Writers, SaveNode(w) PROVE RaceInv'
<1> DEFINE values == [a \in Attrs |-> IF a \in DOMAIN want[w]
                                      THEN want[w][a] ELSE copy[w][a]]
<1>1. /\ pc[w] = "save" /\ pc' = [pc EXCEPT ![w] = "idle"]
      /\ db' = [n \in DOMAIN db |-> IF n = node[w] THEN values ELSE db[n]]
      /\ Done(w, Stale(w)) /\ UNCHANGED <<dev, last>>
  BY DEF SaveNode, Save, Goto, Done, device
<1>2. AtWork(w) /\ Stale(w) \in BOOLEAN
  BY <1>1 DEF AtWork, Stale
<1>3. ASSUME ~raced'
      PROVE  /\ OneNode'
             /\ \A a \in DOMAIN want[w] : age[w] >= last[a] => RightIn(a)'
             /\ \A a \in Attrs \ DOMAIN want[w] : RightIn(a) => RightIn(a)'
  <2>1. ~raced /\ ~Stale(w)
    BY <1>1, <1>3, Zenon DEF Done
  <2>2. node[w] \in DOMAIN db /\ OneNode
    BY <2>1 DEF RaceInv, Unraced, Stale
  <2>3. DOMAIN db' = {node[w]} /\ db'[node[w]] = values
    BY <1>1, <2>2 DEF OneNode
  <2>4. ASSUME NEW a \in DOMAIN want[w], age[w] >= last[a] PROVE RightIn(a)'
    <3>1. a \in Attrs /\ want[w][a] = dev[a]
      BY <1>2, <2>4 DEF RaceInv, Truthful
    <3>2. values[a] = dev[a]
      BY <3>1
    <3>3. QED
      BY <1>1, <2>3, <3>2 DEF RightIn
  <2>5. ASSUME NEW a \in Attrs \ DOMAIN want[w], RightIn(a) PROVE RightIn(a)'
    <3>1. values[a] = copy[w][a] /\ db[node[w]][a] = copy[w][a]
      BY <2>1, <2>5 DEF Stale
    <3>2. values[a] = dev[a]
      BY <2>2, <2>5, <3>1 DEF RightIn
    <3>3. QED
      BY <1>1, <2>3, <3>2 DEF RightIn
  <2>6. QED
    BY <2>3, <2>4, <2>5 DEF OneNode
<1>4. QED
  BY <1>1, <1>2, <1>3, RaceDone

LEMMA RaceInsert ==
    ASSUME TypeOK, RaceInv, NEW w \in Writers, InsertNode(w) PROVE RaceInv'
<1>1. PICK n \in Nodes \ DOMAIN db :
          db' = [m \in DOMAIN db \cup {n} |-> IF m = n THEN want[w] ELSE db[m]]
  BY DEF InsertNode
<1>2. /\ pc[w] = "insert" /\ pc' = [pc EXCEPT ![w] = "idle"] /\ AtWork(w)
      /\ Done(w, DOMAIN db # {}) /\ UNCHANGED <<dev, last>>
  BY DEF InsertNode, Goto, Done, device, AtWork
<1>3. ASSUME ~raced'
      PROVE  /\ OneNode'
             /\ \A a \in DOMAIN want[w] : age[w] >= last[a] => RightIn(a)'
             /\ \A a \in Attrs \ DOMAIN want[w] : RightIn(a) => RightIn(a)'
  <2>1. ~raced /\ DOMAIN db = {}
    BY <1>2, <1>3, Zenon DEF Done
  <2>2. DOMAIN want[w] = Attrs
    BY <1>2, <2>1 DEF RaceInv, Unraced
  <2>3. DOMAIN db' = {n} /\ db'[n] = want[w]
    BY <1>1, <2>1
  <2>4. \A a \in DOMAIN want[w] : age[w] >= last[a] => want[w][a] = dev[a]
    BY <1>2 DEF RaceInv, Truthful
  <2>5. QED
    BY <1>2, <2>2, <2>3, <2>4 DEF OneNode, RightIn
<1>4. (DOMAIN db # {}) \in BOOLEAN
  OBVIOUS
<1>5. QED
  BY <1>2, <1>3, <1>4, RaceDone

LEMMA RaceStep ==
    ASSUME TypeOK, DiscoveriesComplete, RaceInv, [Next]_vars PROVE RaceInv'
<1>1. ASSUME NEW w \in Writers, WriterStep(w) PROVE RaceInv'
  <2>1. CASE ReadNode(w)
    BY <2>1, RaceMoves DEF ReadNode, Goto, AtWork
  <2>2. CASE LookOn(w)
    <3>1. DOMAIN want[w] = Attrs
      BY <2>2 DEF LookOn, DiscoveriesComplete, Config
    <3>2. QED
      BY <2>2, <3>1, RaceMoves DEF LookOn, Goto, AtWork
  <2>3. CASE DropUpdate(w)
    <3>1. /\ AtWork(w) /\ Done(w, FALSE) /\ pc' = [pc EXCEPT ![w] = "idle"]
          /\ DOMAIN db' = {}
      BY <2>3 DEF DropUpdate, Goto, AtWork
    <3>2. OneNode' /\ \A a : RightIn(a)'
      BY <3>1 DEF OneNode, RightIn
    <3>3. QED
      BY <3>1, <3>2, RaceDone
  <2>4. CASE ReadAmbiguous(w)
    <3>1. /\ Cardinality(DOMAIN db) > 1 /\ pc' = [pc EXCEPT ![w] = "idle"]
          /\ UNCHANGED <<dev, changes, last, queue, db, want, age, seen, raced>>
      BY <2>4 DEF ReadAmbiguous, Goto, device, history
    <3>2. raced \/ ~OneNode
      BY <3>1, OneElement DEF OneNode
    <3>3. raced
      BY <3>2, Zenon DEF RaceInv, Unraced
    <3>4. Truthful'
      BY <3>1, TruthfulRests DEF RaceInv, Truthful
    <3>5. QED
      BY <3>1, <3>3, <3>4, Zenon DEF RaceInv
  <2>5. CASE PruneNode(w)
    <3>1. db' = <<>> /\ Goto(w, pc[w], "idle") /\ ~AtWork(w)
      BY <2>5 DEF PruneNode, Goto, AtWork
    <3>2. UNCHANGED <<device, queue, want, age, history>>
      BY <2>5 DEF PruneNode
    <3>3. DOMAIN db' = {}
      BY <3>1
    <3>4. QED
      BY <3>1, <3>2, <3>3, RaceMoves
  <2>6. QED
    BY <1>1, <2>1, <2>2, <2>3, <2>4, <2>5, RaceSave, RaceInsert DEF WriterStep
<1>2. CASE UNCHANGED vars
  BY <1>2
  DEF vars, RaceInv, Truthful, Unraced, OneNode, OnItsWay, RightIn, Carries,
      AtWork
<1>3. QED
  BY <1>1, <1>2, RaceChange, RaceToggle, RaceDispatch, RaceDiscover DEF Next

(* Whatever changes, notifications, discoveries and breakouts overlap, the *)
(* DB is right once all is over, unless a thread was overtaken, wrote back *)
(* a stale copy or doubled the node: until then the last change of each    *)
(* attribute is stored or still on its way to the DB.                      *)
THEOREM RightUnlessRaced == Spec => []InSync
<1>1. TypeOK /\ DiscoveriesComplete /\ RaceInv /\ [Next]_vars => RaceInv'
  BY RaceStep
<1>2. TypeOK /\ RaceInv => InSync
  <2>1. SUFFICES ASSUME TypeOK, RaceInv, Settled, ~raced PROVE UpToDate
    BY DEF InSync
  <2>2. \A a \in Attrs : ~OnItsWay(a)
    BY <2>1 DEF OnItsWay, Carries, AtWork, Settled
  <2>3. \A a \in Attrs : RightIn(a)
    BY <2>1, <2>2 DEF RaceInv, Unraced
  <2>4. QED
    BY <2>1, <2>3 DEF RightIn, UpToDate, TypeOK, Config
<1>3. QED
  BY <1>1, <1>2, InitRaceInv, TypeInvariance, PTL DEF Spec
=============================================================================
