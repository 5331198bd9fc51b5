---------------------------- MODULE KernelProofs ----------------------------
(***************************************************************************)
(* Theorems about the parts of the kernel modules that stand on their own, *)
(* for tables of every size: the tracking table, the model table, the      *)
(* context table and the power policy.                                     *)
(***************************************************************************)
EXTENDS TaskTrack, ModelTable, ContextTable, PowerPolicy, WellFoundedInduction,
        FiniteSetTheorems, TLAPS

-----------------------------------------------------------------------------
(* Operations on the task tracking table, for every table size *)

\* A nonempty set of naturals has a least element: the fact behind every loop
\* that stops at the first slot or entry of some kind.
LEMMA LeastExists ==
  ASSUME NEW S \in SUBSET Nat, S # {}
  PROVE  \E m \in S : \A k \in S : m <= k
<1> DEFINE R == OpToRel(<, Nat)
<1>1. IsWellFoundedOn(R, Nat)
  BY NatLessThanWellFounded
<1>2. \E m \in S : \A k \in S : ~ (<<k, m>> \in R)
  <2> HIDE DEF R
  <2> QED  BY <1>1, WFMin
<1>3. \A k, m \in Nat : k < m => <<k, m>> \in R
  BY DEF OpToRel
<1>4. PICK m \in S : \A k \in S : ~ (<<k, m>> \in R)
  BY <1>2
<1>5. ASSUME NEW k \in S PROVE m <= k
  <2>1. k \in Nat /\ m \in Nat
    OBVIOUS
  <2>2. ~(k < m)
    BY <1>4, <1>3, <2>1
  <2> QED  BY <2>1, <2>2
<1> QED
  BY <1>5

\* The loops of task_track_add and task_track_query stop at a slot of the
\* set they search, if there is one.
LEMMA FirstSlotIn ==
  ASSUME NEW S \in SUBSET Slot, S # {}
  PROVE  FirstSlot(S) \in S
<1>1. S \in SUBSET Nat
  BY TrackSizeAssumption DEF Slot
<1> QED
  BY <1>1, LeastExists DEF FirstSlot

\* task_track_add yields a table again; the index wraps around.
LEMMA TrackAddType ==
  ASSUME NEW T \in TrackTable, NEW id \in Nat, NEW st \in Status
  PROVE  TrackAdd(T, id, st) \in TrackTable
<1> DEFINE entry == [id |-> id, status |-> st]
           mine  == Holding(T, id)
           free  == {i \in Slot : ~InUse(T, i)}
           at    == IF mine # {} THEN FirstSlot(mine)
                    ELSE IF free # {} THEN FirstSlot(free)
                    ELSE T.evict
           next  == IF mine = {} /\ free = {} THEN (T.evict + 1) % TrackSize ELSE T.evict
<1>1. mine \in SUBSET Slot /\ free \in SUBSET Slot
  BY DEF Holding
<1>2. at \in Slot
  <2>1. CASE mine # {}
    BY <2>1, <1>1, FirstSlotIn
  <2>2. CASE mine = {} /\ free # {}
    BY <2>2, <1>1, FirstSlotIn
  <2>3. CASE mine = {} /\ free = {}
    BY <2>3 DEF TrackTable
  <2> QED  BY <2>1, <2>2, <2>3
<1>3. next \in Slot
  BY TrackSizeAssumption DEF TrackTable, Slot
<1>4. entry \in SlotRecord
  BY DEF SlotRecord
<1>5. [T.slot EXCEPT ![at] = entry] \in [Slot -> SlotRecord]
  BY <1>2, <1>4 DEF TrackTable
<1>6. TrackAdd(T, id, st) = [slot |-> [T.slot EXCEPT ![at] = entry], evict |-> next]
  BY DEF TrackAdd
<1> HIDE DEF at, next, entry
<1> QED
  BY <1>3, <1>5, <1>6 DEF TrackTable

\* task_track_query frees the slot it found.
LEMMA TrackTakeType ==
  ASSUME NEW T \in TrackTable, NEW id \in Nat, Holding(T, id) # {}
  PROVE  TrackTake(T, id) \in TrackTable
<1>1. FirstSlot(Holding(T, id)) \in Slot
  BY FirstSlotIn DEF Holding
<1>2. FreeSlot \in SlotRecord
  BY DEF FreeSlot, SlotRecord, Status
<1> QED
  BY <1>1, <1>2 DEF TrackTake, TrackTable

\* What task_track_add does to every slot: exactly one slot changes, it now
\* holds the id and the status, and it is one that held the id already if
\* there was one, else a free one if there was one.
LEMMA TrackAddSlots ==
  ASSUME NEW T \in TrackTable, NEW id \in Nat, NEW st \in Status
  PROVE  \E a \in Slot :
           /\ TrackAdd(T, id, st).slot[a].id = id
           /\ \A i \in Slot \ {a} : TrackAdd(T, id, st).slot[i] = T.slot[i]
           /\ Holding(T, id) # {} => a \in Holding(T, id)
           /\ TrackAdd(T, id, st).slot[a].status = st
           /\ Holding(T, id) = {} => ~InUse(T, a) \/ \A i \in Slot : InUse(T, i)
<1> DEFINE entry == [id |-> id, status |-> st]
           mine  == Holding(T, id)
           free  == {i \in Slot : ~InUse(T, i)}
           at    == IF mine # {} THEN FirstSlot(mine)
                    ELSE IF free # {} THEN FirstSlot(free)
                    ELSE T.evict
<1>1. mine \in SUBSET Slot /\ free \in SUBSET Slot
  BY DEF Holding
<1>2. /\ at \in Slot
      /\ mine # {} => at \in mine
      /\ mine = {} => ~InUse(T, at) \/ \A i \in Slot : InUse(T, i)
  <2>1. CASE mine # {}
    BY <2>1, <1>1, FirstSlotIn
  <2>2. CASE mine = {} /\ free # {}
    BY <2>2, <1>1, FirstSlotIn
  <2>3. CASE mine = {} /\ free = {}
    BY <2>3 DEF TrackTable
  <2> QED  BY <2>1, <2>2, <2>3
<1>3. TrackAdd(T, id, st).slot = [T.slot EXCEPT ![at] = entry]
  BY DEF TrackAdd
<1>4. T.slot \in [Slot -> SlotRecord]
  BY DEF TrackTable
<1> HIDE DEF at, mine
<1>5. TrackAdd(T, id, st).slot[at].id = id /\ TrackAdd(T, id, st).slot[at].status = st
  BY <1>2, <1>3, <1>4
<1>6. \A i \in Slot \ {at} : TrackAdd(T, id, st).slot[i] = T.slot[i]
  BY <1>2, <1>3, <1>4
<1> QED
  BY <1>2, <1>5, <1>6 DEF mine

-----------------------------------------------------------------------------
(***************************************************************************)
(* The table keeps its type: in particular track_evict_idx stays an index  *)
(* of the array (its reduction modulo the size).                           *)
(***************************************************************************)
THEOREM TrackTyped == Spec => []TrackTypeOK
<1>1. Init => TrackTypeOK
  BY TrackSizeAssumption
     DEF Init, TrackTypeOK, EmptyTrack, TrackTable, FreeSlot, SlotRecord, Status, Slot
<1>2. TrackTypeOK /\ [Next]_vars => TrackTypeOK'
  <2> SUFFICES ASSUME TrackTypeOK, [Next]_vars PROVE TrackTypeOK'
    OBVIOUS
  <2>1. ASSUME NEW id \in Ids, TakeResult(id) PROVE TrackTypeOK'
    BY <2>1, TrackTakeType DEF TakeResult, TrackFound, TrackTypeOK, Ids
  <2>2. ASSUME NEW id \in Ids, NEW st \in Final, Record(id, st) PROVE TrackTypeOK'
    BY <2>2, TrackAddType DEF Record, TrackTypeOK, Ids, Final, Status
  <2>3. CASE UNCHANGED vars
    BY <2>3 DEF vars, TrackTypeOK
  <2> QED
    BY <2>1, <2>2, <2>3 DEF Next
<1> QED
  BY <1>1, <1>2, PTL DEF Spec

(***************************************************************************)
(* No task id ever occupies two slots of the tracking table, whatever      *)
(* order workers, watchdog and queries come in.                            *)
(***************************************************************************)
THEOREM TrackUnique == Spec => []OneRecordPerTask
<1>1. Init => OneRecordPerTask
  BY DEF Init, OneRecordPerTask, EmptyTrack, FreeSlot, InUse
<1>2. TrackTypeOK /\ OneRecordPerTask /\ [Next]_vars => OneRecordPerTask'
  <2> SUFFICES ASSUME TrackTypeOK, OneRecordPerTask, [Next]_vars PROVE OneRecordPerTask'
    OBVIOUS
  <2>1. ASSUME NEW id \in Ids, TakeResult(id) PROVE OneRecordPerTask'
    <3> DEFINE a == FirstSlot(Holding(table, id))
    <3>1. a \in Slot
      BY <2>1, FirstSlotIn DEF TakeResult, TrackFound, Holding
    <3>2. table' = TrackTake(table, id) /\ table.slot \in [Slot -> SlotRecord]
      BY <2>1 DEF TakeResult, TrackTypeOK, TrackTable
    <3>3. table'.slot = [table.slot EXCEPT ![a] = FreeSlot]
      BY <3>2 DEF TrackTake, TrackTypeOK, TrackTable
    <3> HIDE DEF a
    <3>4. \A i \in Slot : table'.slot[i].id # 0 => i # a /\ table'.slot[i] = table.slot[i]
      BY <3>1, <3>2, <3>3 DEF FreeSlot
    <3> QED
      BY <3>4 DEF OneRecordPerTask, InUse
  <2>2. ASSUME NEW id \in Ids, NEW st \in Final, Record(id, st) PROVE OneRecordPerTask'
    <3>1. PICK a \in Slot :
            /\ table'.slot[a].id = id
            /\ \A i \in Slot \ {a} : table'.slot[i] = table.slot[i]
            /\ Holding(table, id) # {} => a \in Holding(table, id)
      <4>1. id \in Nat /\ st \in Status /\ table \in TrackTable
        BY DEF Ids, Final, Status, TrackTypeOK
      <4> QED  BY <2>2, <4>1, TrackAddSlots DEF Record
    <3>2. \A i \in Slot \ {a} : table.slot[i].id # id
      <4> SUFFICES ASSUME NEW i \in Slot \ {a}, table.slot[i].id = id PROVE FALSE
        OBVIOUS
      <4>1. i \in Holding(table, id) /\ a \in Holding(table, id) /\ id # 0
        BY <3>1 DEF Holding, Ids
      <4> QED  BY <4>1 DEF Holding, OneRecordPerTask, InUse
    <3> QED
      BY <3>1, <3>2 DEF OneRecordPerTask, InUse
  <2>3. CASE UNCHANGED vars
    BY <2>3 DEF vars, OneRecordPerTask, InUse
  <2> QED
    BY <2>1, <2>2, <2>3 DEF Next
<1> QED
  BY <1>1, <1>2, TrackTyped, PTL DEF Spec

\* The two together: the array stays sound for every number of slots.
THEOREM TrackSafe == Spec => []TrackInv
<1>1. TrackTypeOK /\ OneRecordPerTask => TrackInv
  BY DEF TrackInv
<1> QED
  BY <1>1, TrackTyped, TrackUnique, PTL

\* The map the table stands for: a recorded id is one of a slot in use, and
\* its result is the status in that slot.
LEMMA ResultOfSlot ==
  ASSUME TrackInv
  PROVE  /\ \A i \in Slot : InUse(table, i) =>
              table.slot[i].id \in Held(table) /\ ResultOf(table.slot[i].id) = table.slot[i].status
         /\ \A id \in Held(table) : \E i \in Slot : InUse(table, i) /\ table.slot[i].id = id
  BY DEF TrackInv, OneRecordPerTask, InUse, Held, ResultOf

\* As many results are recorded as slots are in use.
LEMMA HeldCount ==
  ASSUME TrackInv
  PROVE  /\ (\A i \in Slot : InUse(table, i)) => Cardinality(Held(table)) = TrackSize
         /\ (\E i \in Slot : ~InUse(table, i)) => Cardinality(Held(table)) < TrackSize
<1> DEFINE U == {i \in Slot : InUse(table, i)}
           f == [i \in U |-> table.slot[i].id]
<1>1. IsFiniteSet(Slot) /\ Cardinality(Slot) = TrackSize
  BY TrackSizeAssumption, FS_Interval DEF Slot
<1>2. /\ IsFiniteSet(U) /\ Cardinality(U) <= TrackSize
      /\ Cardinality(U) = TrackSize => U = Slot
  <2>1. U \in SUBSET Slot
    OBVIOUS
  <2> HIDE DEF U
  <2> QED  BY <1>1, <2>1, FS_Subset
<1>3. Cardinality(U) \in Nat
  BY <1>2, FS_CardinalityType
<1>4. f \in Bijection(U, Held(table))
  <2>1. f \in [U -> Held(table)]
    BY ResultOfSlot
  <2>2. \A i, j \in U : f[i] = f[j] => i = j
    BY DEF TrackInv, OneRecordPerTask
  <2>3. \A id \in Held(table) : \E i \in U : f[i] = id
    BY ResultOfSlot
  <2> HIDE DEF f, U
  <2> QED  BY <2>1, <2>2, <2>3 DEF Bijection, Injection, Surjection, IsInjective
<1>5. ExistsBijection(U, Held(table))
  BY <1>4 DEF ExistsBijection
<1>6. Cardinality(Held(table)) = Cardinality(U)
  <2> HIDE DEF U
  <2> QED  BY <1>2, <1>5, FS_Bijection
<1>7. (\A i \in Slot : InUse(table, i)) => U = Slot
  OBVIOUS
<1>8. (\E i \in Slot : ~InUse(table, i)) => U # Slot
  OBVIOUS
<1> HIDE DEF U
<1> QED
  BY <1>1, <1>2, <1>3, <1>6, <1>7, <1>8, TrackSizeAssumption

\* A query takes the result out of the map and leaves the others.
LEMMA TakeRefines ==
  ASSUME TrackInv, TrackInv', NEW id \in Ids, TakeResult(id)
  PROVE  Abstract!Take(id)
<1> DEFINE a == FirstSlot(Holding(table, id))
<1>1. a \in Slot /\ table.slot[a].id = id /\ id # 0
  BY FirstSlotIn DEF TakeResult, TrackFound, Holding
<1>2. table.slot \in [Slot -> SlotRecord]
  BY DEF TrackInv, TrackTypeOK, TrackTable
<1>3. table'.slot = [table.slot EXCEPT ![a] = FreeSlot]
  BY <1>2 DEF TakeResult, TrackTake, TrackInv, TrackTypeOK, TrackTable
<1> HIDE DEF a
<1>4. table'.slot[a].id = 0 /\ \A i \in Slot \ {a} : table'.slot[i] = table.slot[i]
  BY <1>1, <1>2, <1>3 DEF FreeSlot
<1>5. \A i \in Slot \ {a} : table.slot[i].id # id
  BY <1>1 DEF TrackInv, OneRecordPerTask, InUse
<1>6. Held(table)' = Held(table) \ {id}
  BY <1>1, <1>4, <1>5 DEF Held
<1>7. \A x \in Held(table) \ {id} : ResultOf(x)' = ResultOf(x)
  <2> SUFFICES ASSUME NEW x \in Held(table) \ {id} PROVE ResultOf(x)' = ResultOf(x)
    OBVIOUS
  <2>1. PICK i \in Slot : InUse(table, i) /\ table.slot[i].id = x
    BY ResultOfSlot
  <2>2. i # a /\ table'.slot[i] = table.slot[i]
    BY <1>1, <1>4, <2>1
  <2>3. ResultOf(x) = table.slot[i].status
    BY <2>1, ResultOfSlot
  <2>4. \A j \in Slot : table'.slot[j].id = x => j = i
    BY <2>1, <2>2 DEF TrackInv, OneRecordPerTask, InUse
  <2>5. (CHOOSE j \in Slot : table'.slot[j].id = x) = i
    BY <2>1, <2>2, <2>4
  <2> QED  BY <2>2, <2>3, <2>5 DEF ResultOf
<1>8. id \in Held(table)
  BY <1>1 DEF Held
<1> QED
  BY <1>6, <1>7, <1>8 DEF Abstract!Take, Abstract!Recorded

\* Recording a result puts it into the map: in the place of the id's earlier
\* result, beside the others while a slot is free, else in the place of one.
LEMMA PutRefines ==
  ASSUME TrackInv, TrackInv', NEW id \in Ids, NEW st \in Final, Record(id, st)
  PROVE  Abstract!Put(id, st)
<1>1. id \in Nat /\ id # 0 /\ st \in Status /\ table \in TrackTable
  BY DEF Ids, Final, Status, TrackInv, TrackTypeOK
<1>2. PICK a \in Slot :
        /\ table'.slot[a].id = id /\ table'.slot[a].status = st
        /\ \A i \in Slot \ {a} : table'.slot[i] = table.slot[i]
        /\ Holding(table, id) # {} => a \in Holding(table, id)
        /\ Holding(table, id) = {} => ~InUse(table, a) \/ \A i \in Slot : InUse(table, i)
  BY <1>1, TrackAddSlots DEF Record
<1>3. ResultOf(id)' = st /\ id \in Held(table)'
  <2>1. (CHOOSE j \in Slot : table'.slot[j].id = id) = a
    <3>1. \A j \in Slot : table'.slot[j].id = id => j = a
      BY <1>1, <1>2 DEF TrackInv, OneRecordPerTask, InUse
    <3> QED  BY <1>2, <3>1
  <2> QED  BY <1>1, <1>2, <2>1 DEF ResultOf, Held
<1>4. ASSUME NEW x \in Held(table), x # id, x # table.slot[a].id
      PROVE  x \in Held(table)' /\ ResultOf(x)' = ResultOf(x)
  <2>1. PICK i \in Slot : InUse(table, i) /\ table.slot[i].id = x
    BY ResultOfSlot
  <2>2. i # a /\ table'.slot[i] = table.slot[i] /\ x # 0
    BY <1>2, <1>4, <2>1 DEF InUse
  <2>3. ResultOf(x) = table.slot[i].status
    BY <2>1, ResultOfSlot
  <2>4. \A j \in Slot : table'.slot[j].id = x => j = i
    BY <2>1, <2>2 DEF TrackInv, OneRecordPerTask, InUse
  <2>5. (CHOOSE j \in Slot : table'.slot[j].id = x) = i
    BY <2>1, <2>2, <2>4
  <2> QED  BY <2>1, <2>2, <2>3, <2>5 DEF ResultOf, Held
<1>5. ASSUME NEW x \in Held(table)', x # id
      PROVE  x \in Held(table) /\ x # table.slot[a].id
  <2>1. PICK i \in Slot : table'.slot[i].id = x /\ x # 0
    BY <1>5 DEF Held
  <2>2. i # a /\ table'.slot[i] = table.slot[i]
    BY <1>2, <1>5, <2>1
  <2> QED  BY <2>1, <2>2 DEF TrackInv, OneRecordPerTask, InUse, Held
<1>6. Abstract!Recorded = Held(table)
  BY DEF Abstract!Recorded
<1>7. Abstract!Cardinality(Held(table)) = Cardinality(Held(table))
  BY Zenon DEF Abstract!Cardinality, Cardinality, Abstract!IsFiniteSet, IsFiniteSet
<1>8. CASE Holding(table, id) # {}
  <2>1. table.slot[a].id = id /\ id \in Held(table)
    BY <1>1, <1>2, <1>8 DEF Holding, Held
  <2>2. Held(table)' = Held(table) \cup {id}
    BY <1>3, <1>4, <1>5, <2>1
  <2> QED
    BY <1>3, <1>4, <2>1, <2>2 DEF Abstract!Put, Abstract!Recorded, Abstract!Keep
<1>9. CASE Holding(table, id) = {} /\ ~InUse(table, a)
  <2>1. \A x \in Held(table) : x # id /\ x # table.slot[a].id
    BY <1>9 DEF Holding, Held, InUse
  <2>2. Held(table)' = Held(table) \cup {id}
    BY <1>3, <1>4, <1>5, <2>1
  <2>3. Cardinality(Held(table)) < TrackSize
    BY <1>9, HeldCount
  <2>4. [x \in Held(table) |-> ResultOf(x)]' = Abstract!Keep(id, st, Held(table))
    BY <1>3, <1>4, <2>1, <2>2 DEF Abstract!Keep
  <2> QED
    BY <1>6, <1>7, <2>3, <2>4, Zenon DEF Abstract!Put
<1>10. CASE Holding(table, id) = {} /\ InUse(table, a)
  <2> DEFINE lost == table.slot[a].id
  <2>1. lost \in Held(table) /\ id \notin Held(table)
    BY <1>10, ResultOfSlot DEF Holding
  <2>2. Cardinality(Held(table)) = TrackSize
    BY <1>2, <1>10, HeldCount
  <2>3. Held(table)' = (Held(table) \ {lost}) \cup {id}
    BY <1>3, <1>4, <1>5, <2>1
  <2>4. [x \in Held(table) |-> ResultOf(x)]' =
          Abstract!Keep(id, st, Held(table) \ {lost})
    BY <1>3, <1>4, <2>1, <2>3 DEF Abstract!Keep
  <2> HIDE DEF lost
  <2> QED
    BY <1>6, <1>7, <2>1, <2>2, <2>4, Zenon DEF Abstract!Put
<1> QED
  BY <1>8, <1>9, <1>10

(***************************************************************************)
(* The array implements the bounded map with take-once results, for every  *)
(* size: task_track_add loses a result only when every slot is taken, and  *)
(* then one; task_track_query removes exactly the result it hands out.     *)
(***************************************************************************)
THEOREM TrackRefines == Spec => ImplementsResultMap
<1>1. Init => Abstract!Init
  <2> SUFFICES ASSUME Init PROVE Abstract!Init
    OBVIOUS
  <2>1. Held(table) = {}
    BY DEF Init, EmptyTrack, FreeSlot, Held
  <2> QED  BY <2>1 DEF Abstract!Init
<1>2. TrackInv /\ TrackInv' /\ [Next]_vars =>
        [Abstract!Next]_([id \in Held(table) |-> ResultOf(id)])
  <2> SUFFICES ASSUME TrackInv, TrackInv', [Next]_vars
               PROVE  [Abstract!Next]_([id \in Held(table) |-> ResultOf(id)])
    OBVIOUS
  <2>1. ASSUME NEW id \in Ids, TakeResult(id) PROVE Abstract!Next
    BY <2>1, TakeRefines DEF Abstract!Next
  <2>2. ASSUME NEW id \in Ids, NEW st \in Final, Record(id, st) PROVE Abstract!Next
    BY <2>2, PutRefines DEF Abstract!Next
  <2>3. CASE UNCHANGED vars
    BY <2>3 DEF vars, Held, ResultOf
  <2> QED
    BY <2>1, <2>2, <2>3 DEF Next
<1> QED
  BY <1>1, <1>2, TrackSafe, PTL DEF Spec, ImplementsResultMap, Abstract!Spec

-----------------------------------------------------------------------------

\* The searches of model_table_add stop at an entry of the kind they look for.
LEMMA FirstModelIn ==
  ASSUME NEW S \in SUBSET ModelEntry, S # {}
  PROVE  FirstModel(S) \in S
<1>1. S \in SUBSET Nat
  BY ModelTableAssumption DEF ModelEntry
<1> QED
  BY <1>1, LeastExists DEF FirstModel

(***************************************************************************)
(* The invariant of the model table is not inductive: an id that a caller  *)
(* was told must not be one that is still to be handed out.                *)
(***************************************************************************)
ToldGiven == \A n \in Name : told[n] < nextModelId

\* A load that enters a new model preserves the invariant: its id is one
\* nobody has been told and no entry has had.
LEMMA LoadNewKeeps ==
  ASSUME ModelInv, ToldGiven, NEW n \in Name, LoadNew(n)
  PROVE  (ModelInv /\ ToldGiven)'
<1> DEFINE e == FirstModel(ModelEntry \ Loaded)
           m == [name |-> n, id |-> nextModelId]
<1>1. e \in ModelEntry /\ e \notin Loaded
  <2>1. ModelEntry \ Loaded # {}
    BY DEF LoadNew, Loaded
  <2> QED  BY <2>1, FirstModelIn
<1>2. /\ models' = [models EXCEPT ![e] = m] /\ nextModelId' = nextModelId + 1
      /\ retired' = retired /\ nextModelId <= MaxLoads
      /\ \A x \in Loaded : models[x].name # n
      /\ told' \in [Name -> 0..MaxLoads]
      /\ \A x \in Name : told'[x] = told[x] \/ (x = n /\ told'[x] = nextModelId)
  BY ModelTableAssumption DEF LoadNew, EntriesOf, Tell, ModelInv, ModelTypeOK
<1> HIDE DEF e
<1>3. /\ models \in [ModelEntry -> [name: Name \cup {NoName}, id: 0..MaxLoads]]
      /\ nextModelId \in 1..(MaxLoads + 1) /\ retired \subseteq 1..MaxLoads
      /\ told \in [Name -> 0..MaxLoads] /\ MaxLoads \in Nat /\ NoName \notin Name
  BY ModelTableAssumption DEF ModelInv, ModelTypeOK
<1>4. models'[e] = m /\ \A x \in ModelEntry \ {e} : models'[x] = models[x]
  BY <1>1, <1>2, <1>3
<1>5. Loaded' = Loaded \cup {e}
  BY <1>1, <1>3, <1>4 DEF Loaded
<1>6. ModelTypeOK'
  BY <1>1, <1>2, <1>3 DEF ModelTypeOK
<1>7. \A x \in Loaded : x \in ModelEntry \ {e} /\ models'[x] = models[x] /\ models[x].id < nextModelId
  BY <1>1, <1>4 DEF Loaded, ModelInv, RetiredStaysRetired
<1>8. OneEntryPerModel'
  BY <1>2, <1>3, <1>4, <1>5, <1>7 DEF OneEntryPerModel, ModelInv
<1>9. RetiredStaysRetired'
  BY <1>2, <1>3, <1>4, <1>5, <1>7 DEF RetiredStaysRetired, ModelInv
<1>10. ToldIdsMeanTheirModel'
  BY <1>2, <1>3, <1>4, <1>5, <1>7 DEF ToldIdsMeanTheirModel, ToldGiven, ModelInv
<1>11. ToldGiven'
  BY <1>2, <1>3 DEF ToldGiven
<1> QED
  BY <1>6, <1>8, <1>9, <1>10, <1>11 DEF ModelInv

\* A load that finds the name tells the id of the name's own entry.
LEMMA LoadAgainKeeps ==
  ASSUME ModelInv, ToldGiven, NEW n \in Name, LoadAgain(n)
  PROVE  (ModelInv /\ ToldGiven)'
<1> DEFINE e == FirstModel(EntriesOf(n))
<1>1. e \in Loaded /\ models[e].name = n
  <2>1. EntriesOf(n) \in SUBSET ModelEntry /\ EntriesOf(n) # {}
    BY DEF LoadAgain, EntriesOf, Loaded
  <2> QED  BY <2>1, FirstModelIn DEF EntriesOf
<1>2. /\ UNCHANGED <<models, nextModelId, retired>>
      /\ told' = [told EXCEPT ![n] = models[e].id] \/ told' = told
  BY DEF LoadAgain, Tell
<1> HIDE DEF e
<1>3. /\ models \in [ModelEntry -> [name: Name \cup {NoName}, id: 0..MaxLoads]]
      /\ nextModelId \in 1..(MaxLoads + 1) /\ told \in [Name -> 0..MaxLoads]
  BY DEF ModelInv, ModelTypeOK
<1>4. models[e].id \in 0..MaxLoads /\ models[e].id < nextModelId
  BY <1>1, <1>3 DEF Loaded, ModelInv, RetiredStaysRetired
<1>5. /\ told' \in [Name -> 0..MaxLoads]
      /\ \A x \in Name : told'[x] = told[x] \/ (x = n /\ told'[x] = models[e].id)
  BY <1>2, <1>3, <1>4
<1>6. Loaded' = Loaded
  BY <1>2 DEF Loaded
<1>7. ToldIdsMeanTheirModel'
  BY <1>1, <1>2, <1>5, <1>6 DEF ToldIdsMeanTheirModel, ModelInv, OneEntryPerModel
<1>8. ModelTypeOK' /\ OneEntryPerModel' /\ RetiredStaysRetired' /\ ToldGiven'
  BY <1>2, <1>4, <1>5, <1>6
     DEF ModelTypeOK, OneEntryPerModel, RetiredStaysRetired, ToldGiven, ModelInv
<1> QED
  BY <1>7, <1>8 DEF ModelInv

\* An unload clears an entry and retires its id.
LEMMA UnloadKeeps ==
  ASSUME ModelInv, ToldGiven, NEW id \in 1..MaxLoads, Unload(id)
  PROVE  (ModelInv /\ ToldGiven)'
<1>1. CASE UNCHANGED modelVars
  BY <1>1 DEF modelVars, ModelInv, ModelTypeOK, OneEntryPerModel, RetiredStaysRetired,
              ToldIdsMeanTheirModel, ToldGiven, Loaded
<1>2. ASSUME NEW e \in Loaded, models[e].id = id, models' = [models EXCEPT ![e] = NoModel],
             retired' = retired \cup {id}, UNCHANGED <<nextModelId, told>>
      PROVE  (ModelInv /\ ToldGiven)'
  <2>1. /\ models \in [ModelEntry -> [name: Name \cup {NoName}, id: 0..MaxLoads]]
        /\ e \in ModelEntry /\ NoModel \in [name: Name \cup {NoName}, id: 0..MaxLoads]
    BY ModelTableAssumption DEF ModelInv, ModelTypeOK, NoModel, Loaded
  <2>2. ModelTypeOK'
    BY <1>2, <2>1 DEF ModelInv, ModelTypeOK
  <2>3. Loaded' = Loaded \ {e} /\ \A x \in Loaded' : models'[x] = models[x] /\ x \in Loaded
    BY <1>2, <2>1 DEF Loaded, NoModel
  <2>4. OneEntryPerModel' /\ ToldIdsMeanTheirModel' /\ ToldGiven'
    BY <1>2, <2>3 DEF ModelInv, OneEntryPerModel, ToldIdsMeanTheirModel, ToldGiven
  <2>5. RetiredStaysRetired'
    <3>1. \A x \in Loaded' : models[x].id # id
      BY <1>2, <2>3 DEF ModelInv, OneEntryPerModel
    <3>2. id < nextModelId
      BY <1>2 DEF ModelInv, RetiredStaysRetired
    <3> QED  BY <1>2, <2>3, <3>1, <3>2 DEF ModelInv, RetiredStaysRetired
  <2> QED  BY <2>2, <2>4, <2>5 DEF ModelInv
<1> QED
  BY <1>1, <1>2 DEF Unload

(***************************************************************************)
(* What a model id means never changes, for every number of names, entries *)
(* and loads: model_table_add gives one entry to a name, and neither       *)
(* model_table_remove nor a failed copy_to_user makes an id a caller may   *)
(* still hold the id of another model.                                     *)
(***************************************************************************)
THEOREM ModelSafe == ModelSpec => []ModelInv
<1>1. ModelInit => ModelInv /\ ToldGiven
  BY ModelTableAssumption
     DEF ModelInit, ModelInv, ModelTypeOK, OneEntryPerModel, RetiredStaysRetired,
         ToldIdsMeanTheirModel, ToldGiven, Loaded, NoModel
<1>2. ModelInv /\ ToldGiven /\ [ModelNext]_modelVars => (ModelInv /\ ToldGiven)'
  <2> SUFFICES ASSUME ModelInv, ToldGiven, [ModelNext]_modelVars PROVE (ModelInv /\ ToldGiven)'
    OBVIOUS
  <2>1. CASE UNCHANGED modelVars
    BY <2>1 DEF modelVars, ModelInv, ModelTypeOK, OneEntryPerModel, RetiredStaysRetired,
                ToldIdsMeanTheirModel, ToldGiven, Loaded
  <2>2. ASSUME NEW n \in Name, LoadNoFile(n) \/ LoadTableFull(n) PROVE UNCHANGED modelVars
    BY <2>2 DEF LoadNoFile, LoadTableFull
  <2> QED
    BY <2>1, <2>2, LoadAgainKeeps, LoadNewKeeps, UnloadKeeps DEF ModelNext
<1> QED
  BY <1>1, <1>2, PTL DEF ModelSpec

-----------------------------------------------------------------------------

\* Entering a mode keeps the reported figures together.
LEMMA EnterModeFits ==
  ASSUME NEW m \in Mode, EnterMode(m)
  PROVE  /\ mode' \in Mode /\ throttle' \in BOOLEAN /\ throttle' = (mode' >= EFFICIENT)
         /\ threads' = mode_threads[mode'] /\ threads' \in {mode_threads[x] : x \in Mode}
  BY DEF EnterMode

(***************************************************************************)
(* Mode, number of threads and throttle flag always fit together and, but  *)
(* for a mode set by hand and for the limit of 95 degrees itself, are the  *)
(* documented ones for the last temperature read, for any temperatures and *)
(* number of workers and whether or not the sensor works.                  *)
(***************************************************************************)
THEOREM PowerSafe == PowerSpec => []PowerInv
<1>1. PowerInit => PowerInv
  <2> SUFFICES ASSUME PowerInit PROVE PowerInv
    OBVIOUS
  <2>1. mode = 0 /\ temp = 0 /\ throttle = FALSE /\ mode \in Mode
    BY DEF PowerInit, MAX, EFFICIENT, Mode, EMERGENCY
  <2>2. threads = mode_threads[mode]
    BY <2>1 DEF PowerInit, MAX
  <2>3. ReportedModeExplained
    <3>1. (mode >= EFFICIENT) = FALSE
      BY <2>1 DEF EFFICIENT
    <3>2. mode \in Documented(temp)
      BY <2>1 DEF Documented, Mode, MAX, BALANCED, EFFICIENT, EMERGENCY
    <3> QED BY <2>1, <2>2, <3>1, <3>2, Zenon DEF ReportedModeExplained
  <2>4. PowerTypeOK
    <3>1. [pc |-> "loop", throttle_sleep |-> 0, ms |-> 0] \in ThreadRecord
      BY DEF ThreadRecord
    <3>2. thread \in [Worker -> ThreadRecord]
      BY <3>1 DEF PowerInit
    <3> QED  BY <2>1, <2>2, <3>2 DEF PowerInit, PowerTypeOK
  <2> QED BY <2>3, <2>4 DEF PowerInv
<1>2. PowerInv /\ [PowerNext]_powerVars => PowerInv'
  <2> SUFFICES ASSUME PowerInv, [PowerNext]_powerVars PROVE PowerInv'
    OBVIOUS
  <2>1. ASSUME NEW r \in Temperature \cup {NoReading}, SensorChanges(r) PROVE PowerInv'
    BY <2>1 DEF SensorChanges, PowerInv, PowerTypeOK, ReportedModeExplained, Documented
  <2>2. CASE Poll
    <3>1. reading \in Nat /\ temp' = reading /\ temp' \in Temperature
      BY <2>2, PowerAssumption DEF Poll, PowerInv, PowerTypeOK
    <3>2. calculate_power_mode(reading) \in Mode
      BY DEF calculate_power_mode, Mode, MAX, BALANCED, EFFICIENT, EMERGENCY
    <3>3. /\ mode' = calculate_power_mode(reading)
          /\ mode' \in Mode /\ throttle' \in BOOLEAN /\ throttle' = (mode' >= EFFICIENT)
          /\ threads' = mode_threads[mode'] /\ threads' \in {mode_threads[x] : x \in Mode}
      <4>1. CASE calculate_power_mode(reading) # mode
        BY <2>2, <3>2, <4>1, EnterModeFits DEF Poll, EnterMode
      <4>2. CASE calculate_power_mode(reading) = mode
        BY <2>2, <4>2 DEF Poll, PowerInv, PowerTypeOK, ReportedModeExplained
      <4> QED BY <4>1, <4>2
    <3>4. PowerTypeOK'
      BY <2>2, <3>1, <3>3 DEF Poll, PowerInv, PowerTypeOK
    <3>5. ReportedModeExplained'
      <4>1. mode' \in Documented(reading) \/ (reading = 95 /\ mode' = EMERGENCY)
        BY <3>1, <3>2, <3>3 DEF Documented, calculate_power_mode, Mode, MAX, BALANCED, EFFICIENT, EMERGENCY
      <4> QED  BY <3>1, <3>3, <4>1 DEF ReportedModeExplained, Documented
    <3> QED BY <3>4, <3>5 DEF PowerInv
  <2>3. CASE PollFails
    BY <2>3 DEF PollFails, PowerInv, PowerTypeOK, ReportedModeExplained, Documented
  <2>4. ASSUME NEW m \in Mode, SetPowerMode(m) PROVE PowerInv'
    BY <2>4, EnterModeFits DEF SetPowerMode, PowerInv, PowerTypeOK, ReportedModeExplained
  <2>5. ASSUME thread' \in [Worker -> ThreadRecord],
               UNCHANGED <<reading, mode, temp, sensor, throttle, threads, manual>>
        PROVE  PowerInv'
    BY <2>5 DEF PowerInv, PowerTypeOK, ReportedModeExplained, Documented
  <2>6. ASSUME NEW w \in Worker, NEW found \in BOOLEAN, WorkerLoop(w, found) PROVE PowerInv'
    <3>1. SleepOf(mode) \in {0, 1, 3} /\ thread[w].throttle_sleep \in {0, 1, 3}
      BY DEF SleepOf, PowerInv, PowerTypeOK, ThreadRecord
    <3>2. PICK ts \in {0, 1, 3} : LoopOn(w, found, ts)
      BY <2>6, <3>1 DEF WorkerLoop
    <3>3. ts * 1000 \in {0, 1000, 3000} /\ (ts > 0 => ts * 1000 \in {1000, 3000})
      BY <3>2
    <3>4. [pc |-> IF found THEN "got" ELSE "nap", throttle_sleep |-> ts,
           ms |-> IF found THEN 0 ELSE IF ts > 0 THEN ts * 1000 ELSE 1000] \in ThreadRecord
      BY <3>2, <3>3 DEF ThreadRecord
    <3>5. thread' \in [Worker -> ThreadRecord]
      BY <3>2, <3>4 DEF LoopOn, PowerInv, PowerTypeOK
    <3>6. UNCHANGED <<reading, mode, temp, sensor, throttle, threads, manual>>
      BY <3>2 DEF LoopOn
    <3> QED  BY <2>5, <3>5, <3>6
  <2>8. ASSUME NEW w \in Worker, WorkerRun(w) \/ WorkerWakes(w) PROVE PowerInv'
    <3>1. SleepMs(mode) \in {50, 100, 200, 400}
      BY DEF SleepMs
    <3>2. thread' \in [Worker -> ThreadRecord]
      BY <2>8, <3>1 DEF WorkerRun, WorkerWakes, PowerInv, PowerTypeOK, ThreadRecord
    <3>3. UNCHANGED <<reading, mode, temp, sensor, throttle, threads, manual>>
      BY <2>8 DEF WorkerRun, WorkerWakes
    <3> QED  BY <2>5, <3>2, <3>3
  <2>7. CASE UNCHANGED powerVars
    BY <2>7 DEF powerVars, PowerInv, PowerTypeOK, ReportedModeExplained, Documented
  <2> QED
    BY <2>1, <2>2, <2>3, <2>4, <2>6, <2>7, <2>8 DEF PowerNext
<1> QED
  BY <1>1, <1>2, PTL DEF PowerSpec

-----------------------------------------------------------------------------

\* The loop of context_table_store ends with an entry of the kind it keeps.
LEMMA FirstContextIn ==
  ASSUME NEW S \in SUBSET ContextEntry, S # {}
  PROVE  FirstContext(S) \in S
<1>1. S \in SUBSET Nat
  BY ContextAssumption DEF ContextEntry
<1> QED
  BY <1>1, LeastExists DEF FirstContext

(***************************************************************************)
(* The invariant of the context table is not inductive: what a retrieve    *)
(* will find must be what was stored, and an id must be one handed out.    *)
(***************************************************************************)
EntriesAreStored ==
  \A e \in ContextEntry : contexts[e].used =>
    /\ contexts[e].key \in Key
    /\ contexts[e].id < nextId
    /\ contexts[e].value # Null =>
         stored[contexts[e].key] = [id |-> contexts[e].id, value |-> contexts[e].value]

\* The entry a store writes to is free or the key's own, and no other entry
\* in use has the key.
LEMMA PlaceIn ==
  ASSUME OneEntryPerKey, NEW k \in Key, Place(k) # {}
  PROVE  /\ FirstContext(Place(k)) \in ContextEntry
         /\ \A f \in ContextEntry \ {FirstContext(Place(k))} :
              contexts[f].used => contexts[f].key # k
         /\ contexts[FirstContext(Place(k))].used => contexts[FirstContext(Place(k))].key = k
<1>1. Place(k) \in SUBSET ContextEntry
  BY DEF Place, Matching, Free
<1>2. FirstContext(Place(k)) \in Place(k)
  BY <1>1, FirstContextIn
<1> QED
  BY <1>1, <1>2 DEF Place, Matching, Free, OneEntryPerKey

\* A successful store preserves the invariant.
LEMMA StoreKeeps ==
  ASSUME ContextInv, EntriesAreStored,
         NEW k \in Key, NEW v \in Value, NEW ttl \in Ttl, Store(k, v, ttl)
  PROVE  (ContextInv /\ EntriesAreStored)'
<1> DEFINE e == FirstContext(Place(k))
           c == [used |-> TRUE, key |-> k, id |-> nextId, value |-> v,
                 created |-> now, ttl |-> ttl]
<1>1. /\ e \in ContextEntry
      /\ \A f \in ContextEntry \ {e} : contexts[f].used => contexts[f].key # k
  BY PlaceIn DEF Store, ContextInv
<1>2. /\ contexts' = [contexts EXCEPT ![e] = c] /\ nextId' = nextId + 1
      /\ stored' = [stored EXCEPT ![k] = [id |-> nextId, value |-> v]]
      /\ got' = [key |-> Null, id |-> 0, value |-> Null]
      /\ now' = now /\ stuck' = stuck /\ stuck = FALSE
  BY DEF Store, NothingGot, ContextInv, ContextTypeOK
<1> HIDE DEF e
<1>3. /\ contexts \in [ContextEntry -> EntryRecord] /\ nextId \in Nat \ {0} /\ now \in Nat
      /\ stored \in [Key -> [id: Nat, value: Value \cup {Null}]] /\ v # Null /\ ttl \in Nat
  BY ContextAssumption DEF ContextInv, ContextTypeOK
<1>4. contexts'[e] = c /\ \A f \in ContextEntry \ {e} : contexts'[f] = contexts[f]
  BY <1>1, <1>2, <1>3
<1>5. c \in EntryRecord
  BY <1>3 DEF EntryRecord
<1>6. ContextTypeOK'
  <2>1. contexts' \in [ContextEntry -> EntryRecord]
    BY <1>1, <1>2, <1>3, <1>5
  <2>2. stored' \in [Key -> [id: Nat, value: Value \cup {Null}]]
    BY <1>2, <1>3
  <2>3. got' \in [key: Key \cup {Null}, id: Nat, value: Value \cup {Null}] /\ stuck' \in BOOLEAN
    BY <1>2
  <2>4. nextId' \in Nat \ {0} /\ now' \in Nat
    BY <1>2, <1>3
  <2> QED  BY <2>1, <2>2, <2>3, <2>4 DEF ContextTypeOK
<1>7. \A f \in ContextEntry \ {e} :
        contexts[f].used => /\ contexts[f].key \in Key /\ contexts[f].key # k
                            /\ contexts[f].id < nextId /\ contexts[f].id \in Nat
                            /\ stored'[contexts[f].key] = stored[contexts[f].key]
  BY <1>1, <1>2, <1>3 DEF EntriesAreStored, EntryRecord
<1>8. stored'[k] = [id |-> nextId, value |-> v]
  BY <1>2, <1>3
<1>9. OneEntryPerKey'
  BY <1>3, <1>4, <1>7 DEF OneEntryPerKey, ContextInv
<1>10. EntriesAreStored'
  BY <1>2, <1>3, <1>4, <1>7, <1>8 DEF EntriesAreStored
<1>11. NullOnlyAfterFailedStore'
  BY <1>2, <1>3, <1>4, <1>7 DEF NullOnlyAfterFailedStore, ContextInv
<1>12. RetrieveReturnsLatest'
  BY <1>2 DEF RetrieveReturnsLatest
<1> QED
  BY <1>6, <1>9, <1>10, <1>11, <1>12 DEF ContextInv

\* A store that cannot allocate forgets the value of the key's entry.
LEMMA StoreNoMemoryKeeps ==
  ASSUME ContextInv, EntriesAreStored, NEW k \in Key, StoreNoMemory(k)
  PROVE  (ContextInv /\ EntriesAreStored)'
<1> DEFINE e == FirstContext(Place(k))
<1>1. /\ e \in ContextEntry
      /\ \A f \in ContextEntry \ {e} : contexts[f].used => contexts[f].key # k
      /\ contexts[e].used => contexts[e].key = k
  BY PlaceIn DEF StoreNoMemory, ContextInv
<1>2. /\ contexts' = [contexts EXCEPT ![e].value = Null] /\ nextId' = nextId
      /\ stored' = [stored EXCEPT ![k] = Nothing]
      /\ got' = [key |-> Null, id |-> 0, value |-> Null]
      /\ now' = now /\ stuck' = stuck /\ stuck = FALSE
  BY DEF StoreNoMemory, NothingGot, ContextInv, ContextTypeOK
<1> HIDE DEF e
<1>3. /\ contexts \in [ContextEntry -> EntryRecord] /\ nextId \in Nat \ {0} /\ now \in Nat
      /\ stored \in [Key -> [id: Nat, value: Value \cup {Null}]]
  BY DEF ContextInv, ContextTypeOK
<1>4. /\ contexts'[e] \in EntryRecord /\ contexts'[e].value = Null
      /\ contexts'[e].used = contexts[e].used /\ contexts'[e].key = contexts[e].key
      /\ contexts'[e].id = contexts[e].id
      /\ \A f \in ContextEntry \ {e} : contexts'[f] = contexts[f]
  BY <1>1, <1>2, <1>3 DEF EntryRecord
<1>5. ContextTypeOK'
  <2>1. contexts' \in [ContextEntry -> EntryRecord]
    BY <1>1, <1>2, <1>3, <1>4
  <2>2. stored' \in [Key -> [id: Nat, value: Value \cup {Null}]]
    BY <1>2, <1>3 DEF Nothing
  <2> QED  BY <1>2, <1>3, <2>1, <2>2 DEF ContextTypeOK
<1>6. /\ stored'[k] = Nothing
      /\ \A f \in ContextEntry \ {e} :
           contexts[f].used => stored'[contexts[f].key] = stored[contexts[f].key]
  BY <1>1, <1>2, <1>3 DEF EntriesAreStored
<1>7. OneEntryPerKey'
  BY <1>1, <1>4 DEF OneEntryPerKey, ContextInv
<1>8. EntriesAreStored'
  <2>1. \A f \in ContextEntry \ {e} : contexts'[f] = contexts[f] /\
          (contexts[f].used => stored'[contexts[f].key] = stored[contexts[f].key])
    BY <1>4, <1>6
  <2>2. contexts'[e].used =>
          contexts'[e].key \in Key /\ contexts'[e].id < nextId' /\ contexts'[e].value = Null
    BY <1>1, <1>2, <1>4 DEF EntriesAreStored
  <2> QED  BY <1>2, <2>1, <2>2 DEF EntriesAreStored
<1>9. NullOnlyAfterFailedStore'
  BY <1>1, <1>2, <1>4, <1>6 DEF NullOnlyAfterFailedStore, ContextInv
<1>10. RetrieveReturnsLatest'
  BY <1>2 DEF RetrieveReturnsLatest
<1> QED
  BY <1>5, <1>7, <1>8, <1>9, <1>10 DEF ContextInv

\* Clearing an expired entry leaves the others as they are.
LEMMA RetrieveExpiredKeeps ==
  ASSUME ContextInv, EntriesAreStored, NEW e \in ContextEntry, RetrieveExpired(e)
  PROVE  (ContextInv /\ EntriesAreStored)'
<1>1. /\ contexts' = [contexts EXCEPT ![e] = NoContext] /\ nextId' = nextId
      /\ stored' = stored /\ got' = [key |-> Null, id |-> 0, value |-> Null]
      /\ now' = now /\ stuck' = stuck /\ stuck = FALSE
  BY DEF RetrieveExpired, NothingGot, ContextInv, ContextTypeOK
<1>2. contexts \in [ContextEntry -> EntryRecord] /\ NoContext \in EntryRecord
  BY DEF ContextInv, ContextTypeOK, NoContext, EntryRecord
<1>3. /\ contexts'[e].used = FALSE
      /\ \A f \in ContextEntry \ {e} : contexts'[f] = contexts[f]
  BY <1>1, <1>2 DEF NoContext
<1>4. ContextTypeOK'
  BY <1>1, <1>2 DEF ContextInv, ContextTypeOK
<1>5. OneEntryPerKey' /\ EntriesAreStored' /\ NullOnlyAfterFailedStore'
  BY <1>1, <1>3 DEF OneEntryPerKey, EntriesAreStored, NullOnlyAfterFailedStore, ContextInv
<1>6. RetrieveReturnsLatest'
  BY <1>1 DEF RetrieveReturnsLatest
<1> QED
  BY <1>4, <1>5, <1>6 DEF ContextInv

\* The steps that leave the entries alone: failed calls, the clock, a
\* retrieve that copies a value out, and one that faults.
LEMMA EntriesUntouchedKeeps ==
  ASSUME ContextInv, EntriesAreStored, UNCHANGED <<contexts, nextId, stored>>,
         now' \in Nat, got' \in [key: Key \cup {Null}, id: Nat, value: Value \cup {Null}],
         stuck' \in BOOLEAN,
         stuck' => stuck \/ \E e \in ContextEntry : contexts[e].used /\ contexts[e].value = Null,
         RetrieveReturnsLatest'
  PROVE  (ContextInv /\ EntriesAreStored)'
<1>1. ContextTypeOK'
  BY DEF ContextInv, ContextTypeOK
<1>2. OneEntryPerKey' /\ EntriesAreStored' /\ NullOnlyAfterFailedStore'
  BY DEF OneEntryPerKey, EntriesAreStored, NullOnlyAfterFailedStore, ContextInv
<1> QED
  BY <1>1, <1>2 DEF ContextInv

(***************************************************************************)
(* The context table answers as a map with expiry would, for every number  *)
(* of keys and entries and every clock: context_table_retrieve returns the *)
(* latest unexpired store of the key or nothing, by key or by id, and only *)
(* a store that ran out of memory leaves an entry that will fault.         *)
(***************************************************************************)
THEOREM ContextSafe == ContextSpec => []ContextInv
<1>1. ContextInit => ContextInv /\ EntriesAreStored
  <2> SUFFICES ASSUME ContextInit PROVE ContextInv /\ EntriesAreStored
    OBVIOUS
  <2>1. ContextTypeOK
    <3>1. contexts \in [ContextEntry -> EntryRecord]
      BY DEF ContextInit, NoContext, EntryRecord
    <3>2. stored \in [Key -> [id: Nat, value: Value \cup {Null}]]
      BY DEF ContextInit, Nothing
    <3>3. got \in [key: Key \cup {Null}, id: Nat, value: Value \cup {Null}] /\ stuck \in BOOLEAN
      BY DEF ContextInit
    <3>4. nextId \in Nat \ {0} /\ now \in Nat
      BY DEF ContextInit
    <3> QED  BY <3>1, <3>2, <3>3, <3>4 DEF ContextTypeOK
  <2>2. stuck = FALSE /\ got.value = Null /\ \A e \in ContextEntry : contexts[e].used = FALSE
    BY DEF ContextInit, NoContext
  <2> QED
    BY <2>1, <2>2 DEF ContextInv, OneEntryPerKey, RetrieveReturnsLatest,
                      NullOnlyAfterFailedStore, EntriesAreStored
<1>2. ContextInv /\ EntriesAreStored /\ [ContextNext]_contextVars
        => (ContextInv /\ EntriesAreStored)'
  <2> SUFFICES ASSUME ContextInv, EntriesAreStored, [ContextNext]_contextVars
               PROVE  (ContextInv /\ EntriesAreStored)'
    OBVIOUS
  <2>1. CASE UNCHANGED contextVars
    BY <2>1 DEF contextVars, ContextInv, ContextTypeOK, OneEntryPerKey, RetrieveReturnsLatest,
                NullOnlyAfterFailedStore, EntriesAreStored, Expired
  <2>2. ASSUME UNCHANGED <<contexts, nextId, stored, stuck>>, NothingGot, now' \in Nat
        PROVE  (ContextInv /\ EntriesAreStored)'
    <3>1. RetrieveReturnsLatest'
      BY <2>2 DEF NothingGot, RetrieveReturnsLatest
    <3>2. /\ got' \in [key: Key \cup {Null}, id: Nat, value: Value \cup {Null}]
          /\ stuck' \in BOOLEAN /\ stuck' = stuck
      BY <2>2 DEF NothingGot, ContextInv, ContextTypeOK
    <3> QED  BY <2>2, <3>1, <3>2, EntriesUntouchedKeeps
  <2>3. ASSUME NEW k \in Key, StoreFull(k) PROVE (ContextInv /\ EntriesAreStored)'
    BY <2>2, <2>3 DEF StoreFull, ContextInv, ContextTypeOK
  <2>4. CASE RetrieveNothing
    BY <2>2, <2>4 DEF RetrieveNothing, ContextInv, ContextTypeOK
  <2>5. CASE Tick
    BY <2>2, <2>5 DEF Tick, ContextInv, ContextTypeOK
  <2>6. ASSUME NEW e \in ContextEntry, RetrieveValue(e) PROVE (ContextInv /\ EntriesAreStored)'
    <3>1. contexts[e] \in EntryRecord /\ now \in Nat /\ stuck \in BOOLEAN
      BY DEF ContextInv, ContextTypeOK
    <3>2. /\ got'.key = contexts[e].key /\ got'.id = contexts[e].id
          /\ got'.value = contexts[e].value /\ UNCHANGED <<contexts, nextId, stored, stuck, now>>
          /\ got' \in [key: Key \cup {Null}, id: Nat, value: Value \cup {Null}]
      BY <2>6, <3>1 DEF RetrieveValue, EntryRecord
    <3>3. RetrieveReturnsLatest'
      BY <2>6, <3>2 DEF RetrieveValue, RetrieveReturnsLatest, EntriesAreStored, Expired
    <3> QED  BY <3>1, <3>2, <3>3, EntriesUntouchedKeeps
  <2>7. ASSUME NEW e \in ContextEntry, RetrieveNull(e) PROVE (ContextInv /\ EntriesAreStored)'
    <3>1. /\ RetrieveReturnsLatest' /\ UNCHANGED <<contexts, nextId, stored, now>>
          /\ got' \in [key: Key \cup {Null}, id: Nat, value: Value \cup {Null}]
      BY <2>7 DEF RetrieveNull, NothingGot, RetrieveReturnsLatest
    <3>2. stuck' \in BOOLEAN /\ contexts[e].used /\ contexts[e].value = Null /\ now' \in Nat
      BY <2>7 DEF RetrieveNull, ContextInv, ContextTypeOK
    <3> QED  BY <3>1, <3>2, EntriesUntouchedKeeps
  <2> QED
    BY <2>1, <2>3, <2>4, <2>5, <2>6, <2>7, StoreKeeps, StoreNoMemoryKeeps, RetrieveExpiredKeeps
       DEF ContextNext
<1> QED
  BY <1>1, <1>2, PTL DEF ContextSpec

=============================================================================
