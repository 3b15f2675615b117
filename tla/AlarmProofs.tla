----------------------------- MODULE AlarmProofs -----------------------------
(***************************************************************************)
(* For any tags, definitions, operators and bounds: the alarm manager is   *)
(* type correct, alarms and their ids are distinct, what is saved and      *)
(* shown is current, alarms follow their tags, and the disk and the audit  *)
(* trail agree on every occurrence.  The ids are those slug_id finds, so   *)
(* the proof begins with what that search returns.                         *)
(***************************************************************************)
EXTENDS AlarmManager, FiniteSetTheorems, TLAPS

-----------------------------------------------------------------------------
(* slug_id.                                                                *)

(* A slug with a suffix is a slug, and different suffixes of one root make *)
(* different slugs.                                                        *)
LEMMA SlugType ==
    ASSUME NEW root \in Seq(Nat), NEW n \in Nat
    PROVE  Slug(root, n) \in Seq(Nat)
  BY DEF Slug

LEMMA SlugInjective ==
    ASSUME NEW root \in Seq(Nat), NEW n \in Nat, NEW m \in Nat,
           Slug(root, n) = Slug(root, m)
    PROVE  n = m
  <1>1. CASE n = 0 /\ m # 0
    <2>1. Len(Append(root, m)) = Len(root) + 1
      OBVIOUS
    <2> QED BY <1>1, <2>1 DEF Slug
  <1>2. CASE n # 0 /\ m = 0
    <2>1. Len(Append(root, n)) = Len(root) + 1
      OBVIOUS
    <2> QED BY <1>2, <2>1 DEF Slug
  <1>3. CASE n # 0 /\ m # 0
    <2>1. /\ Append(root, n)[Len(root) + 1] = n
          /\ Append(root, m)[Len(root) + 1] = m
      OBVIOUS
    <2> QED BY <1>3, <2>1 DEF Slug
  <1> QED BY <1>1, <1>2, <1>3

(* Of Cardinality(taken) + 1 slugs of one root, one is free.               *)
LEMMA SlugFree ==
    ASSUME NEW root \in Seq(Nat), NEW taken, IsFiniteSet(taken)
    PROVE  \E n \in 0..Cardinality(taken) : Slug(root, n) \notin taken
  <1> DEFINE size == Cardinality(taken)
             suffixes == 0..size
             slugs == [n \in suffixes |-> Slug(root, n)]
  <1>1. size \in Nat
    BY FS_CardinalityType
  <1>2. IsFiniteSet(suffixes) /\ Cardinality(suffixes) = size + 1
    <2>1. 0 \in Int /\ size \in Int /\ ~(0 > size)
      BY <1>1
    <2>2. IsFiniteSet(suffixes) /\ Cardinality(suffixes) = size - 0 + 1
      BY <2>1, FS_Interval, Zenon
    <2> QED BY <1>1, <2>2
  <1>3. SUFFICES ASSUME \A n \in suffixes : Slug(root, n) \in taken
                 PROVE  FALSE
    OBVIOUS
  <1>4. slugs \in [suffixes -> taken]
    BY <1>3
  <1>5. Cardinality(suffixes) > Cardinality(taken)
    BY <1>1, <1>2
  <1>6. \E x, y \in suffixes : x # y /\ slugs[x] = slugs[y]
    <2> HIDE DEF slugs, suffixes
    <2> QED BY <1>2, <1>4, <1>5, FS_PigeonHole
  <1> QED BY <1>1, <1>6, SlugInjective

(* ... and there is a first one.                                           *)
LEMMA SlugFirst ==
    ASSUME NEW root \in Seq(Nat), NEW taken, IsFiniteSet(taken)
    PROVE  \E n \in 0..Cardinality(taken) :
              /\ Slug(root, n) \notin taken
              /\ \A m \in 0..(n - 1) : Slug(root, m) \in taken
  <1> DEFINE size == Cardinality(taken)
             free == {n \in 0..size : Slug(root, n) \notin taken}
             less == OpToRel(<, Nat)
  <1>1. size \in Nat
    BY FS_CardinalityType
  <1>2. free # {} /\ free \subseteq Nat
    BY <1>1, SlugFree
  <1>3. IsWellFoundedOn(less, Nat)
    BY NatLessThanWellFounded, Zenon
  <1>4. PICK n \in free : \A m \in free : ~(<<m, n>> \in less)
    <2> HIDE DEF less, free
    <2> QED BY <1>2, <1>3, WFMin, Zenon
  <1>5. \A m \in free : ~(m < n)
    BY <1>2, <1>4 DEF OpToRel
  <1>6. \A m \in 0..(n - 1) : Slug(root, m) \in taken
    BY <1>1, <1>5
  <1> QED BY <1>6

(* What slug_id returns is a slug that is not taken.                       *)
LEMMA SlugIdFresh ==
    ASSUME NEW root \in Seq(Nat), NEW taken, IsFiniteSet(taken)
    PROVE  SlugId(root, taken) \in Ids /\ SlugId(root, taken) \notin taken
  <1> DEFINE P(n) == /\ Slug(root, n) \notin taken
                     /\ \A m \in 0..(n - 1) : Slug(root, m) \in taken
             n0 == CHOOSE n \in 0..Cardinality(taken) : P(n)
  <1>1. \E n \in 0..Cardinality(taken) : P(n)
    BY SlugFirst
  <1>2. n0 \in 0..Cardinality(taken) /\ P(n0)
    BY <1>1
  <1>3. SlugId(root, taken) = Slug(root, n0)
    BY DEF SlugId
  <1>4. n0 \in Nat
    BY <1>2, FS_CardinalityType
  <1> HIDE DEF n0
  <1> QED BY <1>2, <1>3, <1>4, SlugType DEF Ids
-----------------------------------------------------------------------------
(***************************************************************************)
(* The inductive invariant.  Instance ids are unique only while there is   *)
(* a finite number of them to choose around, and a restart brings back     *)
(* what was saved, so the state on disk is as good as the one in memory.   *)
(* A handler that holds the lock has kept room for what it may still do.   *)
(***************************************************************************)
Good(st) ==
    /\ IsFiniteSet(st.active)
    /\ \A a, b \in st.active : a.alarm_id = b.alarm_id => a = b
    /\ \A a, b \in st.active : a.id = b.id => a = b
    /\ \A g, h \in DOMAIN st.history : st.history[g].id = st.history[h].id => g = h
    /\ \A a \in st.active, h \in DOMAIN st.history : a.id # st.history[h].id

Busy ==
    work # NoWork =>
        /\ IsFiniteSet(work.todo)
        /\ clock + Cardinality(work.todo) <= MaxClock
        /\ Len(queue) < MaxQueue

IInv == TypeOK /\ Busy /\ Good(SavedState) /\ Good(disk.state)

LEMMA RootType ==
    ASSUME NEW id \in Ids \cup {NoId}, NEW code \in Roots
    PROVE  Root(id, code) \in Seq(Nat)
  BY SlugsAssumption DEF Root, Ids

(* The definitions to evaluate are finitely many.                          *)
LEMMA TodoFinite ==
    ASSUME NEW cfg \in Seq(Definition), NEW todo \in SUBSET (DOMAIN cfg)
    PROVE  IsFiniteSet(todo)
  <1>1. DOMAIN cfg = 1..Len(cfg) /\ Len(cfg) \in Nat
    OBVIOUS
  <1>2. IsFiniteSet(1..Len(cfg))
    BY <1>1, FS_Interval
  <1> QED BY <1>1, <1>2, FS_Subset

(* The image of a finite set under a function is finite.                   *)
LEMMA ImageFinite ==
    ASSUME NEW S, IsFiniteSet(S), NEW f, DOMAIN f = S, f = [x \in S |-> f[x]]
    PROVE  IsFiniteSet({f[x] : x \in S})
  <1> DEFINE T == {f[x] : x \in S}
  <1>1. f \in Surjection(S, T)
    BY DEF Surjection
  <1> HIDE DEF T
  <1>2. IsFiniteSet(T)
    BY <1>1, FS_Surjection
  <1> QED BY <1>2 DEF T

LEMMA UsedIdsFinite ==
    ASSUME TypeOK, Good(SavedState)
    PROVE  IsFiniteSet(UsedIds)
  <1>1. IsFiniteSet({inst.id : inst \in active})
    <2> DEFINE f == [inst \in active |-> inst.id]
    <2>1. IsFiniteSet(active)
      BY DEF Good, SavedState
    <2>2. IsFiniteSet({f[inst] : inst \in active})
      <3>1. DOMAIN f = active /\ f = [x \in active |-> f[x]]
        OBVIOUS
      <3> HIDE DEF f
      <3> QED BY <2>1, <3>1, ImageFinite
    <2>3. {f[inst] : inst \in active} = {inst.id : inst \in active}
      OBVIOUS
    <2> QED BY <2>2, <2>3
  <1>2. IsFiniteSet(DOMAIN history)
    <2>1. DOMAIN history = 1..Len(history) /\ Len(history) \in Nat
      BY DEF TypeOK
    <2> QED BY <2>1, FS_Interval
  <1>3. IsFiniteSet({history[h].id : h \in DOMAIN history})
    <2> DEFINE S == DOMAIN history
               f == [h \in S |-> history[h].id]
    <2>1. IsFiniteSet({f[h] : h \in S})
      <3>1. DOMAIN f = S /\ f = [x \in S |-> f[x]]
        OBVIOUS
      <3> HIDE DEF f
      <3> QED BY <1>2, <3>1, ImageFinite
    <2>2. {f[h] : h \in S} = {history[h].id : h \in S}
      OBVIOUS
    <2> QED BY <2>1, <2>2
  <1> QED BY <1>1, <1>3, FS_Union DEF UsedIds

-----------------------------------------------------------------------------
(* The initial states.                                                     *)

LEMMA InvInit == Init => IInv
  <1> SUFFICES ASSUME Init PROVE IInv
    OBVIOUS
  <1> USE BoundsAssumption, ConstantsAssumption, DraftsAssumption DEF Init
  <1>1. TypeOK
    <2>1. config \in Seq(Definition)
      OBVIOUS
    <2>2. /\ active \subseteq Instances
          /\ history \in Seq(Entries) /\ Len(history) <= MaxHistory
          /\ disk \in [config : Seq(Definition), state : States]
          /\ Len(disk.state.history) <= MaxHistory
      BY <2>1 DEF SavedState, States
    <2>3. cache \in [Tags -> Values]
      BY DEF Seed, Values
    <2>4. work \in [todo : SUBSET (DOMAIN config), changed : BOOLEAN, tags : SUBSET Tags]
      BY DEF EvaluateCached, Evaluation, Cached
    <2>5. ack \in [Clients -> Acks]
      BY DEF Idle, Acks
    <2>6. /\ queue \in Seq(SUBSET Instances) /\ Len(queue) <= MaxQueue
          /\ clock \in 0..MaxClock /\ edits \in 0..MaxEdits
      OBVIOUS
    <2>7. /\ reload = NoDocument
          /\ trail \subseteq [actor : Clients, subject : Ids \cup {All, Nothing},
                              ats : SUBSET (1..MaxClock)]
          /\ panel \in {"off", "registered", "on"} /\ view \subseteq Instances
          /\ stale \subseteq Tags /\ unsaved \in BOOLEAN
      OBVIOUS
    <2> QED BY <2>1, <2>2, <2>3, <2>4, <2>5, <2>6, <2>7 DEF TypeOK
  <1>2. Busy
    <2>1. work.todo \in SUBSET (DOMAIN config) /\ config \in Seq(Definition)
      <3>1. work = EvaluateCached(Seed, config) /\ config \in Seq(Definition)
        OBVIOUS
      <3> QED BY <3>1 DEF EvaluateCached, Evaluation
    <2>2. IsFiniteSet(work.todo)
      BY <2>1, TodoFinite
    <2> QED BY <2>2 DEF Busy, Room
  <1>3. Good(SavedState) /\ Good(disk.state)
    <2>1. IsFiniteSet({})
      BY FS_EmptySet
    <2>2. active = {} /\ history = <<>> /\ disk.state = SavedState
      OBVIOUS
    <2>3. Good(SavedState)
      BY <2>1, <2>2 DEF Good, SavedState
    <2> QED BY <2>2, <2>3
  <1> QED BY <1>1, <1>2, <1>3 DEF IInv

-----------------------------------------------------------------------------
(* Steps that leave the alarms alone, in memory and on disk.               *)

LEMMA GoodUnchanged ==
    ASSUME Good(SavedState), Good(disk.state),
           UNCHANGED <<active, history>>, disk'.state = disk.state
    PROVE  Good(SavedState)' /\ Good(disk.state)'
  BY DEF Good, SavedState

(* A tag's value is filled in: every instance stays what it is but for its *)
(* captured values.                                                        *)
LEMMA FilledOK ==
    ASSUME NEW inst \in Instances, NEW t \in Tags, NEW v \in BOOLEAN
    PROVE  /\ Backfilled(inst, t, v) \in Instances
           /\ Backfilled(inst, t, v).id = inst.id
           /\ Backfilled(inst, t, v).alarm_id = inst.alarm_id
  <1> DEFINE fill == [inst EXCEPT !.values[t] = v]
  <1>1. PICK ts \in SUBSET Tags : inst.values \in [ts -> Values]
    BY DEF Instances
  <1>2. [inst.values EXCEPT ![t] = v] \in [ts -> Values]
    BY <1>1 DEF Values
  <1>3. fill \in Instances /\ fill.id = inst.id /\ fill.alarm_id = inst.alarm_id
    BY <1>2 DEF Instances
  <1> QED BY <1>3 DEF Backfilled

LEMMA ValueStep ==
    ASSUME IInv, NEW t \in Tags, NEW v \in BOOLEAN, OnVariableChange(t, v)
    PROVE  IInv'
  <1> USE DEF IInv
  <1> DEFINE image == {Backfilled(i, t, v) : i \in active}
  <1>1. active' = image \/ active' = active
    BY DEF OnVariableChange
  <1>2. active' \subseteq Instances
    BY <1>1, FilledOK DEF TypeOK
  <1>3. /\ TriggeredBy(t) \subseteq DOMAIN config
        /\ IsFiniteSet(TriggeredBy(t))
    BY TodoFinite DEF TriggeredBy, TypeOK
  <1>4. TypeOK'
    <2>1. work' \in [todo : SUBSET (DOMAIN config'), changed : BOOLEAN, tags : SUBSET Tags]
      BY <1>3 DEF OnVariableChange, Evaluation
    <2>2. cache' \in [Tags -> Values]
      BY DEF OnVariableChange, TypeOK, Values
    <2> QED BY <1>2, <2>1, <2>2 DEF OnVariableChange, TypeOK
  <1>5. Busy'
    <2>1. /\ work'.todo = TriggeredBy(t) /\ UNCHANGED <<clock, queue>>
          /\ Room(TriggeredBy(t))
      BY DEF OnVariableChange, Evaluation
    <2> QED BY <1>3, <2>1 DEF Room, Busy
  <1>6. Good(SavedState)'
    <2>1. CASE active' = active
      <3>1. SavedState' = SavedState
        BY <2>1 DEF OnVariableChange, SavedState
      <3> QED BY <3>1 DEF Good
    <2>2. CASE active' = image
      <3> DEFINE f == [i \in active |-> Backfilled(i, t, v)]
      <3>1. IsFiniteSet({f[i] : i \in active})
        <4>1. IsFiniteSet(active) /\ DOMAIN f = active /\ f = [i \in active |-> f[i]]
          BY DEF Good, SavedState
        <4> HIDE DEF f
        <4> QED BY <4>1, ImageFinite
      <3>2. IsFiniteSet(active')
        <4>1. {f[i] : i \in active} = image
          OBVIOUS
        <4> QED BY <2>2, <3>1, <4>1
      <3>3. \A i \in active : /\ Backfilled(i, t, v).id = i.id
                              /\ Backfilled(i, t, v).alarm_id = i.alarm_id
        BY FilledOK DEF TypeOK
      <3>4. history' = history
        BY DEF OnVariableChange
      <3> HIDE DEF f
      <3> QED BY <2>2, <3>2, <3>3, <3>4 DEF Good, SavedState
    <2> QED BY <1>1, <2>1, <2>2
  <1>7. Good(disk.state)'
    BY DEF OnVariableChange, Good
  <1> QED BY <1>4, <1>5, <1>6, <1>7

LEMMA EditedOK ==
    ASSUME TypeOK, Edited
    PROVE  edits' \in 0..MaxEdits
  BY BoundsAssumption DEF TypeOK, Edited

(* A read leaves a value in the cache, and no listener is told.            *)
LEMMA SeedStep ==
    ASSUME IInv, NEW t \in Tags, NEW v \in BOOLEAN, SeedCachedValues(t, v)
    PROVE  IInv'
  <1> USE DEF IInv
  <1>1. UNCHANGED <<config, active, history, disk, reload, work, ack, trail, queue,
                    panel, view, clock, edits, unsaved>>
    BY DEF SeedCachedValues
  <1>2. cache' \in [Tags -> Values] /\ stale' \subseteq Tags
    BY DEF SeedCachedValues, TypeOK, Values
  <1>3. TypeOK' /\ Busy'
    BY <1>1, <1>2 DEF TypeOK, Busy
  <1> QED BY <1>1, <1>3, GoodUnchanged

LEMMA EvaluateStep ==
    ASSUME IInv, NEW t \in Tags, ReapplyDatasource(t) \/ Evict(t)
    PROVE  IInv'
  <1> USE DEF IInv
  <1>1. UNCHANGED <<config, active, history, disk, reload, ack, trail, queue,
                    panel, view, clock, stale, unsaved>>
    BY DEF ReapplyDatasource, Evict
  <1>2. cache' \in [Tags -> Values]
    <2>1. FALSE \in Values /\ NoValue \in Values
      BY DEF Values
    <2>2. PICK v \in Values : cache' = [cache EXCEPT ![t] = v]
      BY <2>1 DEF ReapplyDatasource, Evict
    <2> QED BY <2>2 DEF TypeOK
  <1>3. edits' \in 0..MaxEdits
    <2>1. Edited
      BY DEF ReapplyDatasource, Evict
    <2> QED BY <2>1, EditedOK
  <1>4. CASE ReapplyDatasource(t)
    <2>1. /\ work' = EvaluateCached(cache', config)
          /\ clock + Cardinality(work'.todo) <= MaxClock
          /\ Len(queue) < MaxQueue
      BY <1>4 DEF ReapplyDatasource, Room
    <2>2. work' \in [todo : SUBSET (DOMAIN config), changed : BOOLEAN, tags : SUBSET Tags]
      BY <2>1 DEF EvaluateCached, Evaluation, Cached
    <2>3. work'.todo \in SUBSET (DOMAIN config) /\ config \in Seq(Definition)
      BY <2>2 DEF TypeOK
    <2>4. IsFiniteSet(work'.todo)
      BY <2>3, TodoFinite
    <2>5. Busy'
      BY <1>1, <2>1, <2>4 DEF Busy
    <2>6. TypeOK'
      BY <1>1, <1>2, <1>3, <2>2 DEF TypeOK
    <2> QED BY <1>1, <2>5, <2>6, GoodUnchanged
  <1>5. CASE Evict(t)
    <2>1. work' = work
      BY <1>5 DEF Evict
    <2>2. TypeOK' /\ Busy'
      BY <1>1, <1>2, <1>3, <2>1 DEF TypeOK, Busy
    <2> QED BY <1>1, <2>2, GoodUnchanged
  <1> QED BY <1>4, <1>5

-----------------------------------------------------------------------------
(* One definition is evaluated: one less to do, and at most one tick.      *)

LEMMA DoneStep ==
    ASSUME IInv, NEW i \in DOMAIN config, NEW changed \in BOOLEAN,
           work # NoWork, NextUp(i), Done(i, changed),
           UNCHANGED <<config, queue>>, clock' \in {clock, clock + 1}
    PROVE  /\ work' \in [todo : SUBSET (DOMAIN config'), changed : BOOLEAN, tags : SUBSET Tags]
           /\ clock' \in 0..MaxClock
           /\ Busy'
  <1>1. work \in [todo : SUBSET (DOMAIN config), changed : BOOLEAN, tags : SUBSET Tags]
    BY DEF IInv, TypeOK
  <1>2. work' \in [todo : SUBSET (DOMAIN config), changed : BOOLEAN, tags : SUBSET Tags]
    BY <1>1 DEF Done
  <1>3. work'.todo = work.todo \ {i} /\ i \in work.todo
    BY <1>1 DEF Done, NextUp
  <1>4. /\ IsFiniteSet(work.todo) /\ clock + Cardinality(work.todo) <= MaxClock
        /\ Len(queue) < MaxQueue
    BY DEF IInv, Busy
  <1>5. /\ IsFiniteSet(work'.todo)
        /\ Cardinality(work'.todo) = Cardinality(work.todo) - 1
    BY <1>3, <1>4, FS_RemoveElement
  <1>6. Cardinality(work.todo) \in Nat /\ Cardinality(work'.todo) \in Nat
    BY <1>4, <1>5, FS_CardinalityType
  <1>7. clock \in 0..MaxClock /\ MaxClock \in Nat
    BY BoundsAssumption DEF IInv, TypeOK
  <1>8. clock' + Cardinality(work'.todo) <= MaxClock /\ clock' \in 0..MaxClock
    BY <1>4, <1>5, <1>6, <1>7
  <1>9. Busy'
    BY <1>4, <1>5, <1>8 DEF Busy
  <1> QED BY <1>2, <1>8, <1>9

LEMMA FireStep ==
    ASSUME IInv, NEW i \in DOMAIN config, Fire(i)
    PROVE  IInv'
  <1> DEFINE d == config[i]
             inst == [id |-> SlugId(Root(d.id, d.code), UsedIds), alarm_id |-> d.id,
                      code |-> d.code, acked |-> ~d.ack_required, acked_by |-> Nobody,
                      values |-> [t \in d.values |-> cache[t]], triggered_at |-> clock + 1]
  <1>1. /\ active' = active \cup {inst} /\ ActiveOf(d.id) = {}
        /\ clock' = clock + 1 /\ work # NoWork /\ NextUp(i) /\ Done(i, TRUE)
        /\ UNCHANGED <<config, history, disk, reload, cache, ack, trail, queue, panel,
                       view, edits, stale, unsaved>>
    BY DEF Fire
  <1>2. d \in Definition
    BY DEF IInv, TypeOK
  <1>3. SlugId(Root(d.id, d.code), UsedIds) \in Ids \ UsedIds
    <2>1. Root(d.id, d.code) \in Seq(Nat)
      BY <1>2, RootType DEF Definition
    <2>2. IsFiniteSet(UsedIds)
      BY UsedIdsFinite DEF IInv
    <2> QED BY <2>1, <2>2, SlugIdFresh
  <1>4. /\ work' \in [todo : SUBSET (DOMAIN config'), changed : BOOLEAN, tags : SUBSET Tags]
        /\ clock' \in 0..MaxClock
        /\ Busy'
    BY <1>1, DoneStep
  <1>5. inst \in Instances
    <2>1. [t \in d.values |-> cache[t]] \in [d.values -> Values] /\ d.values \in SUBSET Tags
      BY <1>2 DEF IInv, TypeOK, Definition
    <2>2. clock + 1 \in 1..MaxClock
      BY <1>1, <1>4, BoundsAssumption DEF IInv, TypeOK
    <2>3. d.id \in Ids \cup {NoId} /\ d.code \in Roots
      BY <1>2 DEF Definition
    <2>4. (~d.ack_required) \in BOOLEAN /\ Nobody \in Clients \cup {Nobody}
      OBVIOUS
    <2>5. inst.values \in UNION {[ts -> Values] : ts \in SUBSET Tags}
      BY <2>1
    <2> QED BY <1>3, <2>2, <2>3, <2>4, <2>5 DEF Instances
  <1>6. TypeOK'
    <2> HIDE DEF inst
    <2> QED BY <1>1, <1>4, <1>5 DEF IInv, TypeOK
  <1>7. Good(SavedState)'
    <2>1. /\ inst.id \notin UsedIds
          /\ inst.alarm_id = d.id
      BY <1>3
    <2>2. \A a \in active : a.alarm_id # inst.alarm_id /\ a.id # inst.id
      BY <1>1, <2>1 DEF ActiveOf, UsedIds
    <2>3. \A h \in DOMAIN history : history[h].id # inst.id
      BY <2>1 DEF UsedIds
    <2>4. IsFiniteSet(active')
      BY <1>1, FS_AddElement DEF IInv, Good, SavedState
    <2> HIDE DEF inst
    <2> QED BY <1>1, <2>2, <2>3, <2>4 DEF IInv, Good, SavedState
  <1>8. Good(disk.state)'
    BY <1>1 DEF IInv, Good
  <1> QED BY <1>4, <1>6, <1>7, <1>8 DEF IInv

(* Trimming keeps a front part of the history.                             *)
LEMMA TrimmedOK ==
    ASSUME NEW h \in Seq(Entries), Len(h) <= MaxHistory + 1
    PROVE  /\ Trimmed(h) \in Seq(Entries)
           /\ Len(Trimmed(h)) <= MaxHistory
           /\ DOMAIN Trimmed(h) \subseteq DOMAIN h
           /\ \A n \in DOMAIN Trimmed(h) : Trimmed(h)[n] = h[n]
  <1>1. CASE Len(h) > MaxHistory
    <2>1. Trimmed(h) = SubSeq(h, 1, MaxHistory) /\ MaxHistory \in 1..Len(h)
      BY <1>1, BoundsAssumption DEF Trimmed
    <2> QED BY <2>1, BoundsAssumption
  <1>2. CASE ~(Len(h) > MaxHistory)
    BY <1>2, BoundsAssumption DEF Trimmed
  <1> QED BY <1>1, <1>2

LEMMA ClearStep ==
    ASSUME IInv, NEW i \in DOMAIN config, Clear(i)
    PROVE  IInv'
  <1>1. PICK inst \in ActiveOf(config[i].id) :
          LET entry == [id |-> SlugId(Root(inst.alarm_id, inst.code), UsedIds),
                        alarm_id |-> inst.alarm_id, code |-> inst.code,
                        acked |-> inst.acked, acked_by |-> inst.acked_by,
                        values |-> inst.values, triggered_at |-> inst.triggered_at,
                        cleared_at |-> clock + 1]
          IN  /\ active' = Without(inst)
              /\ history' = Trimmed(<<entry>> \o history)
    BY DEF Clear
  <1> DEFINE entry == [id |-> SlugId(Root(inst.alarm_id, inst.code), UsedIds),
                       alarm_id |-> inst.alarm_id, code |-> inst.code,
                       acked |-> inst.acked, acked_by |-> inst.acked_by,
                       values |-> inst.values, triggered_at |-> inst.triggered_at,
                       cleared_at |-> clock + 1]
             longer == <<entry>> \o history
  <1>2. /\ clock' = clock + 1 /\ work # NoWork /\ NextUp(i) /\ Done(i, TRUE)
        /\ UNCHANGED <<config, disk, reload, cache, ack, trail, queue, panel,
                       view, edits, stale, unsaved>>
        /\ active' = Without(inst) /\ history' = Trimmed(longer)
    BY <1>1 DEF Clear
  <1>3. inst \in Instances /\ inst \in active
    BY DEF IInv, TypeOK, ActiveOf
  <1>4. SlugId(Root(inst.alarm_id, inst.code), UsedIds) \in Ids \ UsedIds
    <2>1. Root(inst.alarm_id, inst.code) \in Seq(Nat)
      BY <1>3, RootType DEF Instances
    <2>2. IsFiniteSet(UsedIds)
      BY UsedIdsFinite DEF IInv
    <2> QED BY <2>1, <2>2, SlugIdFresh
  <1>5. /\ work' \in [todo : SUBSET (DOMAIN config'), changed : BOOLEAN, tags : SUBSET Tags]
        /\ clock' \in 0..MaxClock
        /\ Busy'
    BY <1>2, DoneStep
  <1>6. entry \in Entries
    <2>1. clock + 1 \in 1..MaxClock
      BY <1>2, <1>5, BoundsAssumption DEF IInv, TypeOK
    <2> QED BY <1>3, <1>4, <2>1 DEF Instances, Entries
  <1>7. entry.id \notin UsedIds
    BY <1>4
  <1> HIDE DEF entry
  <1>8. /\ history \in Seq(Entries) /\ Len(history) <= MaxHistory
        /\ Len(history) \in Nat
    BY DEF IInv, TypeOK
  <1>9. /\ longer \in Seq(Entries) /\ Len(longer) = Len(history) + 1
        /\ longer[1] = entry
        /\ \A n \in 2..Len(longer) : longer[n] = history[n - 1]
    BY <1>6, <1>8
  <1>10. /\ history' \in Seq(Entries) /\ Len(history') <= MaxHistory
         /\ DOMAIN history' \subseteq 1..Len(longer)
         /\ \A n \in DOMAIN history' : history'[n] = longer[n]
    <2>1. Len(longer) <= MaxHistory + 1 /\ DOMAIN longer = 1..Len(longer)
      BY <1>8, <1>9, BoundsAssumption
    <2> HIDE DEF longer
    <2> QED BY <1>2, <1>9, <2>1, TrimmedOK
  <1> HIDE DEF longer
  <1>11. \A n \in DOMAIN history' :
            \/ n = 1 /\ history'[n].id = entry.id
            \/ n # 1 /\ n - 1 \in DOMAIN history /\ history'[n].id = history[n - 1].id
    <2>1. DOMAIN history = 1..Len(history)
      BY <1>8
    <2> QED BY <1>8, <1>9, <1>10, <2>1
  <1>12. active' \subseteq active
    BY <1>2 DEF Without
  <1>13. TypeOK'
    BY <1>2, <1>5, <1>10, <1>12 DEF IInv, TypeOK
  <1>14. Good(SavedState)'
    <2>1. IsFiniteSet(active')
      BY <1>12, FS_Subset DEF IInv, Good, SavedState
    <2>2. \A g, h \in DOMAIN history' : history'[g].id = history'[h].id => g = h
      <3>1. \A h \in DOMAIN history : history[h].id # entry.id
        BY <1>7 DEF UsedIds
      <3>2. \A g, h \in DOMAIN history : history[g].id = history[h].id => g = h
        BY DEF IInv, Good, SavedState
      <3>3. DOMAIN history' \subseteq Nat
        BY <1>8, <1>9, <1>10
      <3> QED BY <1>11, <3>1, <3>2, <3>3
    <2>3. \A a \in active', h \in DOMAIN history' : a.id # history'[h].id
      <3>1. \A a \in active : a.id # entry.id
        BY <1>7 DEF UsedIds
      <3>2. \A a \in active, h \in DOMAIN history : a.id # history[h].id
        BY DEF IInv, Good, SavedState
      <3> QED BY <1>11, <1>12, <3>1, <3>2
    <2> QED BY <1>12, <2>1, <2>2, <2>3 DEF IInv, Good, SavedState
  <1>15. Good(disk.state)'
    BY <1>2 DEF IInv, Good
  <1> QED BY <1>5, <1>13, <1>14, <1>15 DEF IInv

LEMMA KeepStep ==
    ASSUME IInv, NEW i \in DOMAIN config, Keep(i)
    PROVE  IInv'
  <1>1. /\ work # NoWork /\ NextUp(i) /\ Done(i, FALSE)
        /\ UNCHANGED <<config, active, history, disk, reload, cache, ack, trail,
                       queue, panel, view, clock, edits, stale, unsaved>>
    BY DEF Keep
  <1>2. /\ work' \in [todo : SUBSET (DOMAIN config'), changed : BOOLEAN, tags : SUBSET Tags]
        /\ Busy'
    BY <1>1, DoneStep
  <1>3. TypeOK'
    BY <1>1, <1>2 DEF IInv, TypeOK
  <1> QED BY <1>1, <1>2, <1>3, GoodUnchanged DEF IInv

-----------------------------------------------------------------------------
(* The end of an evaluation, and the saves.                                *)

LEMMA SaveOK ==
    ASSUME IInv, SaveState, active' \subseteq Instances,
           history' \in Seq(Entries), Len(history') <= MaxHistory, Good(SavedState)'
    PROVE  /\ disk' \in [config : Seq(Definition), state : States]
           /\ Len(disk'.state.history) <= MaxHistory
           /\ Good(disk.state)'
  <1>1. disk \in [config : Seq(Definition), state : States]
    BY DEF IInv, TypeOK
  <1>2. [active |-> active', history |-> history'] \in States
    BY DEF States
  <1>3. /\ disk' \in [config : Seq(Definition), state : States]
        /\ disk'.state = SavedState'
    BY <1>1, <1>2 DEF SaveState, SavedState
  <1> QED BY <1>3 DEF Good, SavedState

LEMMA BroadcastOK ==
    ASSUME IInv, Broadcast, Len(queue) < MaxQueue, active' \subseteq Instances
    PROVE  queue' \in Seq(SUBSET Instances) /\ Len(queue') <= MaxQueue
  BY BoundsAssumption DEF IInv, TypeOK, Broadcast

LEMMA FinishStep ==
    ASSUME IInv, Finish \/ FinishSaveFails
    PROVE  IInv'
  <1>1. /\ UNCHANGED <<config, active, history, reload, cache, ack, trail, panel,
                       view, clock>>
        /\ work # NoWork /\ work' = NoWork /\ stale' = stale \ work.tags
    BY DEF Finish, FinishSaveFails
  <1>2. SavedState' = SavedState
    BY <1>1 DEF SavedState
  <1>3. Good(SavedState)'
    BY <1>2 DEF IInv, Good
  <1>4. Busy'
    BY <1>1 DEF Busy
  <1>5. active' \subseteq Instances /\ history' \in Seq(Entries) /\ Len(history') <= MaxHistory
    BY <1>1 DEF IInv, TypeOK
  <1>6. edits' \in 0..MaxEdits
    <2>1. CASE Finish
      BY <2>1 DEF Finish, IInv, TypeOK
    <2>2. CASE FinishSaveFails
      BY <2>2, EditedOK DEF FinishSaveFails, IInv
    <2> QED BY <2>1, <2>2
  <1>7. /\ disk' \in [config : Seq(Definition), state : States]
        /\ Len(disk'.state.history) <= MaxHistory
        /\ Good(disk.state)'
    <2>1. CASE SaveState
      BY <1>3, <1>5, <2>1, SaveOK
    <2>2. CASE disk' = disk
      BY <2>2 DEF IInv, TypeOK, Good
    <2> QED BY <2>1, <2>2 DEF Finish, FinishSaveFails
  <1>8. queue' \in Seq(SUBSET Instances) /\ Len(queue') <= MaxQueue
    <2>1. CASE Broadcast
      <3>1. Len(queue) < MaxQueue
        BY <1>1 DEF IInv, Busy
      <3> QED BY <1>5, <2>1, <3>1, BroadcastOK
    <2>2. CASE queue' = queue
      BY <2>2 DEF IInv, TypeOK
    <2> QED BY <2>1, <2>2 DEF Finish, FinishSaveFails
  <1>9. unsaved' \in BOOLEAN
    BY DEF Finish, FinishSaveFails, IInv, TypeOK
  <1>10. TypeOK'
    BY <1>1, <1>5, <1>6, <1>7, <1>8, <1>9 DEF IInv, TypeOK
  <1> QED BY <1>3, <1>4, <1>7, <1>10 DEF IInv

-----------------------------------------------------------------------------
(* Configuration saves.                                                    *)

(* The slugs that ids are filled in with make the definitions whole.       *)
LEMMA SuffixesOK ==
    ASSUME NEW cfg \in Seq(Definition), NEW ns \in [DOMAIN cfg -> Nat]
    PROVE  WithSuffixes(cfg, ns) \in Seq(Definition)
  <1> DEFINE filled(i) == IF cfg[i].id # NoId THEN cfg[i]
                          ELSE [cfg[i] EXCEPT !.id = Slug(cfg[i].code, ns[i])]
  <1>1. DOMAIN cfg = 1..Len(cfg) /\ Len(cfg) \in Nat
    OBVIOUS
  <1>2. ASSUME NEW i \in DOMAIN cfg PROVE filled(i) \in Definition
    <2>1. cfg[i] \in Definition /\ ns[i] \in Nat
      OBVIOUS
    <2>2. cfg[i].code \in Seq(Nat)
      BY <2>1, SlugsAssumption DEF Definition
    <2>3. Slug(cfg[i].code, ns[i]) \in Ids
      BY <2>1, <2>2, SlugType DEF Ids
    <2> QED BY <2>1, <2>3 DEF Definition
  <1>3. WithSuffixes(cfg, ns) = [i \in 1..Len(cfg) |-> filled(i)]
    BY <1>1 DEF WithSuffixes
  <1> HIDE DEF filled
  <1> QED BY <1>1, <1>2, <1>3

LEMMA ConfigStep ==
    ASSUME IInv, NEW cfg \in Drafts, SetConfig(cfg) \/ ReloadRead(cfg)
    PROVE  IInv'
  <1>1. /\ UNCHANGED <<active, history, cache, work, ack, trail, queue, panel, view,
                       clock, unsaved>>
        /\ work = NoWork
    BY DEF SetConfig, ReloadRead, Free, LoopFree
  <1>2. cfg \in Seq(Definition)
    BY DraftsAssumption
  <1>3. edits' \in 0..MaxEdits
    <2>1. Edited
      BY DEF SetConfig, ReloadRead
    <2> QED BY <2>1, EditedOK DEF IInv
  <1>4. /\ config' \in Seq(Definition)
        /\ reload' = NoDocument \/ reload' \in Seq(Definition)
        /\ stale' \subseteq Tags
        /\ \E doc \in Seq(Definition) : disk' = [disk EXCEPT !.config = doc]
    <2>1. CASE SetConfig(cfg)
      <3>1. PICK ns \in [DOMAIN cfg -> 0..Len(cfg)] : config' = WithSuffixes(cfg, ns)
        BY <2>1 DEF SetConfig
      <3>2. ns \in [DOMAIN cfg -> Nat]
        BY <1>2
      <3>3. config' \in Seq(Definition)
        BY <1>2, <3>1, <3>2, SuffixesOK
      <3> QED BY <2>1, <3>3 DEF SetConfig, Rebuilt, IInv, TypeOK
    <2>2. CASE ReloadRead(cfg)
      BY <1>2, <2>2 DEF ReloadRead, IInv, TypeOK
    <2> QED BY <2>1, <2>2
  <1>5. /\ disk' \in [config : Seq(Definition), state : States]
        /\ disk'.state = disk.state
    BY <1>4 DEF IInv, TypeOK
  <1>6. TypeOK'
    BY <1>1, <1>3, <1>4, <1>5 DEF IInv, TypeOK
  <1>7. Busy'
    BY <1>1 DEF Busy
  <1> QED BY <1>1, <1>5, <1>6, <1>7, GoodUnchanged DEF IInv

LEMMA ApplyStep ==
    ASSUME IInv, ApplyConfig
    PROVE  IInv'
  <1>1. /\ UNCHANGED <<active, history, disk, cache, work, ack, trail, queue, panel,
                       view, clock, edits, unsaved>>
        /\ work = NoWork /\ reload # NoDocument
        /\ config' = reload /\ reload' = NoDocument /\ stale' = Tags
    BY DEF ApplyConfig, Free, Rebuilt
  <1>2. TypeOK'
    BY <1>1 DEF IInv, TypeOK
  <1>3. Busy'
    BY <1>1 DEF Busy
  <1> QED BY <1>1, <1>2, <1>3, GoodUnchanged DEF IInv

-----------------------------------------------------------------------------
(* Acknowledgements.                                                       *)

LEMMA AckedOK ==
    ASSUME NEW inst \in Instances, NEW c \in Clients
    PROVE  /\ Acked(inst, c) \in Instances
           /\ Acked(inst, c).id = inst.id
           /\ Acked(inst, c).alarm_id = inst.alarm_id
  BY DEF Acked, Instances

(* An acknowledged instance stays who it is.                               *)
LEMMA AcknowledgedOK ==
    ASSUME IInv, NEW target, NEW c \in Clients,
           active' = Acknowledged(target, c), history' = history
    PROVE  active' \subseteq Instances /\ Good(SavedState)'
  <1> DEFINE now(i) == IF i \in Unacked(target) THEN Acked(i, c) ELSE i
             f == [i \in active |-> now(i)]
  <1>1. Unacked(target) \subseteq active /\ active \subseteq Instances
    BY DEF IInv, TypeOK, Unacked, Reached
  <1>2. active' = {now(i) : i \in active}
    BY <1>1 DEF Acknowledged
  <1>3. \A i \in active : /\ now(i) \in Instances
                          /\ now(i).id = i.id
                          /\ now(i).alarm_id = i.alarm_id
    BY <1>1, AckedOK
  <1>4. IsFiniteSet(active')
    <2>1. IsFiniteSet(active) /\ DOMAIN f = active /\ f = [i \in active |-> f[i]]
      BY DEF IInv, Good, SavedState
    <2>2. active' = {f[i] : i \in active}
      BY <1>2
    <2> HIDE DEF f
    <2> QED BY <2>1, <2>2, ImageFinite
  <1> HIDE DEF now, f
  <1>5. active' \subseteq Instances
    BY <1>2, <1>3
  <1> QED BY <1>2, <1>3, <1>4, <1>5 DEF IInv, Good, SavedState

LEMMA AckChangesStep ==
    ASSUME IInv, NEW c \in Clients, AckApply(c) \/ AckSaveFails(c)
    PROVE  IInv'
  <1>1. /\ UNCHANGED <<config, history, reload, cache, work, trail, panel, view,
                       clock, stale>>
        /\ work = NoWork
        /\ active' = Acknowledged(ack[c].target, c)
    BY DEF AckApply, AckSaveFails, Free
  <1>2. active' \subseteq Instances /\ Good(SavedState)'
    BY <1>1, AcknowledgedOK
  <1>3. history' \in Seq(Entries) /\ Len(history') <= MaxHistory
    BY <1>1 DEF IInv, TypeOK
  <1>4. /\ disk' \in [config : Seq(Definition), state : States]
        /\ Len(disk'.state.history) <= MaxHistory
        /\ Good(disk.state)'
    <2>1. CASE SaveState
      BY <1>2, <1>3, <2>1, SaveOK
    <2>2. CASE disk' = disk
      BY <2>2 DEF IInv, TypeOK, Good
    <2> QED BY <2>1, <2>2 DEF AckApply, AckSaveFails
  <1>5. queue' \in Seq(SUBSET Instances) /\ Len(queue') <= MaxQueue
    <2>1. CASE AckApply(c)
      BY <1>2, <2>1, BroadcastOK DEF AckApply
    <2>2. CASE AckSaveFails(c)
      BY <2>2 DEF AckSaveFails, IInv, TypeOK
    <2> QED BY <2>1, <2>2
  <1>6. ack' \in [Clients -> Acks]
    <2>1. ack \in [Clients -> Acks]
      BY DEF IInv, TypeOK
    <2>2. {inst.triggered_at : inst \in Unacked(ack[c].target)} \in SUBSET (1..MaxClock)
      BY DEF IInv, TypeOK, Unacked, Reached, Instances
    <2>3. Idle \in Acks
      BY BoundsAssumption DEF Idle, Acks
    <2>4. [ack[c] EXCEPT !.pc = "emit",
              !.ats = {inst.triggered_at : inst \in Unacked(ack[c].target)}] \in Acks
      BY <2>1, <2>2 DEF Acks
    <2>5. CASE AckApply(c)
      BY <2>1, <2>4, <2>5 DEF AckApply
    <2>6. CASE AckSaveFails(c)
      BY <2>1, <2>3, <2>6 DEF AckSaveFails
    <2> QED BY <2>5, <2>6
  <1>7. edits' \in 0..MaxEdits /\ unsaved' \in BOOLEAN
    BY EditedOK DEF AckApply, AckSaveFails, IInv, TypeOK
  <1>8. TypeOK'
    BY <1>1, <1>2, <1>3, <1>4, <1>5, <1>6, <1>7 DEF IInv, TypeOK
  <1>9. Busy'
    BY <1>1 DEF Busy
  <1> QED BY <1>2, <1>4, <1>8, <1>9 DEF IInv

LEMMA AckStep ==
    ASSUME IInv, NEW c \in Clients, AckAsked(c) \/ AckNothing(c) \/ AckEmit(c)
    PROVE  IInv'
  <1>1. UNCHANGED <<config, active, history, disk, reload, cache, work, queue,
                    panel, view, clock, edits, stale, unsaved>>
    BY DEF AckAsked, AckNothing, AckEmit
  <1>2. ack \in [Clients -> Acks] /\ Idle \in Acks
    BY BoundsAssumption DEF IInv, TypeOK, Idle, Acks
  <1>3. ack' \in [Clients -> Acks]
    <2>1. CASE AckAsked(c)
      <3>1. ASSUME NEW inst \in view
            PROVE  [pc |-> "asked", target |-> inst.id,
                    ats |-> {}] \in Acks
        <4>1. inst \in Instances
          BY DEF IInv, TypeOK
        <4>2. inst.id \in Ids /\ inst.triggered_at \in 1..MaxClock
          BY <4>1 DEF Instances
        <4> QED BY <4>2, BoundsAssumption DEF Acks
      <3>2. [pc |-> "asked", target |-> All, ats |-> {}] \in Acks
        BY BoundsAssumption DEF Acks
      <3>3. PICK a \in Acks : ack' = [ack EXCEPT ![c] = a]
        BY <2>1, <3>1, <3>2 DEF AckAsked
      <3> QED BY <1>2, <3>3
    <2>2. CASE AckNothing(c) \/ AckEmit(c)
      <3>1. ack' = [ack EXCEPT ![c] = Idle]
        BY <2>2 DEF AckNothing, AckEmit
      <3> QED BY <1>2, <3>1
    <2> QED BY <2>1, <2>2
  <1>4. trail' \subseteq [actor : Clients, subject : Ids \cup {All, Nothing},
                          ats : SUBSET (1..MaxClock)]
    <2>1. CASE AckEmit(c)
      <3>1. ack[c].target \in Ids \cup {All, Nothing} /\ ack[c].ats \in SUBSET (1..MaxClock)
        BY <1>2 DEF Acks
      <3> QED BY <2>1, <3>1 DEF AckEmit, IInv, TypeOK
    <2>2. CASE trail' = trail
      BY <2>2 DEF IInv, TypeOK
    <2> QED BY <2>1, <2>2 DEF AckAsked, AckNothing
  <1>5. TypeOK'
    BY <1>1, <1>3, <1>4 DEF IInv, TypeOK
  <1>6. Busy'
    BY <1>1 DEF IInv, Busy
  <1> QED BY <1>1, <1>5, <1>6, GoodUnchanged DEF IInv

-----------------------------------------------------------------------------
(* The display, and the restart.                                           *)

LEMMA PanelStep ==
    ASSUME IInv, PanelRegister \/ PanelSnapshot \/ Deliver
    PROVE  IInv'
  <1>1. /\ UNCHANGED <<config, active, history, disk, reload, cache, work, ack, trail,
                       clock, edits, stale, unsaved>>
        /\ work = NoWork
    BY DEF PanelRegister, PanelSnapshot, Deliver, LoopFree, Free
  <1>2. /\ queue \in Seq(SUBSET Instances) /\ Len(queue) <= MaxQueue
        /\ MaxQueue \in Nat /\ view \subseteq Instances /\ active \subseteq Instances
        /\ panel \in {"off", "registered", "on"}
    BY BoundsAssumption DEF IInv, TypeOK
  <1>3. /\ queue' \in Seq(SUBSET Instances) /\ Len(queue') <= MaxQueue
        /\ view' \subseteq Instances
        /\ panel' \in {"off", "registered", "on"}
    <2>1. CASE PanelRegister
      BY <1>2, <2>1 DEF PanelRegister
    <2>2. CASE PanelSnapshot
      BY <1>2, <2>2 DEF PanelSnapshot
    <2>3. CASE Deliver
      <3>1. Head(queue) \subseteq Instances /\ Tail(queue) \in Seq(SUBSET Instances)
            /\ Len(Tail(queue)) <= MaxQueue
        BY <1>2, <2>3 DEF Deliver
      <3> QED BY <1>2, <2>3, <3>1 DEF Deliver
    <2> QED BY <2>1, <2>2, <2>3
  <1>4. TypeOK'
    BY <1>1, <1>3 DEF IInv, TypeOK
  <1>5. Busy'
    BY <1>1 DEF Busy
  <1> QED BY <1>1, <1>4, <1>5, GoodUnchanged DEF IInv

LEMMA RestartStep ==
    ASSUME IInv, Restart
    PROVE  IInv'
  <1> USE BoundsAssumption
  <1>1. /\ config' = disk.config
        /\ active' = disk.state.active /\ history' = disk.state.history
        /\ reload' = NoDocument /\ cache' = Seed
        /\ work' = EvaluateCached(Seed, disk.config)
        /\ clock + Cardinality(work'.todo) <= MaxClock
        /\ ack' = [c \in Clients |-> Idle]
        /\ queue' = <<>> /\ panel' = "off" /\ view' = {}
        /\ stale' = Tags /\ unsaved' = FALSE
        /\ UNCHANGED <<disk, trail, clock>>
    BY DEF Restart
  <1>2. /\ config' \in Seq(Definition)
        /\ active' \subseteq Instances
        /\ history' \in Seq(Entries) /\ Len(history') <= MaxHistory
    BY <1>1 DEF IInv, TypeOK, States
  <1>3. cache' \in [Tags -> Values]
    BY <1>1 DEF Seed, Values
  <1>4. work' \in [todo : SUBSET (DOMAIN config'), changed : BOOLEAN, tags : SUBSET Tags]
    BY <1>1 DEF EvaluateCached, Evaluation, Cached
  <1>5. ack' \in [Clients -> Acks]
    BY <1>1 DEF Idle, Acks
  <1>6. edits' \in 0..MaxEdits
    BY EditedOK DEF Restart, IInv, TypeOK
  <1>7. queue' \in Seq(SUBSET Instances) /\ Len(queue') = 0
    BY <1>1
  <1>8. TypeOK'
    <2>1. UNCHANGED <<disk, trail, clock>> /\ TypeOK
      BY <1>1 DEF IInv
    <2>2. /\ disk' \in [config : Seq(Definition), state : States]
          /\ Len(disk'.state.history) <= MaxHistory
          /\ trail' \subseteq [actor : Clients, subject : Ids \cup {All, Nothing},
                               ats : SUBSET (1..MaxClock)]
          /\ clock' \in 0..MaxClock
      BY <2>1 DEF TypeOK
    <2>3. /\ panel' \in {"off", "registered", "on"} /\ view' \subseteq Instances
          /\ stale' \subseteq Tags /\ reload' = NoDocument
      BY <1>1
    <2>4. unsaved' \in BOOLEAN
      BY <1>1
    <2>5. Len(queue') <= MaxQueue
      BY <1>7
    <2> QED BY <1>2, <1>3, <1>4, <1>5, <1>6, <1>7, <2>2, <2>3, <2>4, <2>5 DEF TypeOK
  <1>9. Busy'
    <2>1. work'.todo \in SUBSET (DOMAIN config')
      BY <1>4
    <2>2. IsFiniteSet(work'.todo)
      BY <1>2, <2>1, TodoFinite
    <2> QED BY <1>1, <1>7, <2>2 DEF Busy
  <1>10. Good(SavedState)' /\ Good(disk.state)'
    BY <1>1 DEF IInv, Good, SavedState
  <1> QED BY <1>8, <1>9, <1>10 DEF IInv

LEMMA InvStep == IInv /\ [Next]_vars => IInv'
  <1> SUFFICES ASSUME IInv, [Next]_vars PROVE IInv'
    OBVIOUS
  <1>1. ASSUME NEW t \in Tags, NEW v \in BOOLEAN, OnVariableChange(t, v) PROVE IInv'
    BY <1>1, ValueStep
  <1>2. ASSUME NEW t \in Tags, ReapplyDatasource(t) \/ Evict(t) PROVE IInv'
    BY <1>2, EvaluateStep
  <1>3. ASSUME NEW i \in DOMAIN config, Fire(i) PROVE IInv'
    BY <1>3, FireStep
  <1>4. ASSUME NEW i \in DOMAIN config, Clear(i) PROVE IInv'
    BY <1>4, ClearStep
  <1>5. ASSUME NEW i \in DOMAIN config, Keep(i) PROVE IInv'
    BY <1>5, KeepStep
  <1>6. CASE Finish \/ FinishSaveFails
    BY <1>6, FinishStep
  <1>7. ASSUME NEW cfg \in Drafts, SetConfig(cfg) \/ ReloadRead(cfg) PROVE IInv'
    BY <1>7, ConfigStep
  <1>8. CASE ApplyConfig
    BY <1>8, ApplyStep
  <1>9. ASSUME NEW c \in Clients, AckApply(c) \/ AckSaveFails(c) PROVE IInv'
    BY <1>9, AckChangesStep
  <1>10. ASSUME NEW c \in Clients, AckAsked(c) \/ AckNothing(c) \/ AckEmit(c) PROVE IInv'
    BY <1>10, AckStep
  <1>11. CASE PanelRegister \/ PanelSnapshot \/ Deliver
    BY <1>11, PanelStep
  <1>12. CASE Restart
    BY <1>12, RestartStep
  <1>13. CASE UNCHANGED vars
    BY <1>13 DEF IInv, TypeOK, Busy, Good, SavedState, vars
  <1>14. ASSUME NEW t \in Tags, NEW v \in BOOLEAN, SeedCachedValues(t, v) PROVE IInv'
    BY <1>14, SeedStep
  <1> QED BY <1>1, <1>2, <1>3, <1>4, <1>5, <1>6, <1>7, <1>8, <1>9, <1>10, <1>11,
             <1>12, <1>13, <1>14 DEF Next

-----------------------------------------------------------------------------
(* The results.                                                            *)

(* The inductive invariant holds in every state the manager reaches.       *)
THEOREM InvHolds == Spec => []IInv
  BY InvInit, InvStep, PTL DEF Spec

(* The alarm manager is type correct, and its history never grows past     *)
(* _MAX_HISTORY.                                                           *)
THEOREM AlarmTypeCorrect == Spec => []TypeOK
  <1>1. IInv => TypeOK
    BY DEF IInv
  <1> QED BY InvHolds, <1>1, PTL

(* An alarm has at most one active instance, and the id that slug_id finds *)
(* for an instance is never that of another one, in the active list or in  *)
(* the history, after any sequence of value changes, edits, failed saves,  *)
(* acknowledgements and restarts.                                          *)
THEOREM AlarmsDistinct == Spec => []AlarmsAreDistinct
  <1>1. IInv => AlarmsAreDistinct
    BY DEF IInv, Good, SavedState, AlarmsAreDistinct, OneActivePerAlarm, InstanceIdsUnique
  <1> QED BY InvHolds, <1>1, PTL

-----------------------------------------------------------------------------
(***************************************************************************)
(* What is saved and what is shown.  The invariants say what holds when    *)
(* the lock is free; inductively it holds as long as the handler that has  *)
(* the lock has changed nothing, and the last broadcast in the queue       *)
(* carries the alarms as they are.                                         *)
(***************************************************************************)
Settled == (work = NoWork \/ ~work.changed) /\ ~unsaved

Shown ==
    /\ queue # <<>> => queue[Len(queue)] = active
    /\ panel = "on" /\ queue = <<>> => view = active

Current == Settled => disk.state = SavedState /\ Shown

(* An evaluation is not the constant that stands for none.                 *)
LEMMA EvaluationIsWork ==
    ASSUME NEW cfg \in Seq(Definition),
           NEW w \in [todo : SUBSET (DOMAIN cfg), changed : BOOLEAN, tags : SUBSET Tags]
    PROVE  w # NoWork
  <1>1. DOMAIN cfg \subseteq Nat
    OBVIOUS
  <1>2. w \in [todo : SUBSET Nat, changed : BOOLEAN, tags : SUBSET Tags]
    BY <1>1
  <1> QED BY <1>2, ConstantsAssumption

(* The last element of a queue that grows at its end and shrinks at its    *)
(* head.                                                                   *)
LEMMA AppendLast ==
    ASSUME NEW S, NEW q \in Seq(S), NEW e \in S
    PROVE  Append(q, e) # <<>> /\ Append(q, e)[Len(Append(q, e))] = e
  <1>1. Len(Append(q, e)) = Len(q) + 1 /\ Len(q) \in Nat
    OBVIOUS
  <1>2. Append(q, e)[Len(q) + 1] = e
    OBVIOUS
  <1> QED BY <1>1, <1>2

LEMMA TailLast ==
    ASSUME NEW S, NEW q \in Seq(S), Len(q) > 1
    PROVE  Tail(q) # <<>> /\ Tail(q)[Len(Tail(q))] = q[Len(q)]
  <1>1. q # <<>> /\ Len(q) \in Nat
    OBVIOUS
  <1>2. Len(Tail(q)) = Len(q) - 1
    BY <1>1
  <1>3. Tail(q)[Len(q) - 1] = q[Len(q)]
    BY <1>1
  <1>4. Tail(q) # <<>>
    <2>1. Len(<<>>) = 0 /\ Len(Tail(q)) # 0
      BY <1>1, <1>2
    <2> QED BY <2>1
  <1> QED BY <1>2, <1>3, <1>4

LEMMA CurrentInit == Init => Current
  BY DEF Init, Current, Shown, SavedState

(* Steps that change neither the alarms, in memory or on disk, nor what    *)
(* is broadcast or shown.                                                  *)
LEMMA CurrentUnchanged ==
    ASSUME Current, UNCHANGED <<active, history, queue, view>>,
           disk'.state = disk.state, Settled' => Settled, panel' = "on" => panel = "on"
    PROVE  Current'
  BY DEF Current, Shown, SavedState

LEMMA CurrentValue ==
    ASSUME IInv, IInv', Current, NEW t \in Tags, NEW v \in BOOLEAN, OnVariableChange(t, v)
    PROVE  Current'
  <1> DEFINE filled == IF t \in ValueKeys THEN {Backfilled(i, t, v) : i \in active}
                       ELSE active
  <1>1. /\ work = NoWork /\ active' = filled
        /\ work' = Evaluation(TriggeredBy(t), filled # active, {t})
        /\ UNCHANGED <<history, disk, queue, panel, view, unsaved>>
    BY DEF OnVariableChange, LoopFree, Free
  <1> HIDE DEF filled
  <1>2. work' \in [todo : SUBSET (DOMAIN config'), changed : BOOLEAN, tags : SUBSET Tags]
    <2>1. /\ TriggeredBy(t) \subseteq DOMAIN config
          /\ config' = config /\ (filled # active) \in BOOLEAN
      BY DEF TriggeredBy, OnVariableChange
    <2> QED BY <1>1, <2>1 DEF Evaluation
  <1>3. config' \in Seq(Definition)
    BY DEF IInv, TypeOK
  <1>4. work' # NoWork
    BY <1>2, <1>3, EvaluationIsWork
  <1>5. Settled' => active' = active
    BY <1>1, <1>4, Zenon DEF Settled, Evaluation
  <1>6. Settled' => Settled
    BY <1>1 DEF Settled
  <1> QED BY <1>1, <1>5, <1>6 DEF Current, Shown, SavedState

(* An evaluation that has fired or cleared an alarm is to be saved.        *)
LEMMA CurrentDone ==
    ASSUME IInv, IInv', Current, NEW i \in DOMAIN config, Fire(i) \/ Clear(i) \/ Keep(i)
    PROVE  Current'
  <1>1. /\ work # NoWork
        /\ work \in [todo : SUBSET (DOMAIN config), changed : BOOLEAN, tags : SUBSET Tags]
    BY DEF Fire, Clear, Keep, IInv, TypeOK
  <1>2. CASE Fire(i) \/ Clear(i)
    <2>1. /\ work' = [work EXCEPT !.todo = @ \ {i}, !.changed = @ \/ TRUE]
          /\ config' = config
      BY <1>2 DEF Fire, Clear, Done
    <2>2. /\ work'.changed = TRUE
          /\ work' \in [todo : SUBSET (DOMAIN config'), changed : BOOLEAN, tags : SUBSET Tags]
      BY <1>1, <2>1
    <2>3. config' \in Seq(Definition)
      BY DEF IInv, TypeOK
    <2>4. work' # NoWork
      BY <2>2, <2>3, EvaluationIsWork
    <2> QED BY <2>2, <2>4 DEF Current, Settled
  <1>3. CASE Keep(i)
    <2>1. /\ work' = [work EXCEPT !.todo = @ \ {i}, !.changed = @ \/ FALSE]
          /\ UNCHANGED <<config, active, history, disk, queue, panel, view, unsaved>>
      BY <1>3 DEF Keep, Done
    <2>2. work'.changed <=> work.changed
      BY <1>1, <2>1
    <2>3. work' \in [todo : SUBSET (DOMAIN config'), changed : BOOLEAN, tags : SUBSET Tags]
      BY <1>1, <2>1
    <2>4. config' \in Seq(Definition)
      BY DEF IInv, TypeOK
    <2>5. work' # NoWork
      BY <2>3, <2>4, EvaluationIsWork
    <2>6. Settled' => Settled
      BY <2>1, <2>2, <2>5, Zenon DEF Settled
    <2> QED BY <2>1, <2>6, CurrentUnchanged
  <1> QED BY <1>2, <1>3

(* A save that succeeds is followed by the broadcast of what it saved.     *)
LEMMA CurrentSaved ==
    ASSUME IInv, IInv', SaveState, Broadcast
    PROVE  Current'
  <1>1. disk'.state = SavedState'
    BY DEF SaveState, SavedState, IInv, TypeOK
  <1>2. queue' # <<>> /\ queue'[Len(queue')] = active'
    <2>1. queue \in Seq(SUBSET Instances) /\ active' \in SUBSET Instances
      BY DEF IInv, TypeOK
    <2> QED BY <2>1, AppendLast DEF Broadcast
  <1> QED BY <1>1, <1>2 DEF Current, Shown, SavedState

LEMMA CurrentFinish ==
    ASSUME IInv, IInv', Current, Finish \/ FinishSaveFails
    PROVE  Current'
  <1>1. CASE SaveState /\ Broadcast
    BY <1>1, CurrentSaved
  <1>2. CASE unsaved'
    BY <1>2 DEF Current, Settled
  <1>3. CASE ~work.changed /\ UNCHANGED <<disk, queue, unsaved>>
    <2>1. UNCHANGED <<active, history, panel, view>>
      BY DEF Finish, FinishSaveFails
    <2>2. Settled' => Settled
      BY <1>3 DEF Settled
    <2> QED BY <1>3, <2>1, <2>2, CurrentUnchanged
  <1> QED BY <1>1, <1>2, <1>3 DEF Finish, FinishSaveFails

LEMMA CurrentAck ==
    ASSUME IInv, IInv', Current, NEW c \in Clients,
           AckApply(c) \/ AckSaveFails(c) \/ AckAsked(c) \/ AckNothing(c) \/ AckEmit(c)
    PROVE  Current'
  <1>1. CASE AckApply(c)
    BY <1>1, CurrentSaved DEF AckApply
  <1>2. CASE AckSaveFails(c)
    BY <1>2 DEF AckSaveFails, Current, Settled
  <1>3. CASE AckAsked(c) \/ AckNothing(c) \/ AckEmit(c)
    <2>1. UNCHANGED <<active, history, disk, queue, panel, view, work, unsaved>>
      BY <1>3 DEF AckAsked, AckNothing, AckEmit
    <2> QED BY <2>1, CurrentUnchanged DEF Settled
  <1> QED BY <1>1, <1>2, <1>3

LEMMA CurrentPanel ==
    ASSUME IInv, Current, PanelRegister \/ PanelSnapshot \/ Deliver
    PROVE  Current'
  <1>1. UNCHANGED <<active, history, disk, work, unsaved>>
    BY DEF PanelRegister, PanelSnapshot, Deliver
  <1>2. queue \in Seq(SUBSET Instances) /\ panel \in {"off", "registered", "on"}
    BY DEF IInv, TypeOK
  <1>3. CASE PanelRegister
    BY <1>1, <1>3 DEF PanelRegister, Current, Shown, Settled, SavedState
  <1>4. CASE PanelSnapshot
    BY <1>1, <1>4 DEF PanelSnapshot, Current, Shown, Settled, SavedState
  <1>5. CASE Deliver
    <2>1. /\ queue # <<>> /\ queue' = Tail(queue) /\ panel' = panel
          /\ view' = IF panel = "off" THEN view ELSE Head(queue)
      BY <1>5 DEF Deliver
    <2>2. ASSUME queue[Len(queue)] = active
          PROVE  Shown'
      <3>1. Len(queue) \in Nat /\ Len(queue) # 0
        BY <1>2, <2>1
      <3>2. CASE Len(queue) = 1
        <4>1. Head(queue) = active /\ Tail(queue) = <<>>
          BY <1>2, <2>1, <2>2, <3>2
        <4> QED BY <1>1, <2>1, <4>1 DEF Shown
      <3>3. CASE Len(queue) # 1
        <4>1. Tail(queue) # <<>> /\ Tail(queue)[Len(Tail(queue))] = queue[Len(queue)]
          <5>1. Len(queue) > 1
            <6>1. \A n \in Nat : n # 0 /\ n # 1 => n > 1
              OBVIOUS
            <6> QED BY <3>1, <3>3, <6>1, Zenon
          <5> QED BY <1>2, <5>1, TailLast
        <4> QED BY <1>1, <2>1, <2>2, <4>1 DEF Shown
      <3> QED BY <3>2, <3>3
    <2> QED BY <1>1, <2>1, <2>2 DEF Current, Shown, Settled, SavedState
  <1> QED BY <1>3, <1>4, <1>5

LEMMA CurrentStep == IInv /\ IInv' /\ Current /\ [Next]_vars => Current'
  <1> SUFFICES ASSUME IInv, IInv', Current, [Next]_vars PROVE Current'
    OBVIOUS
  <1>1. ASSUME NEW t \in Tags, NEW v \in BOOLEAN, OnVariableChange(t, v) PROVE Current'
    BY <1>1, CurrentValue
  <1>2. ASSUME NEW t \in Tags, ReapplyDatasource(t) \/ Evict(t) PROVE Current'
    <2>1. /\ UNCHANGED <<active, history, disk, queue, panel, view, unsaved>>
          /\ work = NoWork
      BY <1>2 DEF ReapplyDatasource, Evict, LoopFree, Free
    <2> QED BY <2>1, CurrentUnchanged DEF Settled
  <1>3. ASSUME NEW i \in DOMAIN config, Fire(i) \/ Clear(i) \/ Keep(i) PROVE Current'
    BY <1>3, CurrentDone
  <1>4. CASE Finish \/ FinishSaveFails
    BY <1>4, CurrentFinish
  <1>5. ASSUME NEW cfg \in Drafts, SetConfig(cfg) \/ ReloadRead(cfg) PROVE Current'
    <2>1. /\ UNCHANGED <<active, history, work, queue, panel, view, unsaved>>
          /\ \E doc : disk' = [disk EXCEPT !.config = doc]
      BY <1>5 DEF SetConfig, ReloadRead
    <2>2. disk'.state = disk.state
      BY <2>1 DEF IInv, TypeOK
    <2> QED BY <2>1, <2>2, CurrentUnchanged DEF Settled
  <1>6. CASE ApplyConfig \/ UNCHANGED vars
    <2>1. UNCHANGED <<active, history, disk, work, queue, panel, view, unsaved>>
      BY <1>6 DEF ApplyConfig, vars
    <2> QED BY <2>1, CurrentUnchanged DEF Settled
  <1>7. ASSUME NEW c \in Clients,
               AckApply(c) \/ AckSaveFails(c) \/ AckAsked(c) \/ AckNothing(c) \/ AckEmit(c)
        PROVE  Current'
    BY <1>7, CurrentAck
  <1>8. CASE PanelRegister \/ PanelSnapshot \/ Deliver
    BY <1>8, CurrentPanel
  <1>9. CASE Restart
    BY <1>9 DEF Restart, Current, Shown, SavedState, IInv, TypeOK, States
  <1>10. ASSUME NEW t \in Tags, NEW v \in BOOLEAN, SeedCachedValues(t, v) PROVE Current'
    <2>1. UNCHANGED <<active, history, disk, work, queue, panel, view, unsaved>>
      BY <1>10 DEF SeedCachedValues
    <2> QED BY <2>1, CurrentUnchanged DEF Settled
  <1> QED BY <1>1, <1>2, <1>3, <1>4, <1>5, <1>6, <1>7, <1>8, <1>9, <1>10 DEF Next

(* A restart finds what the process knows whenever the lock is free and    *)
(* the last save did not fail: no alarm, acknowledgement or captured value *)
(* is lost in a crash (_save_state before the lock is let go).             *)
THEOREM SavedIsCurrent == Spec => []DiskIsCurrent
  <1>1. Init => IInv /\ Current
    BY InvInit, CurrentInit
  <1>2. IInv /\ Current /\ [Next]_vars => IInv' /\ Current'
    BY InvStep, CurrentStep
  <1>3. Current => DiskIsCurrent
    BY DEF Current, Settled, DiskIsCurrent, Free
  <1> QED BY <1>1, <1>2, <1>3, PTL DEF Spec

(* A connected display shows the active alarms once the queue of the event *)
(* loop is empty: every change that is saved is broadcast whole, and a     *)
(* display is registered before it gets its snapshot.                      *)
THEOREM ViewsAreCurrent == Spec => []ViewIsCurrent
  <1>1. Init => IInv /\ Current
    BY InvInit, CurrentInit
  <1>2. IInv /\ Current /\ [Next]_vars => IInv' /\ Current'
    BY InvStep, CurrentStep
  <1>3. Current => ViewIsCurrent
    BY DEF Current, Shown, Settled, ViewIsCurrent, Free
  <1> QED BY <1>1, <1>2, <1>3, PTL DEF Spec

-----------------------------------------------------------------------------
(***************************************************************************)
(* Alarms and their tags.  A definition counts as evaluated once its tag   *)
(* is no longer stale, or the present handler is evaluating that tag and   *)
(* is through with the definition.                                         *)
(***************************************************************************)
Evaluated(i) ==
    /\ config[i].trigger \in Tags
    /\ config[i].trigger \notin stale \/ (work # NoWork /\ config[i].trigger \in work.tags)
    /\ work # NoWork => i \notin work.todo
    /\ cache[config[i].trigger] # NoValue
    /\ \A j \in DOMAIN config : config[j].id = config[i].id => i = j

IsActive(alarm) == \E a \in active : a.alarm_id = alarm

Follow ==
    \A i \in DOMAIN config :
        Evaluated(i) => (IsActive(config[i].id) <=> Triggered(config[i]))

(* Steps after which no definition counts as evaluated: the cache is       *)
(* rebuilt, or every tag is stale again.                                   *)
LEMMA FollowFresh ==
    ASSUME work' = EvaluateCached(cache', config') \/ (stale' = Tags /\ work' = NoWork),
           config' \in Seq(Definition), cache' \in [Tags -> Values]
    PROVE  Follow'
  <1> SUFFICES ASSUME NEW i \in DOMAIN config', Evaluated(i)'
               PROVE  FALSE
    BY DEF Follow
  <1>1. config'[i].trigger \in Cached(cache')
    BY DEF Evaluated, Cached
  <1>2. CASE work' = EvaluateCached(cache', config')
    <2>1. i \in work'.todo /\ work' \in [todo : SUBSET (DOMAIN config'),
                                         changed : BOOLEAN, tags : SUBSET Tags]
      BY <1>1, <1>2 DEF EvaluateCached, Evaluation, Cached
    <2>2. work' # NoWork
      BY <2>1, EvaluationIsWork
    <2> QED BY <2>1, <2>2 DEF Evaluated
  <1>3. CASE stale' = Tags /\ work' = NoWork
    BY <1>3 DEF Evaluated
  <1> QED BY <1>2, <1>3

(* Steps that leave the values of evaluated tags and the active alarms as  *)
(* they are.                                                               *)
LEMMA FollowUnchanged ==
    ASSUME Follow, config' = config,
           \A alarm : IsActive(alarm)' <=> IsActive(alarm),
           \A i \in DOMAIN config :
              Evaluated(i)' => /\ Evaluated(i)
                               /\ cache'[config[i].trigger] = cache[config[i].trigger]
    PROVE  Follow'
  BY DEF Follow, Triggered

LEMMA FollowValue ==
    ASSUME IInv, IInv', Follow, NEW t \in Tags, NEW v \in BOOLEAN, OnVariableChange(t, v)
    PROVE  Follow'
  <1>1. /\ work = NoWork /\ cache' = [cache EXCEPT ![t] = v]
        /\ work'.todo = TriggeredBy(t) /\ work'.tags = {t}
        /\ UNCHANGED <<config, stale>>
    BY DEF OnVariableChange, LoopFree, Free, Evaluation
  <1>2. work' # NoWork
    <2>1. work' \in [todo : SUBSET (DOMAIN config'), changed : BOOLEAN, tags : SUBSET Tags]
      BY DEF OnVariableChange, Evaluation, TriggeredBy
    <2>2. config' \in Seq(Definition)
      BY DEF IInv, TypeOK
    <2> QED BY <2>1, <2>2, EvaluationIsWork
  <1>3. \A alarm : IsActive(alarm)' <=> IsActive(alarm)
    <2>1. \/ active' = active
          \/ active' = {Backfilled(a, t, v) : a \in active}
      BY DEF OnVariableChange
    <2>2. \A a \in active : Backfilled(a, t, v).alarm_id = a.alarm_id
      BY FilledOK DEF IInv, TypeOK
    <2> QED BY <2>1, <2>2 DEF IsActive
  <1>4. ASSUME NEW i \in DOMAIN config, Evaluated(i)'
        PROVE  Evaluated(i) /\ cache'[config[i].trigger] = cache[config[i].trigger]
    <2>1. config[i].trigger # t /\ config[i].trigger \in Tags
      BY <1>1, <1>2, <1>4 DEF Evaluated, TriggeredBy
    <2>2. cache'[config[i].trigger] = cache[config[i].trigger]
      BY <1>1, <2>1 DEF IInv, TypeOK
    <2> QED BY <1>1, <1>2, <1>4, <2>1, <2>2 DEF Evaluated
  <1> QED BY <1>1, <1>3, <1>4, FollowUnchanged

LEMMA FollowEvict ==
    ASSUME IInv, Follow, NEW t \in Tags, Evict(t)
    PROVE  Follow'
  <1>1. /\ work = NoWork /\ cache' = [cache EXCEPT ![t] = NoValue]
        /\ UNCHANGED <<config, active, work, stale>>
    BY DEF Evict, LoopFree, Free
  <1>2. ASSUME NEW i \in DOMAIN config, Evaluated(i)'
        PROVE  Evaluated(i) /\ cache'[config[i].trigger] = cache[config[i].trigger]
    <2>1. config[i].trigger # t /\ config[i].trigger \in Tags
      BY <1>1, <1>2 DEF Evaluated, IInv, TypeOK
    <2>2. cache'[config[i].trigger] = cache[config[i].trigger]
      BY <1>1, <2>1 DEF IInv, TypeOK
    <2> QED BY <1>1, <1>2, <2>2 DEF Evaluated
  <1> QED BY <1>1, <1>2, FollowUnchanged DEF IsActive

(* A tag whose value a read has replaced is not evaluated any more.        *)
LEMMA FollowSeed ==
    ASSUME IInv, Follow, NEW t \in Tags, NEW v \in BOOLEAN, SeedCachedValues(t, v)
    PROVE  Follow'
  <1>1. /\ work = NoWork /\ cache' = [cache EXCEPT ![t] = v]
        /\ stale' = stale \cup {t}
        /\ UNCHANGED <<config, active, work>>
    BY DEF SeedCachedValues, LoopFree, Free
  <1>2. ASSUME NEW i \in DOMAIN config, Evaluated(i)'
        PROVE  Evaluated(i) /\ cache'[config[i].trigger] = cache[config[i].trigger]
    <2>1. config[i].trigger # t /\ config[i].trigger \in Tags
      BY <1>1, <1>2 DEF Evaluated
    <2>2. cache'[config[i].trigger] = cache[config[i].trigger]
      BY <1>1, <2>1 DEF IInv, TypeOK
    <2> QED BY <1>1, <1>2, <2>2 DEF Evaluated
  <1> QED BY <1>1, <1>2, FollowUnchanged DEF IsActive

(* The definition that was evaluated follows its tag, and the others are   *)
(* left as they were: another alarm with an id of its own is none of its   *)
(* business.                                                               *)
LEMMA FollowDone ==
    ASSUME IInv, IInv', Follow, NEW i \in DOMAIN config, NEW changed \in BOOLEAN,
           work # NoWork, i \in work.todo, Done(i, changed),
           UNCHANGED <<config, cache, stale>>,
           IsActive(config[i].id)' <=> Triggered(config[i]),
           \A alarm : alarm # config[i].id => (IsActive(alarm)' <=> IsActive(alarm))
    PROVE  Follow'
  <1>1. work \in [todo : SUBSET (DOMAIN config), changed : BOOLEAN, tags : SUBSET Tags]
    BY DEF IInv, TypeOK
  <1>2. /\ work'.todo = work.todo \ {i} /\ work'.tags = work.tags
        /\ work' \in [todo : SUBSET (DOMAIN config'), changed : BOOLEAN, tags : SUBSET Tags]
    BY <1>1 DEF Done
  <1>3. work' # NoWork
    <2>1. config' \in Seq(Definition)
      BY DEF IInv, TypeOK
    <2> QED BY <1>2, <2>1, EvaluationIsWork
  <1>4. SUFFICES ASSUME NEW j \in DOMAIN config, Evaluated(j)'
                 PROVE  IsActive(config[j].id)' <=> Triggered(config[j])'
    BY DEF Follow
  <1>5. Triggered(config[j])' <=> Triggered(config[j])
    BY DEF Triggered
  <1>6. CASE j = i
    BY <1>5, <1>6
  <1>7. CASE j # i
    <2>1. Evaluated(j)
      BY <1>2, <1>3, <1>4, <1>7 DEF Evaluated
    <2>2. config[j].id # config[i].id
      BY <1>7, <2>1 DEF Evaluated
    <2> QED BY <1>5, <2>1, <2>2 DEF Follow
  <1> QED BY <1>6, <1>7

LEMMA FollowEvaluation ==
    ASSUME IInv, IInv', Follow, NEW i \in DOMAIN config, Fire(i) \/ Clear(i) \/ Keep(i)
    PROVE  Follow'
  <1>1. /\ work # NoWork /\ i \in work.todo
        /\ UNCHANGED <<config, cache, stale>>
    BY DEF Fire, Clear, Keep, NextUp
  <1>2. CASE Fire(i)
    <2> DEFINE d == config[i]
               fired == [id |-> SlugId(Root(d.id, d.code), UsedIds), alarm_id |-> d.id,
                         code |-> d.code, acked |-> ~d.ack_required, acked_by |-> Nobody,
                         values |-> [t \in d.values |-> cache[t]],
                         triggered_at |-> clock + 1]
    <2>1. PICK inst : inst.alarm_id = config[i].id /\ active' = active \cup {inst}
      <3>1. fired.alarm_id = config[i].id /\ active' = active \cup {fired}
        BY <1>2 DEF Fire
      <3> HIDE DEF fired
      <3> QED BY <3>1
    <2>2. Done(i, TRUE) /\ Triggered(config[i])
      BY <1>2 DEF Fire
    <2>3. /\ IsActive(config[i].id)' <=> Triggered(config[i])
          /\ \A alarm : alarm # config[i].id => (IsActive(alarm)' <=> IsActive(alarm))
      BY <1>1, <2>1, <2>2 DEF IsActive
    <2> QED BY <1>1, <2>2, <2>3, FollowDone
  <1>3. CASE Clear(i)
    <2>1. PICK inst \in ActiveOf(config[i].id) : active' = Without(inst)
      BY <1>3 DEF Clear
    <2>2. Done(i, TRUE) /\ ~Triggered(config[i])
      BY <1>3 DEF Clear
    <2>3. /\ inst \in active /\ inst.alarm_id = config[i].id
          /\ \A a \in active : a.alarm_id = config[i].id => a = inst
          /\ \A a \in active : a.id = inst.id => a = inst
      BY <2>1 DEF ActiveOf, IInv, Good, SavedState
    <2>4. /\ IsActive(config[i].id)' <=> Triggered(config[i])
          /\ \A alarm : alarm # config[i].id => (IsActive(alarm)' <=> IsActive(alarm))
      BY <1>1, <2>1, <2>2, <2>3 DEF IsActive, Without
    <2> QED BY <1>1, <2>2, <2>4, FollowDone
  <1>4. CASE Keep(i)
    <2>1. Done(i, FALSE) /\ active' = active
      BY <1>4 DEF Keep
    <2>2. IsActive(config[i].id) <=> Triggered(config[i])
      BY <1>4 DEF Keep, IsActive, ActiveOf
    <2> QED BY <1>1, <2>1, <2>2, FollowDone DEF IsActive
  <1> QED BY <1>2, <1>3, <1>4

LEMMA FollowStep == IInv /\ IInv' /\ Follow /\ [Next]_vars => Follow'
  <1> SUFFICES ASSUME IInv, IInv', Follow, [Next]_vars PROVE Follow'
    OBVIOUS
  <1> DEFINE Same == /\ UNCHANGED <<config, cache, work, stale>>
                     /\ \A alarm : IsActive(alarm)' <=> IsActive(alarm)
  <1>1. config' \in Seq(Definition) /\ cache' \in [Tags -> Values]
    BY DEF IInv, TypeOK
  <1>2. ASSUME Same PROVE Follow'
    BY <1>2, FollowUnchanged DEF Evaluated
  <1>3. ASSUME NEW t \in Tags, NEW v \in BOOLEAN, OnVariableChange(t, v) PROVE Follow'
    BY <1>3, FollowValue
  <1>4. ASSUME NEW t \in Tags, ReapplyDatasource(t) PROVE Follow'
    BY <1>1, <1>4, FollowFresh DEF ReapplyDatasource
  <1>5. ASSUME NEW t \in Tags, Evict(t) PROVE Follow'
    BY <1>5, FollowEvict
  <1>6. ASSUME NEW i \in DOMAIN config, Fire(i) \/ Clear(i) \/ Keep(i) PROVE Follow'
    BY <1>6, FollowEvaluation
  <1>7. CASE Finish \/ FinishSaveFails
    <2>1. /\ UNCHANGED <<config, active, cache>>
          /\ work # NoWork /\ work.todo = {}
          /\ work' = NoWork /\ stale' = stale \ work.tags
      BY <1>7 DEF Finish, FinishSaveFails
    <2> QED BY <2>1, FollowUnchanged DEF Evaluated, IsActive
  <1>8. ASSUME NEW cfg \in Drafts, SetConfig(cfg) PROVE Follow'
    BY <1>1, <1>8, FollowFresh DEF SetConfig, Rebuilt, Free
  <1>9. ASSUME NEW cfg \in Drafts, ReloadRead(cfg) PROVE Follow'
    BY <1>2, <1>9 DEF ReloadRead, IsActive
  <1>10. CASE ApplyConfig
    BY <1>1, <1>10, FollowFresh DEF ApplyConfig, Rebuilt, Free
  <1>11. ASSUME NEW c \in Clients, AckApply(c) \/ AckSaveFails(c) PROVE Follow'
    <2>1. /\ UNCHANGED <<config, cache, work, stale>>
          /\ active' = Acknowledged(ack[c].target, c)
      BY <1>11 DEF AckApply, AckSaveFails
    <2>2. /\ Unacked(ack[c].target) \subseteq active
          /\ \A a \in active : Acked(a, c).alarm_id = a.alarm_id
      BY AckedOK DEF Unacked, Reached, IInv, TypeOK
    <2>3. \A alarm : IsActive(alarm)' <=> IsActive(alarm)
      BY <2>1, <2>2 DEF IsActive, Acknowledged
    <2> QED BY <1>2, <2>1, <2>3
  <1>12. ASSUME NEW c \in Clients, AckAsked(c) \/ AckNothing(c) \/ AckEmit(c) PROVE Follow'
    BY <1>2, <1>12 DEF AckAsked, AckNothing, AckEmit, IsActive
  <1>13. CASE PanelRegister \/ PanelSnapshot \/ Deliver \/ UNCHANGED vars
    BY <1>2, <1>13 DEF PanelRegister, PanelSnapshot, Deliver, vars, IsActive
  <1>14. CASE Restart
    BY <1>1, <1>14, FollowFresh DEF Restart
  <1>15. ASSUME NEW t \in Tags, NEW v \in BOOLEAN, SeedCachedValues(t, v) PROVE Follow'
    BY <1>15, FollowSeed
  <1> QED BY <1>3, <1>4, <1>5, <1>6, <1>7, <1>8, <1>9, <1>10, <1>11, <1>12, <1>13,
             <1>14, <1>15 DEF Next

(* Once its tag has been evaluated under the present configuration, and    *)
(* unless a read of the tag has replaced its value since, an alarm with an *)
(* id of its own is active exactly while the cached value triggers it      *)
(* (_apply_trigger_value and its callers).                                 *)
THEOREM AlarmsFollowTags == Spec => []AlarmFollowsTag
  <1>1. Init => IInv /\ Follow
    <2> SUFFICES ASSUME Init, IInv, NEW i \in DOMAIN config, Evaluated(i) PROVE FALSE
      BY InvInit DEF Follow
    <2>1. stale = Tags /\ work = EvaluateCached(cache, config)
      BY DEF Init
    <2>2. i \in work.todo
      BY <2>1 DEF Evaluated, EvaluateCached, Evaluation, Cached
    <2> QED BY <2>1, <2>2 DEF Evaluated
  <1>2. IInv /\ Follow /\ [Next]_vars => IInv' /\ Follow'
    BY InvStep, FollowStep
  <1>3. Follow => AlarmFollowsTag
    BY DEF Follow, Evaluated, AlarmFollowsTag, Free, IsActive, ActiveOf
  <1> QED BY <1>1, <1>2, <1>3, PTL DEF Spec

-----------------------------------------------------------------------------
(***************************************************************************)
(* Occurrences.  What makes one is the tick it was triggered at: at most   *)
(* one occurrence of a state has it, the history is in the order of        *)
(* clearing, and no stamp is ahead of the clock.                           *)
(***************************************************************************)
Dated(st, tick) ==
    /\ \A a, b \in st.active : a.triggered_at = b.triggered_at => a = b
    /\ \A g, h \in DOMAIN st.history :
          st.history[g].triggered_at = st.history[h].triggered_at => g = h
    /\ \A a \in st.active, h \in DOMAIN st.history :
          a.triggered_at # st.history[h].triggered_at
    /\ \A g, h \in DOMAIN st.history :
          g < h => st.history[g].cleared_at > st.history[h].cleared_at
    /\ \A o \in Occurrences(st) : o.triggered_at <= tick
    /\ \A h \in DOMAIN st.history : st.history[h].cleared_at <= tick

(* The later record p of an occurrence o keeps what o said of it.          *)
Stands(o, p) ==
    /\ o.triggered_at = p.triggered_at
    /\ o.acked => p.acked /\ p.acked_by = o.acked_by
    /\ DOMAIN p.values = DOMAIN o.values
    /\ \A t \in DOMAIN o.values : o.values[t] # NoValue => p.values[t] = o.values[t]

Newer(now, old) ==
    \A h \in DOMAIN now.history, g \in DOMAIN old.history :
        now.history[h].cleared_at > old.history[g].cleared_at

(* The state now keeps what the saved state old says.  The third conjunct  *)
(* is what a trimmed history needs: whoever saw an alarm active saw it     *)
(* before it was cleared.                                                  *)
Keeps(old, now) ==
    /\ \A o \in old.active :
          \/ \E p \in Occurrences(now) : p.triggered_at = o.triggered_at
          \/ Len(now.history) = MaxHistory /\ Newer(now, old)
    /\ \A o \in Occurrences(old), p \in Occurrences(now) :
          o.triggered_at = p.triggered_at => Stands(o, p)
    /\ \A o \in old.active, h \in DOMAIN now.history :
          o.triggered_at = now.history[h].triggered_at =>
             \A g \in DOMAIN old.history :
                now.history[h].cleared_at > old.history[g].cleared_at

(* What one step, at this tick, does to the state in memory.               *)
Evolves(now, next, tick) ==
    /\ \A q \in Occurrences(next) :
          q.triggered_at > tick \/ \E p \in Occurrences(now) : Stands(p, q)
    /\ \A p \in Occurrences(now) :
          \/ \E q \in Occurrences(next) : q.triggered_at = p.triggered_at
          \/ /\ Len(next.history) = MaxHistory
             /\ \E g \in DOMAIN now.history :
                   /\ p = now.history[g]
                   /\ \A h \in DOMAIN next.history :
                         next.history[h].cleared_at > now.history[g].cleared_at
    /\ \A h \in DOMAIN next.history :
          \/ next.history[h].cleared_at > tick
          \/ \E g \in DOMAIN now.history : next.history[h] = now.history[g]
    /\ Len(next.history) >= Len(now.history)

LEMMA StandsTransitive ==
    ASSUME NEW o, NEW p, NEW q, Stands(o, p), Stands(p, q)
    PROVE  Stands(o, q)
  BY DEF Stands

(* What happens to an occurrence in memory takes back nothing of what the  *)
(* disk says.                                                              *)
LEMMA KeepsEvolves ==
    ASSUME NEW old \in States, NEW now \in States, NEW next \in States, NEW tick \in Nat,
           Len(next.history) <= MaxHistory,
           Dated(old, tick), Keeps(old, now), Evolves(now, next, tick)
    PROVE  Keeps(old, next)
  <1>1. /\ old.history \in Seq(Entries) /\ now.history \in Seq(Entries)
        /\ next.history \in Seq(Entries)
        /\ old.active \subseteq Instances /\ now.active \subseteq Instances
        /\ next.active \subseteq Instances
    BY DEF States
  <1>2. /\ \A g \in DOMAIN old.history : old.history[g].cleared_at \in Nat
        /\ \A g \in DOMAIN now.history : now.history[g].cleared_at \in Nat
        /\ \A g \in DOMAIN next.history : next.history[g].cleared_at \in Nat
    <2>1. \A e \in Entries : e.cleared_at \in Nat
      BY BoundsAssumption DEF Entries
    <2> QED BY <1>1, <2>1
  <1>3. /\ \A o \in Occurrences(old) : o.triggered_at \in Nat
        /\ \A o \in Occurrences(next) : o.triggered_at \in Nat
    <2>1. /\ \A e \in Entries : e.triggered_at \in Nat
          /\ \A i \in Instances : i.triggered_at \in Nat
      BY BoundsAssumption DEF Entries, Instances
    <2> QED BY <1>1, <2>1 DEF Occurrences
  <1>4. /\ \A o \in Occurrences(old) : o.triggered_at <= tick
        /\ \A g \in DOMAIN old.history : old.history[g].cleared_at <= tick
        /\ old.active \subseteq Occurrences(old)
    BY DEF Dated, Occurrences
  <1>5. ASSUME NEW o \in old.active
        PROVE  \/ \E q \in Occurrences(next) : q.triggered_at = o.triggered_at
               \/ Len(next.history) = MaxHistory /\ Newer(next, old)
    <2>1. CASE \E p \in Occurrences(now) : p.triggered_at = o.triggered_at
      <3>1. PICK p \in Occurrences(now) : p.triggered_at = o.triggered_at
        BY <2>1
      <3>2. CASE \E q \in Occurrences(next) : q.triggered_at = p.triggered_at
        BY <3>1, <3>2
      <3>3. CASE /\ Len(next.history) = MaxHistory
                 /\ \E g \in DOMAIN now.history :
                       /\ p = now.history[g]
                       /\ \A h \in DOMAIN next.history :
                             next.history[h].cleared_at > now.history[g].cleared_at
        <4>1. PICK g \in DOMAIN now.history :
                 /\ p = now.history[g]
                 /\ \A h \in DOMAIN next.history :
                       next.history[h].cleared_at > now.history[g].cleared_at
          BY <3>3
        <4>2. \A f \in DOMAIN old.history :
                 now.history[g].cleared_at > old.history[f].cleared_at
          BY <3>1, <4>1 DEF Keeps
        <4>3. Newer(next, old)
          BY <1>2, <4>1, <4>2 DEF Newer
        <4> QED BY <3>3, <4>3
      <3> QED BY <3>2, <3>3 DEF Evolves
    <2>2. CASE Len(now.history) = MaxHistory /\ Newer(now, old)
      <3>1. Len(next.history) = MaxHistory
        <4>1. Len(next.history) >= Len(now.history)
          BY DEF Evolves
        <4>2. Len(next.history) \in Nat /\ MaxHistory \in Nat
          BY <1>1, BoundsAssumption
        <4> QED BY <2>2, <4>1, <4>2
      <3>2. Newer(next, old)
        BY <1>2, <1>4, <2>2 DEF Newer, Evolves
      <3> QED BY <3>1, <3>2
    <2> QED BY <2>1, <2>2 DEF Keeps
  <1>6. ASSUME NEW o \in Occurrences(old), NEW q \in Occurrences(next),
               o.triggered_at = q.triggered_at
        PROVE  Stands(o, q)
    <2>1. ~(q.triggered_at > tick)
      BY <1>3, <1>4, <1>6
    <2>2. PICK p \in Occurrences(now) : Stands(p, q)
      BY <2>1 DEF Evolves
    <2>3. o.triggered_at = p.triggered_at
      BY <1>6, <2>2 DEF Stands
    <2>4. Stands(o, p)
      BY <2>3 DEF Keeps
    <2> QED BY <2>2, <2>4, StandsTransitive
  <1>7. ASSUME NEW o \in old.active, NEW h \in DOMAIN next.history,
               o.triggered_at = next.history[h].triggered_at,
               NEW g \in DOMAIN old.history
        PROVE  next.history[h].cleared_at > old.history[g].cleared_at
    <2>1. CASE next.history[h].cleared_at > tick
      BY <1>2, <1>4, <2>1
    <2>2. CASE \E k \in DOMAIN now.history : next.history[h] = now.history[k]
      BY <1>7, <2>2 DEF Keeps
    <2> QED BY <2>1, <2>2 DEF Evolves
  <1> QED BY <1>5, <1>6, <1>7 DEF Keeps

(* A state that has just been saved is what the disk says.                 *)
LEMMA KeepsItself ==
    ASSUME NEW st, NEW tick, Dated(st, tick)
    PROVE  Keeps(st, st)
  <1>1. \A o \in st.active : \E p \in Occurrences(st) : p.triggered_at = o.triggered_at
    BY DEF Occurrences
  <1>2. ASSUME NEW o \in Occurrences(st), NEW p \in Occurrences(st),
               o.triggered_at = p.triggered_at
        PROVE  Stands(o, p)
    <2>1. o = p
      BY <1>2 DEF Dated, Occurrences
    <2> QED BY <2>1 DEF Stands
  <1>3. \A o \in st.active, h \in DOMAIN st.history :
           o.triggered_at # st.history[h].triggered_at
    BY DEF Dated
  <1> QED BY <1>1, <1>2, <1>3 DEF Keeps

-----------------------------------------------------------------------------
(* What each kind of step does to the occurrences in memory.               *)

LEMMA StatesOK ==
    ASSUME TypeOK
    PROVE  /\ SavedState \in States /\ disk.state \in States
           /\ Len(SavedState.history) <= MaxHistory
           /\ Len(disk.state.history) <= MaxHistory
  BY DEF TypeOK, SavedState, States

LEMMA StampsAreNumbers ==
    ASSUME NEW st \in States
    PROVE  /\ st.active \subseteq Instances /\ st.history \in Seq(Entries)
           /\ \A o \in Occurrences(st) : o.triggered_at \in Nat
           /\ \A h \in DOMAIN st.history : /\ st.history[h].triggered_at \in Nat
                                           /\ st.history[h].cleared_at \in Nat
  <1>1. st.active \subseteq Instances /\ st.history \in Seq(Entries)
    BY DEF States
  <1>2. /\ \A e \in Entries : e.triggered_at \in Nat /\ e.cleared_at \in Nat
        /\ \A i \in Instances : i.triggered_at \in Nat
    BY BoundsAssumption DEF Entries, Instances
  <1> QED BY <1>1, <1>2 DEF Occurrences

LEMMA EvolvesUnchanged ==
    ASSUME NEW st \in States, NEW tick
    PROVE  Evolves(st, st, tick)
  <1>1. Len(st.history) \in Nat
    BY StampsAreNumbers
  <1>2. \A p \in Occurrences(st) : Stands(p, p)
    BY DEF Stands
  <1> QED BY <1>1, <1>2 DEF Evolves

(* Values are filled in, or alarms are acknowledged.                       *)
LEMMA EvolvesRevised ==
    ASSUME NEW now \in States, NEW next \in States, NEW tick \in Nat, Dated(now, tick),
           next.history = now.history,
           NEW g, next.active = {g[a] : a \in now.active},
           \A a \in now.active : Stands(a, g[a])
    PROVE  Evolves(now, next, tick) /\ Dated(next, tick)
  <1>1. \A a \in now.active : g[a].triggered_at = a.triggered_at
    BY DEF Stands
  <1>2. Evolves(now, next, tick)
    <2>1. ASSUME NEW q \in Occurrences(next)
          PROVE  \E p \in Occurrences(now) : Stands(p, q)
      <3>1. CASE q \in next.active
        BY <3>1 DEF Occurrences
      <3>2. CASE \E h \in DOMAIN now.history : q = now.history[h]
        BY <3>2 DEF Occurrences, Stands
      <3> QED BY <3>1, <3>2 DEF Occurrences
    <2>2. ASSUME NEW p \in Occurrences(now)
          PROVE  \E q \in Occurrences(next) : q.triggered_at = p.triggered_at
      BY <1>1 DEF Occurrences
    <2>3. Len(next.history) >= Len(now.history)
      <3>1. Len(now.history) \in Nat
        BY StampsAreNumbers
      <3> QED BY <3>1
    <2> QED BY <2>1, <2>2, <2>3 DEF Evolves
  <1>3. Dated(next, tick)
    BY <1>1 DEF Dated, Occurrences
  <1> QED BY <1>2, <1>3

LEMMA EvolvesFired ==
    ASSUME NEW now \in States, NEW next \in States, NEW tick \in Nat, Dated(now, tick),
           next.history = now.history,
           NEW inst, inst.triggered_at = tick + 1, next.active = now.active \cup {inst}
    PROVE  Evolves(now, next, tick) /\ Dated(next, tick + 1)
  <1>1. /\ \A o \in Occurrences(now) : o.triggered_at \in Nat /\ o.triggered_at <= tick
        /\ \A h \in DOMAIN now.history : /\ now.history[h].cleared_at \in Nat
                                         /\ now.history[h].cleared_at <= tick
    BY StampsAreNumbers DEF Dated
  <1>2. Occurrences(next) = Occurrences(now) \cup {inst}
    BY DEF Occurrences
  <1>3. Evolves(now, next, tick)
    <2>1. \A p \in Occurrences(now) : Stands(p, p)
      BY DEF Stands
    <2>2. Len(now.history) \in Nat
      BY StampsAreNumbers
    <2>3. inst.triggered_at > tick
      OBVIOUS
    <2>4. Len(next.history) >= Len(now.history)
      BY <2>2
    <2> QED BY <1>2, <2>1, <2>3, <2>4 DEF Evolves
  <1>4. Dated(next, tick + 1)
    <2>1. \A o \in Occurrences(now) : o.triggered_at # inst.triggered_at
      BY <1>1
    <2>2. \A o \in Occurrences(next) : o.triggered_at <= tick + 1
      BY <1>1, <1>2
    <2>3. \A h \in DOMAIN now.history : now.history[h].cleared_at <= tick + 1
      BY <1>1
    <2>4. /\ now.active \subseteq Occurrences(now)
          /\ \A h \in DOMAIN now.history : now.history[h] \in Occurrences(now)
      BY DEF Occurrences
    <2>5. \A a, b \in next.active : a.triggered_at = b.triggered_at => a = b
      BY <2>1, <2>4 DEF Dated
    <2>6. \A a \in next.active, h \in DOMAIN next.history :
             a.triggered_at # next.history[h].triggered_at
      BY <2>1, <2>4 DEF Dated
    <2> QED BY <2>2, <2>3, <2>5, <2>6 DEF Dated
  <1> QED BY <1>3, <1>4

(* The history with one more entry in front: it is as long as it may be,   *)
(* and what it loses is the oldest entry.                                  *)
LEMMA LongerHistory ==
    ASSUME NEW h \in Seq(Entries), Len(h) <= MaxHistory, NEW e \in Entries
    PROVE  LET after == Trimmed(<<e>> \o h)
           IN  /\ after \in Seq(Entries) /\ Len(after) \in Nat
               /\ DOMAIN after = 1..Len(after)
               /\ Len(after) = IF Len(h) = MaxHistory THEN MaxHistory ELSE Len(h) + 1
               /\ after[1] = e
               /\ \A n \in 2..Len(after) : after[n] = h[n - 1]
  <1> DEFINE longer == <<e>> \o h
             after == Trimmed(longer)
  <1>1. Len(h) \in Nat /\ MaxHistory \in Nat \ {0}
    BY BoundsAssumption
  <1>2. /\ longer \in Seq(Entries) /\ Len(longer) = Len(h) + 1
        /\ longer[1] = e
        /\ \A n \in 2..Len(longer) : longer[n] = h[n - 1]
    BY <1>1
  <1> HIDE DEF longer
  <1>3. CASE Len(h) = MaxHistory
    <2>1. after = SubSeq(longer, 1, MaxHistory)
      BY <1>1, <1>2, <1>3 DEF Trimmed
    <2>2. /\ after \in Seq(Entries) /\ Len(after) = MaxHistory
          /\ \A n \in 1..MaxHistory : after[n] = longer[n]
      BY <1>1, <1>2, <1>3, <2>1
    <2>3. DOMAIN after = 1..Len(after)
      BY <2>2
    <2> HIDE DEF after
    <2>4. after[1] = e /\ \A n \in 2..Len(after) : after[n] = h[n - 1]
      BY <1>1, <1>2, <1>3, <2>2
    <2>5. /\ after \in Seq(Entries) /\ Len(after) \in Nat
          /\ Len(after) = IF Len(h) = MaxHistory THEN MaxHistory ELSE Len(h) + 1
      BY <1>1, <1>3, <2>2
    <2> QED BY <2>3, <2>4, <2>5 DEF after, longer
  <1>4. CASE Len(h) # MaxHistory
    <2>1. after = longer
      BY <1>1, <1>2, <1>4 DEF Trimmed
    <2>2. DOMAIN longer = 1..Len(longer)
      BY <1>2
    <2> HIDE DEF after
    <2>3. /\ after \in Seq(Entries) /\ Len(after) \in Nat
          /\ DOMAIN after = 1..Len(after)
          /\ Len(after) = IF Len(h) = MaxHistory THEN MaxHistory ELSE Len(h) + 1
          /\ after[1] = e
          /\ \A n \in 2..Len(after) : after[n] = h[n - 1]
      BY <1>1, <1>2, <1>4, <2>1, <2>2
    <2> QED BY <2>3 DEF after, longer
  <1> QED BY <1>3, <1>4

LEMMA EvolvesCleared ==
    ASSUME NEW now \in States, NEW next \in States, NEW tick \in Nat, Dated(now, tick),
           Len(now.history) <= MaxHistory,
           NEW inst \in now.active, next.active = now.active \ {inst},
           NEW e \in Entries, Stands(inst, e), e.cleared_at = tick + 1,
           next.history = Trimmed(<<e>> \o now.history)
    PROVE  Evolves(now, next, tick) /\ Dated(next, tick + 1)
  <1> DEFINE len == Len(now.history)
             h2 == next.history
  <1>1. /\ now.history \in Seq(Entries) /\ len \in Nat /\ MaxHistory \in Nat \ {0}
        /\ DOMAIN now.history = 1..len
    BY BoundsAssumption, StampsAreNumbers
  <1>2. /\ h2 \in Seq(Entries) /\ Len(h2) \in Nat /\ DOMAIN h2 = 1..Len(h2)
        /\ Len(h2) = IF len = MaxHistory THEN MaxHistory ELSE len + 1
        /\ h2[1] = e
        /\ \A n \in 2..Len(h2) : h2[n] = now.history[n - 1]
    BY <1>1, LongerHistory
  <1>3. \A n \in DOMAIN h2 :
           \/ n = 1 /\ h2[n] = e
           \/ n \in 2..Len(h2) /\ n - 1 \in DOMAIN now.history /\ h2[n] = now.history[n - 1]
    BY <1>1, <1>2
  <1>4. /\ \A o \in Occurrences(now) : o.triggered_at \in Nat /\ o.triggered_at <= tick
        /\ \A h \in DOMAIN now.history : /\ now.history[h].cleared_at \in Nat
                                         /\ now.history[h].cleared_at <= tick
    BY StampsAreNumbers DEF Dated
  <1>5. /\ now.active \subseteq Occurrences(now)
        /\ \A h \in DOMAIN now.history : now.history[h] \in Occurrences(now)
        /\ next.active \subseteq Occurrences(next)
        /\ \A h \in DOMAIN h2 : h2[h] \in Occurrences(next)
    BY DEF Occurrences
  <1>6. e.triggered_at = inst.triggered_at
    BY DEF Stands
  <1>7. Evolves(now, next, tick)
    <2>1. ASSUME NEW q \in Occurrences(next)
          PROVE  \E p \in Occurrences(now) : Stands(p, q)
      <3>1. CASE q \in next.active
        BY <1>5, <3>1 DEF Stands
      <3>2. CASE \E n \in DOMAIN h2 : q = h2[n]
        <4>1. q = e \/ \E h \in DOMAIN now.history : q = now.history[h]
          BY <1>3, <3>2
        <4> QED BY <1>5, <4>1 DEF Stands
      <3> QED BY <3>1, <3>2 DEF Occurrences
    <2>2. ASSUME NEW p \in Occurrences(now)
          PROVE  \/ \E q \in Occurrences(next) : q.triggered_at = p.triggered_at
                 \/ /\ Len(h2) = MaxHistory
                    /\ \E g \in DOMAIN now.history :
                          /\ p = now.history[g]
                          /\ \A h \in DOMAIN h2 :
                                h2[h].cleared_at > now.history[g].cleared_at
      <3>1. CASE p \in now.active
        <4>1. CASE p = inst
          <5>1. 1 \in DOMAIN h2
            BY <1>1, <1>2
          <5> QED BY <1>2, <1>5, <1>6, <4>1, <5>1
        <4>2. CASE p # inst
          BY <1>5, <3>1, <4>2
        <4> QED BY <4>1, <4>2
      <3>2. CASE \E g \in DOMAIN now.history : p = now.history[g]
        <4>1. PICK g \in DOMAIN now.history : p = now.history[g]
          BY <3>2
        <4>2. CASE g + 1 \in DOMAIN h2
          <5>1. h2[g + 1] = now.history[g]
            BY <1>1, <1>2, <4>2
          <5> QED BY <1>5, <4>1, <4>2, <5>1
        <4>3. CASE g + 1 \notin DOMAIN h2
          <5>1. len = MaxHistory /\ g = len
            BY <1>1, <1>2, <4>3
          <5>2. ASSUME NEW h \in DOMAIN h2
                PROVE  h2[h].cleared_at > now.history[g].cleared_at
            <6>1. CASE h2[h] = e
              BY <1>4, <6>1
            <6>2. CASE h \in 2..Len(h2) /\ h - 1 \in DOMAIN now.history
                       /\ h2[h] = now.history[h - 1]
              <7>1. h - 1 < g
                BY <1>2, <5>1, <6>2
              <7> QED BY <6>2, <7>1 DEF Dated
            <6> QED BY <1>3, <6>1, <6>2
          <5> QED BY <1>2, <4>1, <5>1, <5>2
        <4> QED BY <4>2, <4>3
      <3> QED BY <3>1, <3>2 DEF Occurrences
    <2>3. \A n \in DOMAIN h2 : \/ h2[n].cleared_at > tick
                               \/ \E g \in DOMAIN now.history : h2[n] = now.history[g]
      BY <1>3
    <2>4. Len(h2) >= len
      BY <1>1, <1>2
    <2> QED BY <2>1, <2>2, <2>3, <2>4 DEF Evolves
  <1>8. Dated(next, tick + 1)
    <2>1. \A a, b \in next.active : a.triggered_at = b.triggered_at => a = b
      BY DEF Dated
    <2>2. \A h \in DOMAIN now.history : now.history[h].triggered_at # e.triggered_at
      BY <1>6 DEF Dated
    <2>3. \A g, h \in DOMAIN h2 : h2[g].triggered_at = h2[h].triggered_at => g = h
      <3>1. \A g, h \in DOMAIN now.history :
               now.history[g].triggered_at = now.history[h].triggered_at => g = h
        BY DEF Dated
      <3> SUFFICES ASSUME NEW g \in DOMAIN h2, NEW h \in DOMAIN h2,
                          h2[g].triggered_at = h2[h].triggered_at
                   PROVE  g = h
        OBVIOUS
      <3>2. \A n \in DOMAIN h2 : n # 1 => h2[n].triggered_at # e.triggered_at
        BY <1>3, <2>2
      <3>3. CASE g = 1 \/ h = 1
        BY <1>2, <3>2, <3>3
      <3>4. CASE g # 1 /\ h # 1
        <4>1. g - 1 = h - 1
          BY <1>3, <3>1, <3>4
        <4> QED BY <1>2, <4>1
      <3> QED BY <3>3, <3>4
    <2>4. \A a \in next.active, h \in DOMAIN h2 : a.triggered_at # h2[h].triggered_at
      <3>1. \A a \in next.active : a.triggered_at # e.triggered_at
        BY <1>6 DEF Dated
      <3>2. \A a \in next.active, h \in DOMAIN now.history :
               a.triggered_at # now.history[h].triggered_at
        BY DEF Dated
      <3> QED BY <1>3, <3>1, <3>2
    <2>5. \A g, h \in DOMAIN h2 : g < h => h2[g].cleared_at > h2[h].cleared_at
      <3>1. \A g, h \in DOMAIN now.history :
               g < h => now.history[g].cleared_at > now.history[h].cleared_at
        BY DEF Dated
      <3>2. \A g, h \in DOMAIN h2 : g < h => h \in 2..Len(h2) /\ h - 1 \in DOMAIN now.history
        BY <1>2, <1>3
      <3> SUFFICES ASSUME NEW g \in DOMAIN h2, NEW h \in DOMAIN h2, g < h
                   PROVE  h2[g].cleared_at > h2[h].cleared_at
        OBVIOUS
      <3>3. h \in 2..Len(h2) /\ h - 1 \in DOMAIN now.history /\ h2[h] = now.history[h - 1]
        BY <1>2, <3>2
      <3>4. CASE h2[g] = e
        BY <1>4, <3>3, <3>4
      <3>5. CASE g \in 2..Len(h2) /\ g - 1 \in DOMAIN now.history
                 /\ h2[g] = now.history[g - 1]
        <4>1. g - 1 < h - 1
          BY <1>2
        <4> QED BY <3>1, <3>3, <3>5, <4>1
      <3> QED BY <1>3, <3>4, <3>5
    <2>6. \A o \in Occurrences(next) : o.triggered_at <= tick + 1
      <3>1. inst.triggered_at \in Nat /\ inst.triggered_at <= tick
        BY <1>4, <1>5
      <3>2. \A o \in Occurrences(next) : o \in Occurrences(now) \/ o = e
        BY <1>3 DEF Occurrences
      <3> QED BY <1>4, <1>6, <3>1, <3>2
    <2>7. \A h \in DOMAIN h2 : h2[h].cleared_at <= tick + 1
      BY <1>3, <1>4
    <2> QED BY <2>1, <2>3, <2>4, <2>5, <2>6, <2>7 DEF Dated
  <1> QED BY <1>7, <1>8

-----------------------------------------------------------------------------
(* Every step but a restart makes the occurrences in memory evolve, and    *)
(* the clock keeps up with their stamps.                                   *)

LEMMA BothStates ==
    ASSUME IInv, IInv'
    PROVE  /\ SavedState \in States /\ SavedState' \in States
           /\ Len(SavedState.history) <= MaxHistory /\ Len(SavedState'.history) <= MaxHistory
           /\ disk.state \in States /\ disk'.state \in States
           /\ clock \in Nat
  <1>1. /\ SavedState \in States /\ disk.state \in States
        /\ Len(SavedState.history) <= MaxHistory
    BY StatesOK DEF IInv
  <1>2. clock \in Nat
    BY BoundsAssumption DEF IInv, TypeOK
  <1>3. /\ active' \subseteq Instances /\ history' \in Seq(Entries)
        /\ Len(history') <= MaxHistory
        /\ disk' \in [config : Seq(Definition), state : States]
    BY DEF IInv, TypeOK
  <1>4. SavedState' \in States /\ Len(SavedState'.history) <= MaxHistory
    BY <1>3 DEF SavedState, States
  <1>5. disk'.state \in States
    BY <1>3
  <1> QED BY <1>1, <1>2, <1>4, <1>5

LEMMA EvolvesValue ==
    ASSUME IInv, IInv', Dated(SavedState, clock),
           NEW t \in Tags, NEW v \in BOOLEAN, OnVariableChange(t, v)
    PROVE  Evolves(SavedState, SavedState', clock) /\ Dated(SavedState', clock)
  <1>1. /\ SavedState \in States /\ SavedState' \in States /\ clock \in Nat
        /\ UNCHANGED <<history, clock>>
    BY BothStates DEF OnVariableChange
  <1>2. CASE active' = active
    <2>1. SavedState' = SavedState
      BY <1>1, <1>2 DEF SavedState
    <2> QED BY <1>1, <2>1, EvolvesUnchanged
  <1>3. CASE active' = {Backfilled(a, t, v) : a \in active}
    <2> DEFINE g == [a \in active |-> Backfilled(a, t, v)]
    <2>1. ASSUME NEW a \in active
          PROVE  Stands(a, Backfilled(a, t, v))
      <3>1. a \in Instances
        BY DEF IInv, TypeOK
      <3>2. PICK ts \in SUBSET Tags : a.values \in [ts -> Values]
        BY <3>1 DEF Instances
      <3> QED BY <3>1, <3>2 DEF Backfilled, Stands, Instances
    <2>2. /\ SavedState.active = active /\ SavedState'.active = {g[a] : a \in active}
          /\ SavedState'.history = SavedState.history
          /\ \A a \in active : Stands(a, g[a])
      BY <1>1, <1>3, <2>1 DEF SavedState
    <2> HIDE DEF g
    <2> QED BY <1>1, <2>2, EvolvesRevised
  <1> QED BY <1>2, <1>3 DEF OnVariableChange

LEMMA EvolvesAck ==
    ASSUME IInv, IInv', Dated(SavedState, clock),
           NEW c \in Clients, NEW target,
           active' = Acknowledged(target, c), UNCHANGED <<history, clock>>
    PROVE  Evolves(SavedState, SavedState', clock) /\ Dated(SavedState', clock)
  <1> DEFINE g == [a \in active |-> IF a \in Unacked(target) THEN Acked(a, c) ELSE a]
  <1>1. SavedState \in States /\ SavedState' \in States /\ clock \in Nat
    BY BothStates
  <1>2. Unacked(target) \subseteq active
    BY DEF Unacked, Reached
  <1>3. ASSUME NEW a \in active
        PROVE  Stands(a, g[a])
    <2>1. a \in Instances
      BY DEF IInv, TypeOK
    <2>2. CASE a \in Unacked(target)
      <3>1. ~a.acked
        BY <2>2 DEF Unacked
      <3>2. Acked(a, c).triggered_at = a.triggered_at /\ Acked(a, c).values = a.values
        BY <2>1 DEF Acked, Instances
      <3> QED BY <2>2, <3>1, <3>2 DEF Stands
    <2>3. CASE a \notin Unacked(target)
      BY <2>3 DEF Stands
    <2> QED BY <2>2, <2>3
  <1>4. active' = {g[a] : a \in active}
    BY <1>2 DEF Acknowledged
  <1>5. /\ SavedState.active = active /\ SavedState'.active = active'
        /\ SavedState'.history = SavedState.history
    BY DEF SavedState
  <1> HIDE DEF g
  <1> QED BY <1>1, <1>3, <1>4, <1>5, EvolvesRevised

LEMMA EvolvesFire ==
    ASSUME IInv, IInv', Dated(SavedState, clock), NEW i \in DOMAIN config, Fire(i)
    PROVE  Evolves(SavedState, SavedState', clock) /\ Dated(SavedState', clock')
  <1> DEFINE d == config[i]
             inst == [id |-> SlugId(Root(d.id, d.code), UsedIds), alarm_id |-> d.id,
                      code |-> d.code, acked |-> ~d.ack_required, acked_by |-> Nobody,
                      values |-> [t \in d.values |-> cache[t]], triggered_at |-> clock + 1]
  <1>1. /\ inst.triggered_at = clock + 1 /\ active' = active \cup {inst}
        /\ history' = history /\ clock' = clock + 1
    BY DEF Fire
  <1> HIDE DEF inst
  <1>2. SavedState \in States /\ SavedState' \in States /\ clock \in Nat
    BY BothStates
  <1>3. /\ SavedState'.active = SavedState.active \cup {inst}
        /\ SavedState'.history = SavedState.history
    BY <1>1 DEF SavedState
  <1> QED BY <1>1, <1>2, <1>3, EvolvesFired

LEMMA EvolvesClear ==
    ASSUME IInv, IInv', Dated(SavedState, clock), NEW i \in DOMAIN config, Clear(i)
    PROVE  Evolves(SavedState, SavedState', clock) /\ Dated(SavedState', clock')
  <1>1. PICK inst \in ActiveOf(config[i].id) :
          LET entry == [id |-> SlugId(Root(inst.alarm_id, inst.code), UsedIds),
                        alarm_id |-> inst.alarm_id, code |-> inst.code,
                        acked |-> inst.acked, acked_by |-> inst.acked_by,
                        values |-> inst.values, triggered_at |-> inst.triggered_at,
                        cleared_at |-> clock + 1]
          IN  /\ active' = Without(inst)
              /\ history' = Trimmed(<<entry>> \o history)
    BY DEF Clear
  <1> DEFINE entry == [id |-> SlugId(Root(inst.alarm_id, inst.code), UsedIds),
                       alarm_id |-> inst.alarm_id, code |-> inst.code,
                       acked |-> inst.acked, acked_by |-> inst.acked_by,
                       values |-> inst.values, triggered_at |-> inst.triggered_at,
                       cleared_at |-> clock + 1]
  <1>2. /\ active' = Without(inst) /\ history' = Trimmed(<<entry>> \o history)
        /\ clock' = clock + 1
    BY <1>1 DEF Clear
  <1>3. inst \in Instances /\ inst \in active
    BY DEF IInv, TypeOK, ActiveOf
  <1>4. entry \in Entries
    <2>1. SlugId(Root(inst.alarm_id, inst.code), UsedIds) \in Ids
      <3>1. Root(inst.alarm_id, inst.code) \in Seq(Nat)
        BY <1>3, RootType DEF Instances
      <3> QED BY <3>1, UsedIdsFinite, SlugIdFresh DEF IInv
    <2>2. clock + 1 \in 1..MaxClock
      BY <1>2, BoundsAssumption DEF IInv, TypeOK
    <2> QED BY <1>3, <2>1, <2>2 DEF Instances, Entries
  <1>5. Stands(inst, entry) /\ entry.cleared_at = clock + 1
    BY DEF Stands
  <1> HIDE DEF entry
  <1>6. active' = active \ {inst}
    BY <1>2, <1>3 DEF Without, IInv, Good, SavedState
  <1>7. /\ SavedState \in States /\ SavedState' \in States /\ clock \in Nat
        /\ Len(SavedState.history) <= MaxHistory
    BY BothStates
  <1>8. /\ inst \in SavedState.active /\ SavedState'.active = SavedState.active \ {inst}
        /\ SavedState'.history = Trimmed(<<entry>> \o SavedState.history)
    BY <1>2, <1>3, <1>6 DEF SavedState
  <1> QED BY <1>2, <1>4, <1>5, <1>7, <1>8, EvolvesCleared

LEMMA MemoryEvolves ==
    ASSUME IInv, IInv', Dated(SavedState, clock), [Next]_vars, ~Restart
    PROVE  /\ Evolves(SavedState, SavedState', clock)
           /\ Dated(SavedState', clock')
           /\ clock' = clock \/ clock' = clock + 1
  <1>1. ASSUME UNCHANGED <<active, history, clock>>
        PROVE  Evolves(SavedState, SavedState', clock) /\ Dated(SavedState', clock')
    <2>1. SavedState' = SavedState /\ clock' = clock /\ SavedState \in States
      BY <1>1, StatesOK DEF SavedState, IInv
    <2> QED BY <2>1, EvolvesUnchanged
  <1>2. ASSUME NEW t \in Tags, NEW v \in BOOLEAN, OnVariableChange(t, v)
        PROVE  Evolves(SavedState, SavedState', clock) /\ Dated(SavedState', clock')
               /\ clock' = clock
    BY <1>2, EvolvesValue DEF OnVariableChange
  <1>3. ASSUME NEW i \in DOMAIN config, Fire(i)
        PROVE  Evolves(SavedState, SavedState', clock) /\ Dated(SavedState', clock')
               /\ clock' = clock + 1
    BY <1>3, EvolvesFire DEF Fire
  <1>4. ASSUME NEW i \in DOMAIN config, Clear(i)
        PROVE  Evolves(SavedState, SavedState', clock) /\ Dated(SavedState', clock')
               /\ clock' = clock + 1
    BY <1>4, EvolvesClear DEF Clear
  <1>5. ASSUME NEW c \in Clients, AckApply(c) \/ AckSaveFails(c)
        PROVE  Evolves(SavedState, SavedState', clock) /\ Dated(SavedState', clock')
               /\ clock' = clock
    <2>1. /\ active' = Acknowledged(ack[c].target, c)
          /\ UNCHANGED <<history, clock>>
      BY <1>5 DEF AckApply, AckSaveFails
    <2> QED BY <2>1, EvolvesAck
  <1>6. ASSUME NEW t \in Tags, NEW v \in BOOLEAN,
               ReapplyDatasource(t) \/ Evict(t) \/ SeedCachedValues(t, v)
        PROVE  UNCHANGED <<active, history, clock>>
    BY <1>6 DEF ReapplyDatasource, Evict, SeedCachedValues
  <1>7. ASSUME NEW i \in DOMAIN config, Keep(i)
        PROVE  UNCHANGED <<active, history, clock>>
    BY <1>7 DEF Keep
  <1>8. ASSUME NEW cfg \in Drafts, SetConfig(cfg) \/ ReloadRead(cfg)
        PROVE  UNCHANGED <<active, history, clock>>
    BY <1>8 DEF SetConfig, ReloadRead
  <1>9. ASSUME NEW c \in Clients, AckAsked(c) \/ AckNothing(c) \/ AckEmit(c)
        PROVE  UNCHANGED <<active, history, clock>>
    BY <1>9 DEF AckAsked, AckNothing, AckEmit
  <1>10. CASE \/ Finish \/ FinishSaveFails \/ ApplyConfig
              \/ PanelRegister \/ PanelSnapshot \/ Deliver \/ UNCHANGED vars
    <2>1. UNCHANGED <<active, history, clock>>
      BY <1>10 DEF Finish, FinishSaveFails, ApplyConfig, PanelRegister, PanelSnapshot,
                   Deliver, vars
    <2> QED BY <1>1, <2>1
  <1> QED BY <1>1, <1>2, <1>3, <1>4, <1>5, <1>6, <1>7, <1>8, <1>9, <1>10 DEF Next

(* The state on disk is only ever replaced by the one in memory.           *)
LEMMA DiskStep ==
    ASSUME IInv, [Next]_vars
    PROVE  disk'.state = disk.state \/ disk'.state = SavedState'
  <1>1. SaveState => disk'.state = SavedState'
    BY DEF SaveState, SavedState, IInv, TypeOK
  <1>2. \A doc : disk' = [disk EXCEPT !.config = doc] => disk'.state = disk.state
    BY DEF IInv, TypeOK
  <1> QED BY <1>1, <1>2
          DEF Next, vars, OnVariableChange, ReapplyDatasource, Evict, SeedCachedValues,
              Fire, Clear, Keep, Finish, FinishSaveFails, SetConfig, ReloadRead, ApplyConfig, AckAsked,
              AckApply, AckSaveFails, AckNothing, AckEmit, PanelRegister, PanelSnapshot,
              Deliver, Restart

-----------------------------------------------------------------------------
(***************************************************************************)
(* The claims of the operators.  A worker that has applied an              *)
(* acknowledgement and not emitted its event yet claims what the event     *)
(* will say.  No claim is ever taken back, in memory or on disk, and no    *)
(* two claims are about one occurrence.                                    *)
(***************************************************************************)
Emitting == {c \in Clients : ack[c].pc = "emit"}

Holds(who, ats, st, tick) ==
    /\ \A at \in ats : at <= tick
    /\ \A o \in Occurrences(st) : o.triggered_at \in ats => o.acked /\ o.acked_by = who

ClaimsHold(st, tick) ==
    /\ \A e \in trail : Holds(e.actor, e.ats, st, tick)
    /\ \A c \in Emitting : Holds(c, ack[c].ats, st, tick)

ClaimsApart ==
    /\ \A e, f \in trail : e.ats \cap f.ats # {} => e = f
    /\ \A c \in Emitting, e \in trail : ack[c].ats \cap e.ats = {}
    /\ \A c, d \in Emitting : ack[c].ats \cap ack[d].ats # {} => c = d

Claimed ==
    /\ ClaimsHold(SavedState, clock)
    /\ ClaimsHold(disk.state, clock)
    /\ ClaimsApart

Accounted ==
    /\ Dated(SavedState, clock)
    /\ Dated(disk.state, clock)
    /\ Keeps(disk.state, SavedState)
    /\ Claimed

LEMMA HoldsEvolves ==
    ASSUME NEW who, NEW ats, NEW now \in States, NEW next \in States,
           NEW tick \in Nat, NEW later \in {tick, tick + 1}, ats \subseteq Nat,
           Holds(who, ats, now, tick), Evolves(now, next, tick)
    PROVE  Holds(who, ats, next, later)
  <1>1. \A at \in ats : at \in Nat /\ at <= tick
    BY DEF Holds
  <1>2. \A at \in ats : at <= later
    BY <1>1
  <1>3. ASSUME NEW q \in Occurrences(next), q.triggered_at \in ats
        PROVE  q.acked /\ q.acked_by = who
    <2>1. ~(q.triggered_at > tick)
      <3>1. \A at \in Nat : at <= tick => ~(at > tick)
        OBVIOUS
      <3> QED BY <1>1, <1>3, <3>1, Zenon
    <2>2. PICK p \in Occurrences(now) : Stands(p, q)
      BY <2>1 DEF Evolves
    <2> QED BY <1>3, <2>2 DEF Stands, Holds
  <1> QED BY <1>2, <1>3 DEF Holds

LEMMA HoldsLater ==
    ASSUME NEW who, NEW ats, NEW st, NEW tick \in Nat, NEW later \in {tick, tick + 1},
           ats \subseteq Nat, Holds(who, ats, st, tick)
    PROVE  Holds(who, ats, st, later)
  BY DEF Holds

LEMMA DatedLater ==
    ASSUME NEW st \in States, NEW tick \in Nat, NEW later \in {tick, tick + 1},
           Dated(st, tick)
    PROVE  Dated(st, later)
  <1>1. /\ \A o \in Occurrences(st) : o.triggered_at \in Nat /\ o.triggered_at <= tick
        /\ \A h \in DOMAIN st.history : /\ st.history[h].cleared_at \in Nat
                                        /\ st.history[h].cleared_at <= tick
    BY StampsAreNumbers DEF Dated
  <1>2. /\ \A o \in Occurrences(st) : o.triggered_at <= later
        /\ \A h \in DOMAIN st.history : st.history[h].cleared_at <= later
    BY <1>1
  <1> QED BY <1>2 DEF Dated

LEMMA AccountedInit == Init => Accounted
  <1> SUFFICES ASSUME Init PROVE Accounted
    OBVIOUS
  <1>1. /\ SavedState = [active |-> {}, history |-> <<>>] /\ disk.state = SavedState
        /\ trail = {} /\ Emitting = {}
    BY DEF Init, SavedState, Emitting, Idle
  <1>2. SavedState.active = {} /\ DOMAIN SavedState.history = {}
    BY <1>1
  <1>3. Dated(SavedState, clock)
    BY <1>2 DEF Dated, Occurrences
  <1>4. Keeps(SavedState, SavedState)
    BY <1>3, KeepsItself
  <1>5. Claimed
    BY <1>1 DEF Claimed, ClaimsHold, ClaimsApart
  <1> QED BY <1>1, <1>3, <1>4, <1>5 DEF Accounted

(* What is claimed is of ticks.                                            *)
LEMMA ClaimsAreTicks ==
    ASSUME TypeOK
    PROVE  /\ \A e \in trail : e.ats \subseteq Nat
           /\ \A c \in Clients : ack[c].ats \subseteq Nat
  <1>1. 1..MaxClock \subseteq Nat
    BY BoundsAssumption
  <1>2. \A e \in trail : e.ats \in SUBSET (1..MaxClock)
    BY DEF TypeOK
  <1>3. \A c \in Clients : ack[c].ats \in SUBSET (1..MaxClock)
    BY DEF TypeOK, Acks
  <1> QED BY <1>1, <1>2, <1>3

(* Whatever happens to the occurrences, the claims made before stand.      *)
LEMMA ClaimsKept ==
    ASSUME IInv, IInv', Accounted, [Next]_vars,
           NEW st, st = SavedState' \/ st = disk'.state
    PROVE  ClaimsHold(st, clock')
  <1>1. /\ SavedState \in States /\ SavedState' \in States /\ clock \in Nat
        /\ disk.state \in States
    BY BothStates
  <1>2. clock' \in {clock, clock + 1}
    <2>1. CASE Restart
      BY <2>1 DEF Restart
    <2>2. CASE ~Restart
      BY <2>2, MemoryEvolves DEF Accounted
    <2> QED BY <2>1, <2>2
  <1>3. st = disk.state \/ (st = SavedState' /\ ~Restart)
    <2>1. Restart => SavedState' = disk.state /\ disk'.state = disk.state
      BY <1>1 DEF Restart, SavedState, States
    <2> QED BY <2>1, DiskStep
  <1>4. ASSUME NEW who, NEW ats, ats \subseteq Nat,
               Holds(who, ats, SavedState, clock), Holds(who, ats, disk.state, clock)
        PROVE  Holds(who, ats, st, clock')
    <2>1. CASE st = disk.state
      BY <1>1, <1>2, <1>4, <2>1, HoldsLater
    <2>2. CASE st = SavedState' /\ ~Restart
      <3>1. Evolves(SavedState, SavedState', clock)
        BY <2>2, MemoryEvolves DEF Accounted
      <3> QED BY <1>1, <1>2, <1>4, <2>2, <3>1, HoldsEvolves
    <2> QED BY <1>3, <2>1, <2>2
  <1>5. /\ \A e \in trail : e.ats \subseteq Nat
        /\ \A c \in Clients : ack[c].ats \subseteq Nat
    BY ClaimsAreTicks DEF IInv
  <1>6. Emitting \subseteq Clients
    BY DEF Emitting
  <1> QED BY <1>4, <1>5, <1>6 DEF ClaimsHold, Accounted, Claimed

(* The one action that makes a claim: it takes occurrences that nobody     *)
(* has claimed, in memory and, with the same lock, on disk.                *)
LEMMA NewClaim ==
    ASSUME IInv, IInv', Accounted, NEW c \in Clients, AckApply(c)
    PROVE  /\ trail' = trail
           /\ ack' = [ack EXCEPT ![c] = ack'[c]] /\ ack'[c].pc = "emit"
           /\ Holds(c, ack'[c].ats, SavedState', clock)
           /\ disk'.state = SavedState' /\ clock' = clock
           /\ \A e \in trail : ack'[c].ats \cap e.ats = {}
           /\ \A d \in Emitting : ack'[c].ats \cap ack[d].ats = {}
  <1> DEFINE target == ack[c].target
             taken == {inst.triggered_at : inst \in Unacked(target)}
  <1>1. /\ active' = Acknowledged(target, c) /\ history' = history /\ clock' = clock
        /\ trail' = trail /\ SaveState
        /\ ack' = [ack EXCEPT ![c].pc = "emit", ![c].ats = taken]
        /\ ack[c].pc = "asked"
    BY DEF AckApply
  <1>2. /\ ack \in [Clients -> Acks] /\ active \subseteq Instances
    BY DEF IInv, TypeOK
  <1>3. /\ ack' = [ack EXCEPT ![c] = ack'[c]] /\ ack'[c].pc = "emit" /\ ack'[c].ats = taken
    BY <1>1, <1>2 DEF Acks
  <1>4. disk'.state = SavedState'
    BY <1>1 DEF SaveState, SavedState, IInv, TypeOK
  <1>5. Unacked(target) \subseteq active /\ \A o \in Unacked(target) : ~o.acked
    BY DEF Unacked, Reached
  <1>6. /\ active \subseteq Occurrences(SavedState)
        /\ \A h \in DOMAIN history : history[h] \in Occurrences(SavedState)
        /\ \A o \in Occurrences(SavedState) : o \in active \/ \E h \in DOMAIN history : o = history[h]
    BY DEF Occurrences, SavedState
  <1>7. ASSUME NEW o \in Occurrences(SavedState'), o.triggered_at \in taken
        PROVE  o.acked /\ o.acked_by = c
    <2>1. PICK inst \in Unacked(target) : o.triggered_at = inst.triggered_at
      BY <1>7
    <2>2. inst \in active
      BY <1>5
    <2>3. CASE \E a \in Unacked(target) : o = Acked(a, c)
      <3>1. PICK a \in Unacked(target) : o = Acked(a, c)
        BY <2>3
      <3>2. a \in Instances
        BY <1>2, <1>5
      <3> QED BY <3>1, <3>2 DEF Acked, Instances
    <2>4. CASE o \in active \ Unacked(target)
      <3>1. o = inst
        BY <2>1, <2>2, <2>4 DEF Accounted, Dated, SavedState
      <3> QED BY <2>1, <2>4, <3>1
    <2>5. CASE \E h \in DOMAIN history : o = history[h]
      <3>1. \A h \in DOMAIN history : inst.triggered_at # history[h].triggered_at
        BY <2>2 DEF Accounted, Dated, SavedState
      <3> QED BY <2>1, <2>5, <3>1
    <2> QED BY <1>1, <2>3, <2>4, <2>5 DEF Occurrences, SavedState, Acknowledged
  <1>8. \A at \in taken : at <= clock
    BY <1>5, <1>6 DEF Accounted, Dated
  <1>9. Holds(c, ack'[c].ats, SavedState', clock)
    BY <1>3, <1>7, <1>8 DEF Holds
  <1>10. ASSUME NEW who, NEW ats, Holds(who, ats, SavedState, clock)
         PROVE  taken \cap ats = {}
    BY <1>5, <1>6, <1>10 DEF Holds
  <1>11. /\ \A e \in trail : ack'[c].ats \cap e.ats = {}
         /\ \A d \in Emitting : ack'[c].ats \cap ack[d].ats = {}
    BY <1>3, <1>10 DEF Accounted, Claimed, ClaimsHold
  <1> QED BY <1>1, <1>3, <1>4, <1>9, <1>11

(* A worker that is through, whose request came to nothing, or that is     *)
(* lost with the process, claims nothing more.                             *)
LEMMA FewerClaims ==
    ASSUME IInv, IInv', Accounted, [Next]_vars, trail' = trail,
           \A c \in Emitting' : c \in Emitting /\ ack'[c].ats = ack[c].ats
    PROVE  Claimed'
  <1>1. ClaimsHold(SavedState', clock') /\ ClaimsHold(disk'.state, clock')
    BY ClaimsKept
  <1>2. ClaimsHold(SavedState, clock)' /\ ClaimsHold(disk.state, clock)'
    BY <1>1 DEF ClaimsHold
  <1>3. ClaimsApart'
    BY DEF ClaimsApart, Accounted, Claimed
  <1> QED BY <1>2, <1>3 DEF Claimed

LEMMA ClaimedStep ==
    ASSUME IInv, IInv', Accounted, [Next]_vars
    PROVE  Claimed'
  <1>1. ack \in [Clients -> Acks] /\ ack' \in [Clients -> Acks]
    BY DEF IInv, TypeOK
  <1>2. CASE trail' = trail /\ ack' = ack
    BY <1>2, FewerClaims DEF Emitting
  <1>3. ASSUME NEW c \in Clients, NEW a, ack' = [ack EXCEPT ![c] = a], a.pc # "emit",
               trail' = trail
        PROVE  Claimed'
    <2>1. \A d \in Emitting' : d \in Emitting /\ ack'[d].ats = ack[d].ats
      BY <1>1, <1>3 DEF Emitting
    <2> QED BY <1>3, <2>1, FewerClaims
  <1>4. ASSUME NEW c \in Clients, AckAsked(c) \/ AckNothing(c) \/ AckSaveFails(c)
        PROVE  Claimed'
    <2>1. trail' = trail
      BY <1>4 DEF AckAsked, AckNothing, AckSaveFails
    <2>2. \E a : ack' = [ack EXCEPT ![c] = a] /\ a.pc # "emit"
      <3>1. Idle.pc # "emit"
        BY DEF Idle
      <3>2. \A i : [pc |-> "asked", target |-> i, ats |-> {}].pc # "emit"
        OBVIOUS
      <3> QED BY <1>4, <3>1, <3>2, Zenon DEF AckAsked, AckNothing, AckSaveFails
    <2> QED BY <1>3, <2>1, <2>2
  <1>5. ASSUME NEW c \in Clients, AckApply(c)
        PROVE  Claimed'
    <2>1. /\ trail' = trail
          /\ ack' = [ack EXCEPT ![c] = ack'[c]] /\ ack'[c].pc = "emit"
          /\ Holds(c, ack'[c].ats, SavedState', clock)
          /\ disk'.state = SavedState' /\ clock' = clock
          /\ \A e \in trail : ack'[c].ats \cap e.ats = {}
          /\ \A d \in Emitting : ack'[c].ats \cap ack[d].ats = {}
      BY <1>5, NewClaim
    <2>2. \A d \in Emitting' : d # c => d \in Emitting /\ ack'[d].ats = ack[d].ats
      BY <1>1, <2>1 DEF Emitting
    <2>3. ClaimsHold(SavedState', clock)
      BY <2>1, ClaimsKept
    <2>4. ack[c].pc # "emit"
      BY <1>5 DEF AckApply
    <2>5. ClaimsHold(SavedState, clock)'
      <3>1. \A e \in trail' : Holds(e.actor, e.ats, SavedState', clock')
        BY <2>1, <2>3 DEF ClaimsHold
      <3>2. \A d \in Emitting' : Holds(d, ack'[d].ats, SavedState', clock')
        BY <2>1, <2>2, <2>3 DEF ClaimsHold
      <3> QED BY <3>1, <3>2 DEF ClaimsHold
    <2>6. ClaimsApart'
      <3>1. \A e, f \in trail' : e.ats \cap f.ats # {} => e = f
        BY <2>1 DEF ClaimsApart, Accounted, Claimed
      <3>2. \A d \in Emitting', e \in trail' : ack'[d].ats \cap e.ats = {}
        BY <2>1, <2>2 DEF ClaimsApart, Accounted, Claimed
      <3>3. \A d, f \in Emitting' : ack'[d].ats \cap ack'[f].ats # {} => d = f
        BY <2>1, <2>2 DEF ClaimsApart, Accounted, Claimed
      <3> QED BY <3>1, <3>2, <3>3 DEF ClaimsApart
    <2>7. ClaimsHold(disk.state, clock)'
      BY <2>1, <2>5 DEF ClaimsHold
    <2> QED BY <2>5, <2>6, <2>7 DEF Claimed
  <1>6. ASSUME NEW c \in Clients, AckEmit(c)
        PROVE  Claimed'
    <2> DEFINE new == [actor |-> c, subject |-> ack[c].target, ats |-> ack[c].ats]
    <2>1. /\ c \in Emitting /\ trail' = trail \cup {new}
          /\ ack' = [ack EXCEPT ![c] = Idle]
      BY <1>6 DEF AckEmit, Emitting
    <2>2. /\ \A d \in Emitting' : d # c /\ d \in Emitting /\ ack'[d].ats = ack[d].ats
          /\ new.actor = c /\ new.ats = ack[c].ats
      BY <1>1, <2>1 DEF Emitting, Idle
    <2> HIDE DEF new
    <2>3. ASSUME NEW st, ClaimsHold(st, clock')
          PROVE  /\ \A e \in trail' : Holds(e.actor, e.ats, st, clock')
                 /\ \A d \in Emitting' : Holds(d, ack'[d].ats, st, clock')
      BY <2>1, <2>2, <2>3 DEF ClaimsHold
    <2>4. ClaimsHold(SavedState', clock') /\ ClaimsHold(disk'.state, clock')
      BY ClaimsKept
    <2>5. ClaimsHold(SavedState, clock)' /\ ClaimsHold(disk.state, clock)'
      BY <2>3, <2>4 DEF ClaimsHold
    <2>6. ClaimsApart'
      <3>1. ClaimsApart
        BY DEF Accounted, Claimed
      <3>2. \A e, f \in trail' : e.ats \cap f.ats # {} => e = f
        BY <2>1, <2>2, <3>1 DEF ClaimsApart
      <3>3. \A d \in Emitting', e \in trail' : ack'[d].ats \cap e.ats = {}
        BY <2>1, <2>2, <3>1 DEF ClaimsApart
      <3>4. \A d, f \in Emitting' : ack'[d].ats \cap ack'[f].ats # {} => d = f
        BY <2>2, <3>1 DEF ClaimsApart
      <3> QED BY <3>2, <3>3, <3>4 DEF ClaimsApart
    <2> QED BY <2>5, <2>6 DEF Claimed
  <1>7. CASE Restart
    <2>1. trail' = trail /\ Emitting' = {}
      BY <1>7 DEF Restart, Emitting, Idle
    <2> QED BY <2>1, FewerClaims
  <1> QED BY <1>2, <1>4, <1>5, <1>6, <1>7
          DEF Next, vars, OnVariableChange, ReapplyDatasource, Evict, SeedCachedValues,
              Fire, Clear, Keep, Finish, FinishSaveFails, SetConfig, ReloadRead, ApplyConfig,
              PanelRegister, PanelSnapshot, Deliver

LEMMA AccountedStep == IInv /\ IInv' /\ Accounted /\ [Next]_vars => Accounted'
  <1> SUFFICES ASSUME IInv, IInv', Accounted, [Next]_vars PROVE Accounted'
    OBVIOUS
  <1>1. /\ SavedState \in States /\ SavedState' \in States /\ clock \in Nat
        /\ disk.state \in States /\ disk'.state \in States
        /\ Len(SavedState'.history) <= MaxHistory
    BY BothStates
  <1>2. Claimed'
    BY ClaimedStep
  <1>3. /\ Dated(SavedState', clock') /\ Dated(disk'.state, clock')
        /\ Keeps(disk'.state, SavedState')
    <2>1. CASE Restart
      <3>1. SavedState' = disk.state /\ disk'.state = disk.state /\ clock' = clock
        BY <1>1, <2>1 DEF Restart, SavedState, States
      <3> QED BY <3>1, KeepsItself DEF Accounted
    <2>2. CASE ~Restart
      <3>1. /\ Evolves(SavedState, SavedState', clock)
            /\ Dated(SavedState', clock')
            /\ clock' \in {clock, clock + 1}
        BY <2>2, MemoryEvolves DEF Accounted
      <3>2. CASE disk'.state = disk.state
        <4>1. Dated(disk.state, clock')
          BY <1>1, <3>1, DatedLater DEF Accounted
        <4>2. Keeps(disk.state, SavedState')
          BY <1>1, <3>1, KeepsEvolves DEF Accounted
        <4> QED BY <3>1, <3>2, <4>1, <4>2
      <3>3. CASE disk'.state = SavedState'
        BY <3>1, <3>3, KeepsItself
      <3> QED BY <3>2, <3>3, DiskStep
    <2> QED BY <2>1, <2>2
  <1>4. Dated(SavedState, clock)' /\ Dated(disk.state, clock)' /\ Keeps(disk.state, SavedState)'
    BY <1>3
  <1> QED BY <1>2, <1>4 DEF Accounted

(* The audit trail and the state name the same operator for an occurrence, *)
(* and no two events speak of one, through ack_all, failed saves and       *)
(* restarts between the save and the event (ack_alarm, ack_all).           *)
THEOREM TrailsAgree == Spec => []TrailAgrees
  <1>1. Init => IInv /\ Accounted
    BY InvInit, AccountedInit
  <1>2. IInv /\ Accounted /\ [Next]_vars => IInv' /\ Accounted'
    BY InvStep, AccountedStep
  <1>3. Accounted => TrailAgrees
    BY DEF Accounted, Claimed, ClaimsHold, ClaimsApart, Holds, TrailAgrees
  <1> QED BY <1>1, <1>2, <1>3, PTL DEF Spec

(* What the disk says of an occurrence stands: an active alarm is next     *)
(* active or in the history unless later ones filled it, its operator      *)
(* stays, and its captured values are never replaced (_clear_alarm,        *)
(* ack_alarm, _backfill_values, _save_state).                              *)
THEOREM DiskStands == Spec => OccurrencesStand
  <1> DEFINE Standing ==
        LET now == disk'.state IN
        /\ \A o \in disk.state.active : Kept(o, now)
        /\ \A o \in Occurrences(disk.state), p \in Occurrences(now) :
              o.triggered_at = p.triggered_at =>
                 /\ o.acked => p.acked /\ p.acked_by = o.acked_by
                 /\ DOMAIN p.values = DOMAIN o.values
                 /\ \A t \in DOMAIN o.values :
                       o.values[t] # NoValue => p.values[t] = o.values[t]
  <1>1. Init => IInv /\ Accounted
    BY InvInit, AccountedInit
  <1>2. IInv /\ Accounted /\ [Next]_vars => IInv' /\ Accounted'
    BY InvStep, AccountedStep
  <1>3. IInv /\ Accounted /\ [Next]_vars => Standing
    <2> SUFFICES ASSUME IInv, IInv', Accounted, Accounted', [Next]_vars PROVE Standing
      BY <1>2
    <2>1. Keeps(disk.state, disk'.state)
      <3>1. CASE disk'.state = disk.state
        BY <3>1, KeepsItself DEF Accounted
      <3>2. CASE disk'.state = SavedState' /\ ~Restart
        <4>1. Evolves(SavedState, SavedState', clock)
          BY <3>2, MemoryEvolves DEF Accounted
        <4>2. Keeps(disk.state, SavedState')
          BY <4>1, BothStates, KeepsEvolves DEF Accounted
        <4> QED BY <3>2, <4>2
      <3>3. Restart => disk'.state = disk.state
        BY DEF Restart
      <3> QED BY <3>1, <3>2, <3>3, DiskStep
    <2> QED BY <2>1 DEF Keeps, Newer, Kept, Stands
  <1>4. IInv /\ Accounted /\ [Next]_vars => [Standing]_vars
    BY <1>3
  <1> HIDE DEF Standing
  <1>5. Spec => [][Standing]_vars
    BY <1>1, <1>2, <1>4, PTL DEF Spec
  <1> QED BY <1>5 DEF Standing, OccurrencesStand
=============================================================================
