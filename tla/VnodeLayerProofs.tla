-------------------------- MODULE VnodeLayerProofs --------------------------
(***************************************************************************)
(* The vnode layer keeps its inductive invariant IInv for every number of  *)
(* threads, vnodes, ids and references, provided an id is not handed out   *)
(* again while a vnode still stands for it.                                *)
(***************************************************************************)
EXTENDS VnodeLayer, FiniteSetTheorems, TLAPS

\* The sets of references are finite.
LEMMA RefSetsFinite ==
    ASSUME NEW v
    PROVE  /\ IsFiniteSet(HeldRefs(v)) /\ Cardinality(HeldRefs(v)) \in Nat
           /\ IsFiniteSet(DyingRefs(v)) /\ Cardinality(DyingRefs(v)) \in Nat
<1>1. IsFiniteSet(Handles)
  BY VnodeAssumption, FS_Product DEF Handles
<1>2. IsFiniteSet(HeldRefs(v))
  BY <1>1, FS_Subset DEF HeldRefs
<1>3. IsFiniteSet(DyingRefs(v))
  BY VnodeAssumption, FS_Subset DEF DyingRefs
<1> QED
  BY <1>2, <1>3, FS_CardinalityType

\* A reference that is held, or is being dropped, is counted.
LEMMA RefsCounted ==
    ASSUME IInv
    PROVE  /\ \A h \in Handles : ref[h] # NoVnode =>
                 /\ ref[h] \in Vnodes /\ rcnt[ref[h]] > 0
                 /\ inlist[ref[h]] = "LOCKED" /\ ~busy[ref[h]]
                 /\ vnid[ref[h]] \in Ids
           /\ \A t \in Threads : pc[t] = "dec" =>
                 /\ tvn[t] \in Vnodes /\ rcnt[tvn[t]] > 0
                 /\ inlist[tvn[t]] = "LOCKED" /\ ~busy[tvn[t]]
                 /\ vnid[tvn[t]] \in Ids
<1>1. ASSUME NEW v \in Vnodes, HeldRefs(v) # {} \/ DyingRefs(v) # {}
      PROVE  rcnt[v] > 0
  <2>1. Cardinality(HeldRefs(v)) # 0 \/ Cardinality(DyingRefs(v)) # 0
    BY <1>1, RefSetsFinite, FS_EmptySet
  <2> QED
    BY <2>1, RefSetsFinite DEF IInv, RefCountExact
<1>2. ASSUME NEW v \in Vnodes, rcnt[v] > 0
      PROVE  inlist[v] = "LOCKED" /\ ~busy[v] /\ vnid[v] \in Ids
  BY <1>2 DEF IInv, TypeOK, Lists, ListsTellTruth
<1>3. \A h \in Handles : ref[h] # NoVnode =>
          ref[h] \in Vnodes /\ h \in HeldRefs(ref[h])
  BY DEF IInv, TypeOK, HeldRefs
<1>4. \A t \in Threads : pc[t] = "dec" =>
          tvn[t] \in Vnodes /\ t \in DyingRefs(tvn[t])
  BY DEF IInv, CallsTellTruth, DyingRefs
<1> QED
  BY <1>1, <1>2, <1>3, <1>4

-----------------------------------------------------------------------------
(***************************************************************************)
(* How a step may change the references and keep the counts exact.         *)
(***************************************************************************)
\* It changes neither counts nor references.
LEMMA CountsKept ==
    ASSUME RefCountExact, rcnt' = rcnt, ref' = ref,
           \A v \in Vnodes : DyingRefs(v)' = DyingRefs(v)
    PROVE  RefCountExact'
<1>1. \A v \in Vnodes : HeldRefs(v)' = HeldRefs(v)
  BY DEF HeldRefs
<1> QED
  BY <1>1 DEF RefCountExact

\* It hands out one reference.
LEMMA CountsAdd ==
    ASSUME TypeOK, RefCountExact, NEW h \in Handles, NEW v \in Vnodes,
           ref[h] = NoVnode, ref' = [ref EXCEPT ![h] = v],
           rcnt' = [rcnt EXCEPT ![v] = rcnt[v] + 1],
           \A w \in Vnodes : DyingRefs(w)' = DyingRefs(w)
    PROVE  RefCountExact'
<1>1. h \notin HeldRefs(v) /\ HeldRefs(v)' = HeldRefs(v) \cup {h}
  BY VnodeAssumption DEF HeldRefs, TypeOK
<1>2. Cardinality(HeldRefs(v)') = Cardinality(HeldRefs(v)) + 1
  BY <1>1, RefSetsFinite, FS_AddElement
<1>3. \A w \in Vnodes \ {v} : HeldRefs(w)' = HeldRefs(w)
  BY VnodeAssumption DEF HeldRefs, TypeOK
<1>4. rcnt'[v] = Cardinality(HeldRefs(v)') + Cardinality(DyingRefs(v)')
  BY <1>2, RefSetsFinite DEF RefCountExact, TypeOK
<1>5. \A w \in Vnodes \ {v} :
          rcnt'[w] = Cardinality(HeldRefs(w)') + Cardinality(DyingRefs(w)')
  BY <1>3 DEF RefCountExact, TypeOK
<1> QED
  BY <1>4, <1>5 DEF RefCountExact

\* A thread starts to drop a reference it holds.
LEMMA CountsMove ==
    ASSUME TypeOK, RefCountExact, NEW h \in Handles, NEW t \in Threads,
           NEW v \in Vnodes, ref[h] = v, pc[t] = "idle",
           ref' = [ref EXCEPT ![h] = NoVnode], rcnt' = rcnt,
           tvn' = [tvn EXCEPT ![t] = v],
           pc' = [pc EXCEPT ![t] = "dec"]
    PROVE  RefCountExact'
<1>1. h \in HeldRefs(v) /\ HeldRefs(v)' = HeldRefs(v) \ {h}
  BY VnodeAssumption DEF HeldRefs, TypeOK
<1>2. Cardinality(HeldRefs(v)') = Cardinality(HeldRefs(v)) - 1
  BY ZenonT(60), <1>1, RefSetsFinite, FS_RemoveElement
<1>3. t \notin DyingRefs(v) /\ DyingRefs(v)' = DyingRefs(v) \cup {t}
  BY DEF DyingRefs, TypeOK
<1>4. Cardinality(DyingRefs(v)') = Cardinality(DyingRefs(v)) + 1
  BY <1>3, RefSetsFinite, FS_AddElement
<1>5. \A w \in Vnodes \ {v} : HeldRefs(w)' = HeldRefs(w)
  BY VnodeAssumption DEF HeldRefs, TypeOK
<1>6. \A w \in Vnodes \ {v} : DyingRefs(w)' = DyingRefs(w)
  BY DEF DyingRefs, TypeOK
<1>7. rcnt'[v] = Cardinality(HeldRefs(v)') + Cardinality(DyingRefs(v)')
  BY <1>2, <1>4, RefSetsFinite DEF RefCountExact
<1>8. \A w \in Vnodes \ {v} :
          rcnt'[w] = Cardinality(HeldRefs(w)') + Cardinality(DyingRefs(w)')
  BY <1>5, <1>6 DEF RefCountExact
<1> QED
  BY <1>7, <1>8 DEF RefCountExact

\* dec_vnode takes the reference back.
LEMMA CountsDrop ==
    ASSUME TypeOK, RefCountExact, NEW t \in Threads, pc[t] = "dec",
           NEW v \in Vnodes, tvn[t] = v, ref' = ref,
           NEW p \in Places \ {"dec"},
           rcnt' = [rcnt EXCEPT ![v] = rcnt[v] - 1],
           pc' = [pc EXCEPT ![t] = p],
           \A u \in Threads \ {t} : tvn'[u] = tvn[u]
    PROVE  RefCountExact'
<1>1. t \in DyingRefs(v) /\ DyingRefs(v)' = DyingRefs(v) \ {t}
  BY DEF DyingRefs, TypeOK
<1>2. Cardinality(DyingRefs(v)') = Cardinality(DyingRefs(v)) - 1
  BY ZenonT(60), <1>1, RefSetsFinite, FS_RemoveElement
<1>3. \A w \in Vnodes \ {v} : DyingRefs(w)' = DyingRefs(w)
  BY DEF DyingRefs, TypeOK
<1>4. \A w \in Vnodes : HeldRefs(w)' = HeldRefs(w)
  BY DEF HeldRefs
<1>5. rcnt'[v] = Cardinality(HeldRefs(v)') + Cardinality(DyingRefs(v)')
  BY <1>2, <1>4, RefSetsFinite DEF RefCountExact, TypeOK
<1>6. \A w \in Vnodes \ {v} :
          rcnt'[w] = Cardinality(HeldRefs(w)') + Cardinality(DyingRefs(w)')
  BY <1>3, <1>4 DEF RefCountExact, TypeOK
<1> QED
  BY <1>5, <1>6 DEF RefCountExact

\* Only threads that enter or leave "dec" change the references being dropped.
LEMMA DyingKept ==
    ASSUME TypeOK, NEW t \in Threads, pc[t] # "dec", NEW p \in Places \ {"dec"},
           pc' = [pc EXCEPT ![t] = p],
           \A u \in Threads \ {t} : tvn'[u] = tvn[u]
    PROVE  \A w \in Vnodes : DyingRefs(w)' = DyingRefs(w)
  BY DEF DyingRefs, TypeOK

\* GetVnode keeps the invariant.
LEMMA GetVnodeStep ==
    ASSUME IInv, NEW t \in Threads, NEW i \in Ids, GetVnode(t, i)
    PROVE  IInv'
<1> USE VnodeAssumption, RefsCounted
   DEF IInv, TypeOK, Handles, GetVnode, vnodeVars, threadVars, fsVars
<1>1. TypeOK'
  BY DEF Lists, Places
<1>2. OneVnodePerId'
  BY DEF OneVnodePerId
<1>3. ListsTellTruth'
  BY DEF ListsTellTruth
<1>4. BusyHasOneOwner'
  BY DEF BusyHasOneOwner, Working
<1>5. CallsTellTruth'
  BY DEF CallsTellTruth, Loading, Creating
<1>6. RemoveTellsTruth'
  BY DEF RemoveTellsTruth
<1>7. FilesTellTruth'
  BY DEF FilesTellTruth, Gone
<1>8. CoreTellsTruth'
  BY DEF CoreTellsTruth, Gone, BeingRead
<1>9. RefCountExact'
  <2>1. \A w \in Vnodes : DyingRefs(w)' = DyingRefs(w)
    BY DyingKept DEF Places
  <2> QED
    BY <2>1, CountsKept
<1> QED
  BY <1>1, <1>2, <1>3, <1>4, <1>5, <1>6, <1>7, <1>8, <1>9

\* LoadBusy keeps the invariant.
LEMMA LoadBusyStep ==
    ASSUME IInv, NEW t \in Threads, LoadBusy(t)
    PROVE  IInv'
<1> USE VnodeAssumption, RefsCounted
   DEF IInv, TypeOK, Handles, LoadBusy, vnodeVars, threadVars, fsVars
<1>1. TypeOK'
  BY DEF Lists, Places
<1>2. OneVnodePerId'
  BY DEF OneVnodePerId
<1>3. ListsTellTruth'
  BY DEF ListsTellTruth
<1>4. BusyHasOneOwner'
  BY DEF BusyHasOneOwner, Working
<1>5. CallsTellTruth'
  BY DEF CallsTellTruth, Loading, Creating
<1>6. RemoveTellsTruth'
  BY DEF RemoveTellsTruth
<1>7. FilesTellTruth'
  BY DEF FilesTellTruth, Gone
<1>8. CoreTellsTruth'
  BY DEF CoreTellsTruth, Gone, BeingRead
<1>9. RefCountExact'
  <2>1. \A w \in Vnodes : DyingRefs(w)' = DyingRefs(w)
    BY DyingKept DEF Places
  <2> QED
    BY <2>1, CountsKept
<1> QED
  BY <1>1, <1>2, <1>3, <1>4, <1>5, <1>6, <1>7, <1>8, <1>9

\* WakeUp keeps the invariant.
LEMMA WakeUpStep ==
    ASSUME IInv, NEW t \in Threads, WakeUp(t)
    PROVE  IInv'
<1> USE VnodeAssumption, RefsCounted
   DEF IInv, TypeOK, Handles, WakeUp, vnodeVars, threadVars, fsVars
<1>1. TypeOK'
  BY DEF Lists, Places
<1>2. OneVnodePerId'
  BY DEF OneVnodePerId
<1>3. ListsTellTruth'
  BY DEF ListsTellTruth
<1>4. BusyHasOneOwner'
  BY DEF BusyHasOneOwner, Working
<1>5. CallsTellTruth'
  BY DEF CallsTellTruth, Loading, Creating
<1>6. RemoveTellsTruth'
  BY DEF RemoveTellsTruth
<1>7. FilesTellTruth'
  BY DEF FilesTellTruth, Gone
<1>8. CoreTellsTruth'
  BY DEF CoreTellsTruth, Gone, BeingRead
<1>9. RefCountExact'
  <2>1. \A w \in Vnodes : DyingRefs(w)' = DyingRefs(w)
    BY DyingKept DEF Places
  <2> QED
    BY <2>1, CountsKept
<1> QED
  BY <1>1, <1>2, <1>3, <1>4, <1>5, <1>6, <1>7, <1>8, <1>9

\* LoadHit keeps the invariant.
LEMMA LoadHitStep ==
    ASSUME IInv, NEW t \in Threads, LoadHit(t)
    PROVE  IInv'
<1> USE VnodeAssumption, RefsCounted
   DEF IInv, TypeOK, Handles, LoadHit, Return, vnodeVars, threadVars, fsVars
<1>1. TypeOK'
  BY DEF Lists, Places, ListsTellTruth, BusyHasOneOwner, Working,
         CallsTellTruth, Loading, Creating
<1>2. OneVnodePerId'
  BY DEF OneVnodePerId
<1>3. ListsTellTruth'
  BY DEF ListsTellTruth, BusyHasOneOwner, Working, Lists, CallsTellTruth,
         Loading, Creating, OneVnodePerId
<1>4. BusyHasOneOwner'
  BY DEF BusyHasOneOwner, Working
<1>5. CallsTellTruth'
  BY DEF CallsTellTruth, Loading, Creating
<1>6. RemoveTellsTruth'
  BY DEF RemoveTellsTruth
<1>7. FilesTellTruth'
  BY DEF FilesTellTruth, Gone
<1>8. CoreTellsTruth'
  BY DEF CoreTellsTruth, Gone, BeingRead
<1>9. RefCountExact'
  <2>1. \A w \in Vnodes : DyingRefs(w)' = DyingRefs(w)
    BY DyingKept DEF Places
  <2>2. PICK v1 \in Vnodes : v1 = skiplist[tid[t]]
    BY DEF BusyHasOneOwner, Working, CallsTellTruth, Loading
  <2>a. inlist[v1] = "FREE" \/ busy[v1] => rcnt[v1] = 0
    BY DEF ListsTellTruth, Lists
  <2>b. pc[t] \in {"read", "newflush"} => rcnt[v1] = 0
    BY <2>2, <2>a DEF BusyHasOneOwner, Working
  <2>3. rcnt' = [rcnt EXCEPT ![v1] = rcnt[v1] + 1]
    BY <2>2, <2>a, <2>b
  <2>4. PICK h \in Handles : ref[h] = NoVnode /\ ref' = [ref EXCEPT ![h] = v1]
    BY <2>2
  <2> QED
    BY <2>1, <2>3, <2>4, CountsAdd
<1> QED
  BY <1>1, <1>2, <1>3, <1>4, <1>5, <1>6, <1>7, <1>8, <1>9

\* LoadMiss keeps the invariant.
LEMMA LoadMissStep ==
    ASSUME IInv, NEW t \in Threads, NEW v \in Vnodes, LoadMiss(t, v)
    PROVE  IInv'
<1> USE VnodeAssumption, RefsCounted
   DEF IInv, TypeOK, Handles, LoadMiss, On, Sorted, vnodeVars, threadVars,
       fsVars
<1>1. TypeOK'
  BY DEF Lists, Places
<1>2. OneVnodePerId'
  BY DEF OneVnodePerId, ListsTellTruth, BusyHasOneOwner, Working
<1>3. ListsTellTruth'
  BY DEF ListsTellTruth, BusyHasOneOwner, Working, Lists, CallsTellTruth,
         Loading, Creating
<1>4. BusyHasOneOwner'
  BY DEF BusyHasOneOwner, Working, ListsTellTruth
<1>5. CallsTellTruth'
  BY DEF CallsTellTruth, Loading, Creating, OneVnodePerId, BusyHasOneOwner,
         Working, ListsTellTruth
<1>6. RemoveTellsTruth'
  BY DEF RemoveTellsTruth, OneVnodePerId, ListsTellTruth, CallsTellTruth,
         Loading, Creating
<1>7. FilesTellTruth'
  BY DEF FilesTellTruth, Gone, OneVnodePerId, RemoveTellsTruth,
         CallsTellTruth, Loading, Creating, BusyHasOneOwner, Working,
         ListsTellTruth
<1>8. CoreTellsTruth'
  BY DEF CoreTellsTruth, Gone, BeingRead, OneVnodePerId, BusyHasOneOwner,
         Working, ListsTellTruth, CallsTellTruth, Loading, Creating
<1>9. RefCountExact'
  <2>1. \A w \in Vnodes : DyingRefs(w)' = DyingRefs(w)
    BY DyingKept DEF Places
  <2> QED
    BY <2>1, CountsKept
<1> QED
  BY <1>1, <1>2, <1>3, <1>4, <1>5, <1>6, <1>7, <1>8, <1>9

\* LoadSteal keeps the invariant.
LEMMA LoadStealStep ==
    ASSUME IInv, NEW t \in Threads, NEW v \in Vnodes, LoadSteal(t, v)
    PROVE  IInv'
<1> USE VnodeAssumption, RefsCounted
   DEF IInv, TypeOK, Handles, LoadSteal, On, StealAndFlush, vnodeVars,
       threadVars, fsVars
<1>1. TypeOK'
  BY DEF Lists, Places
<1>2. OneVnodePerId'
  BY DEF OneVnodePerId
<1>3. ListsTellTruth'
  BY DEF ListsTellTruth
<1>4. BusyHasOneOwner'
  BY DEF BusyHasOneOwner, Working, ListsTellTruth
<1>5. CallsTellTruth'
  BY DEF CallsTellTruth, Loading, Creating
<1>6. RemoveTellsTruth'
  BY DEF RemoveTellsTruth
<1>7. FilesTellTruth'
  BY DEF FilesTellTruth, Gone
<1>8. CoreTellsTruth'
  BY DEF CoreTellsTruth, Gone, BeingRead
<1>9. RefCountExact'
  <2>1. \A w \in Vnodes : DyingRefs(w)' = DyingRefs(w)
    BY DyingKept DEF Places
  <2> QED
    BY <2>1, CountsKept
<1> QED
  BY <1>1, <1>2, <1>3, <1>4, <1>5, <1>6, <1>7, <1>8, <1>9

\* LoadFlushed keeps the invariant.
LEMMA LoadFlushedStep ==
    ASSUME IInv, NEW t \in Threads, LoadFlushed(t)
    PROVE  IInv'
<1> USE VnodeAssumption, RefsCounted
   DEF IInv, TypeOK, Handles, LoadFlushed, ClearAndMove, Dropped, vnodeVars,
       threadVars, fsVars
<1>1. TypeOK'
  BY DEF Lists, Places, ListsTellTruth, BusyHasOneOwner, Working,
         CallsTellTruth, Loading, Creating
<1>2. OneVnodePerId'
  BY DEF OneVnodePerId, ListsTellTruth, BusyHasOneOwner, Working
<1>3. ListsTellTruth'
  BY DEF ListsTellTruth
<1>4. BusyHasOneOwner'
  BY DEF BusyHasOneOwner, Working
<1>5. CallsTellTruth'
  BY DEF CallsTellTruth, Loading, Creating, OneVnodePerId, BusyHasOneOwner,
         Working, ListsTellTruth
<1>6. RemoveTellsTruth'
  BY DEF RemoveTellsTruth
<1>7. FilesTellTruth'
  BY DEF FilesTellTruth, Gone
<1>8. CoreTellsTruth'
  BY DEF CoreTellsTruth, Gone, BeingRead, OneVnodePerId, BusyHasOneOwner,
         Working, ListsTellTruth, CallsTellTruth, Loading, Creating
<1>9. RefCountExact'
  <2>1. \A w \in Vnodes : DyingRefs(w)' = DyingRefs(w)
    BY DyingKept DEF Places
  <2>2. rcnt' = rcnt
    BY DEF BusyHasOneOwner, Working, ListsTellTruth, Lists
  <2> QED
    BY <2>1, <2>2, CountsKept
<1> QED
  BY <1>1, <1>2, <1>3, <1>4, <1>5, <1>6, <1>7, <1>8, <1>9

\* LoadPanic keeps the invariant.
LEMMA LoadPanicStep ==
    ASSUME IInv, NEW t \in Threads, LoadPanic(t)
    PROVE  IInv'
<1> USE VnodeAssumption, RefsCounted
   DEF IInv, TypeOK, Handles, LoadPanic, vnodeVars, threadVars, fsVars
<1>1. TypeOK'
  BY DEF Lists, Places
<1>2. OneVnodePerId'
  BY DEF OneVnodePerId
<1>3. ListsTellTruth'
  BY DEF ListsTellTruth
<1>4. BusyHasOneOwner'
  BY DEF BusyHasOneOwner, Working
<1>5. CallsTellTruth'
  BY DEF CallsTellTruth, Loading, Creating
<1>6. RemoveTellsTruth'
  BY DEF RemoveTellsTruth
<1>7. FilesTellTruth'
  BY DEF FilesTellTruth, Gone
<1>8. CoreTellsTruth'
  BY DEF CoreTellsTruth, Gone, BeingRead
<1>9. RefCountExact'
  <2>1. \A w \in Vnodes : DyingRefs(w)' = DyingRefs(w)
    BY DyingKept DEF Places
  <2> QED
    BY <2>1, CountsKept
<1> QED
  BY <1>1, <1>2, <1>3, <1>4, <1>5, <1>6, <1>7, <1>8, <1>9

\* ReadOk keeps the invariant.
LEMMA ReadOkStep ==
    ASSUME IInv, NEW t \in Threads, ReadOk(t)
    PROVE  IInv'
<1> USE VnodeAssumption, RefsCounted
   DEF IInv, TypeOK, Handles, ReadOk, Return, vnodeVars, threadVars, fsVars
<1>1. TypeOK'
  BY DEF Lists, Places, ListsTellTruth, BusyHasOneOwner, Working,
         CallsTellTruth, Loading, Creating
<1>2. OneVnodePerId'
  BY DEF OneVnodePerId
<1>3. ListsTellTruth'
  BY DEF ListsTellTruth, BusyHasOneOwner, Working, Lists, CallsTellTruth,
         Loading, Creating
<1>4. BusyHasOneOwner'
  BY DEF BusyHasOneOwner, Working
<1>5. CallsTellTruth'
  BY DEF CallsTellTruth, Loading, Creating
<1>6. RemoveTellsTruth'
  BY DEF RemoveTellsTruth
<1>7. FilesTellTruth'
  BY DEF FilesTellTruth, Gone
<1>8. CoreTellsTruth'
  BY DEF CoreTellsTruth, Gone, BeingRead, OneVnodePerId, BusyHasOneOwner,
         Working, ListsTellTruth, CallsTellTruth, Loading, Creating
<1>9. RefCountExact'
  <2>1. \A w \in Vnodes : DyingRefs(w)' = DyingRefs(w)
    BY DyingKept DEF Places
  <2>2. PICK v1 \in Vnodes : v1 = tvn[t]
    BY DEF BusyHasOneOwner, Working, CallsTellTruth, Loading
  <2>a. inlist[v1] = "FREE" \/ busy[v1] => rcnt[v1] = 0
    BY DEF ListsTellTruth, Lists
  <2>b. pc[t] \in {"read", "newflush"} => rcnt[v1] = 0
    BY <2>2, <2>a DEF BusyHasOneOwner, Working
  <2>3. rcnt' = [rcnt EXCEPT ![v1] = rcnt[v1] + 1]
    BY <2>2, <2>a, <2>b
  <2>4. PICK h \in Handles : ref[h] = NoVnode /\ ref' = [ref EXCEPT ![h] = v1]
    BY <2>2
  <2> QED
    BY <2>1, <2>3, <2>4, CountsAdd
<1> QED
  BY <1>1, <1>2, <1>3, <1>4, <1>5, <1>6, <1>7, <1>8, <1>9

\* ReadFails keeps the invariant.
LEMMA ReadFailsStep ==
    ASSUME IInv, NEW t \in Threads, ReadFails(t)
    PROVE  IInv'
<1> USE VnodeAssumption, RefsCounted
   DEF IInv, TypeOK, Handles, ReadFails, ClearAndMove, Finish, vnodeVars,
       threadVars, fsVars
<1>1. TypeOK'
  BY DEF Lists, Places
<1>2. OneVnodePerId'
  BY DEF OneVnodePerId, ListsTellTruth, BusyHasOneOwner, Working
<1>3. ListsTellTruth'
  BY DEF ListsTellTruth
<1>4. BusyHasOneOwner'
  BY DEF BusyHasOneOwner, Working
<1>5. CallsTellTruth'
  BY DEF CallsTellTruth, Loading, Creating, OneVnodePerId, BusyHasOneOwner,
         Working, ListsTellTruth
<1>6. RemoveTellsTruth'
  BY DEF RemoveTellsTruth
<1>7. FilesTellTruth'
  BY DEF FilesTellTruth, Gone
<1>8. CoreTellsTruth'
  BY DEF CoreTellsTruth, Gone, BeingRead, OneVnodePerId, BusyHasOneOwner,
         Working, ListsTellTruth, CallsTellTruth, Loading, Creating
<1>9. RefCountExact'
  <2>1. \A w \in Vnodes : DyingRefs(w)' = DyingRefs(w)
    BY DyingKept DEF Places
  <2>2. rcnt' = rcnt
    BY DEF BusyHasOneOwner, Working, ListsTellTruth, Lists
  <2> QED
    BY <2>1, <2>2, CountsKept
<1> QED
  BY <1>1, <1>2, <1>3, <1>4, <1>5, <1>6, <1>7, <1>8, <1>9

\* Create keeps the invariant.
LEMMA CreateStep ==
    ASSUME IInv, NEW t \in Threads, NEW i \in Ids, ~EarlyReuse, Create(t, i)
    PROVE  IInv'
<1> USE VnodeAssumption, RefsCounted
   DEF IInv, TypeOK, Handles, Create, vnodeVars, threadVars, fsVars
<1>1. TypeOK'
  BY DEF Lists, Places
<1>2. OneVnodePerId'
  BY DEF OneVnodePerId
<1>3. ListsTellTruth'
  BY DEF ListsTellTruth
<1>4. BusyHasOneOwner'
  BY DEF BusyHasOneOwner, Working
<1>5. CallsTellTruth'
  BY DEF CallsTellTruth, Loading, Creating, OneVnodePerId, BusyHasOneOwner,
         Working, ListsTellTruth, FilesTellTruth
<1>6. RemoveTellsTruth'
  BY DEF RemoveTellsTruth
<1>7. FilesTellTruth'
  BY DEF FilesTellTruth, Gone
<1>8. CoreTellsTruth'
  BY DEF CoreTellsTruth, Gone, BeingRead
<1>9. RefCountExact'
  <2>1. \A w \in Vnodes : DyingRefs(w)' = DyingRefs(w)
    BY DyingKept DEF Places
  <2> QED
    BY <2>1, CountsKept
<1> QED
  BY <1>1, <1>2, <1>3, <1>4, <1>5, <1>6, <1>7, <1>8, <1>9

\* DoCreate keeps the invariant.
LEMMA DoCreateStep ==
    ASSUME IInv, NEW t \in Threads, NEW i \in Ids, DoCreate(t, i)
    PROVE  IInv'
<1> USE VnodeAssumption, RefsCounted
   DEF IInv, TypeOK, Handles, DoCreate, vnodeVars, threadVars, fsVars
<1>1. TypeOK'
  BY DEF Lists, Places
<1>2. OneVnodePerId'
  BY DEF OneVnodePerId
<1>3. ListsTellTruth'
  BY DEF ListsTellTruth
<1>4. BusyHasOneOwner'
  BY DEF BusyHasOneOwner, Working
<1>5. CallsTellTruth'
  BY DEF CallsTellTruth, Loading, Creating, OneVnodePerId, BusyHasOneOwner,
         Working, ListsTellTruth, FilesTellTruth
<1>6. RemoveTellsTruth'
  BY DEF RemoveTellsTruth, OneVnodePerId
<1>7. FilesTellTruth'
  BY DEF FilesTellTruth, Gone
<1>8. CoreTellsTruth'
  BY DEF CoreTellsTruth, Gone, BeingRead
<1>9. RefCountExact'
  <2>1. \A w \in Vnodes : DyingRefs(w)' = DyingRefs(w)
    BY DEF DyingRefs
  <2> QED
    BY <2>1, CountsKept
<1> QED
  BY <1>1, <1>2, <1>3, <1>4, <1>5, <1>6, <1>7, <1>8, <1>9

\* NewNoVnode keeps the invariant.
LEMMA NewNoVnodeStep ==
    ASSUME IInv, NEW t \in Threads, NewNoVnode(t)
    PROVE  IInv'
<1> USE VnodeAssumption, RefsCounted
   DEF IInv, TypeOK, Handles, NewNoVnode, Finish, vnodeVars, threadVars,
       fsVars
<1>1. TypeOK'
  BY DEF Lists, Places
<1>2. OneVnodePerId'
  BY DEF OneVnodePerId
<1>3. ListsTellTruth'
  BY DEF ListsTellTruth
<1>4. BusyHasOneOwner'
  BY DEF BusyHasOneOwner, Working
<1>5. CallsTellTruth'
  BY DEF CallsTellTruth, Loading, Creating
<1>6. RemoveTellsTruth'
  BY DEF RemoveTellsTruth
<1>7. FilesTellTruth'
  BY DEF FilesTellTruth, Gone, OneVnodePerId, RemoveTellsTruth,
         CallsTellTruth, Loading, Creating, BusyHasOneOwner, Working,
         ListsTellTruth
<1>8. CoreTellsTruth'
  BY DEF CoreTellsTruth, Gone, BeingRead
<1>9. RefCountExact'
  <2>1. \A w \in Vnodes : DyingRefs(w)' = DyingRefs(w)
    BY DyingKept DEF Places
  <2> QED
    BY <2>1, CountsKept
<1> QED
  BY <1>1, <1>2, <1>3, <1>4, <1>5, <1>6, <1>7, <1>8, <1>9

\* NewFree keeps the invariant.
LEMMA NewFreeStep ==
    ASSUME IInv, NEW t \in Threads, NEW v \in Vnodes, NewFree(t, v)
    PROVE  IInv'
<1> USE VnodeAssumption, RefsCounted
   DEF IInv, TypeOK, Handles, NewFree, On, Sorted, Return, vnodeVars,
       threadVars, fsVars
<1>1. TypeOK'
  BY DEF Lists, Places, ListsTellTruth, BusyHasOneOwner, Working,
         CallsTellTruth, Loading, Creating
<1>2. OneVnodePerId'
  BY DEF OneVnodePerId, ListsTellTruth, BusyHasOneOwner, Working,
         CallsTellTruth, Loading, Creating
<1>3. ListsTellTruth'
  BY DEF ListsTellTruth, BusyHasOneOwner, Working, Lists, CallsTellTruth,
         Loading, Creating
<1>4. BusyHasOneOwner'
  BY SMTT(30) DEF BusyHasOneOwner, Working
<1>5. CallsTellTruth'
  BY DEF CallsTellTruth, Loading, Creating, OneVnodePerId, BusyHasOneOwner,
         Working, ListsTellTruth
<1>6. RemoveTellsTruth'
  BY DEF RemoveTellsTruth, OneVnodePerId, ListsTellTruth, CallsTellTruth,
         Loading, Creating
<1>7. FilesTellTruth'
  BY DEF FilesTellTruth, Gone, OneVnodePerId, RemoveTellsTruth,
         CallsTellTruth, Loading, Creating, BusyHasOneOwner, Working,
         ListsTellTruth
<1>8. CoreTellsTruth'
  BY DEF CoreTellsTruth, Gone, BeingRead, OneVnodePerId, BusyHasOneOwner,
         Working, ListsTellTruth, CallsTellTruth, Loading, Creating
<1>9. RefCountExact'
  <2>1. \A w \in Vnodes : DyingRefs(w)' = DyingRefs(w)
    BY DyingKept DEF Places
  <2>2. PICK v1 \in Vnodes : v1 = v
    BY DEF BusyHasOneOwner, Working, CallsTellTruth, Loading
  <2>a. inlist[v1] = "FREE" \/ busy[v1] => rcnt[v1] = 0
    BY DEF ListsTellTruth, Lists
  <2>b. pc[t] \in {"read", "newflush"} => rcnt[v1] = 0
    BY <2>2, <2>a DEF BusyHasOneOwner, Working
  <2>3. rcnt' = [rcnt EXCEPT ![v1] = rcnt[v1] + 1]
    BY <2>2, <2>a, <2>b
  <2>4. PICK h \in Handles : ref[h] = NoVnode /\ ref' = [ref EXCEPT ![h] = v1]
    BY <2>2
  <2> QED
    BY <2>1, <2>3, <2>4, CountsAdd
<1> QED
  BY <1>1, <1>2, <1>3, <1>4, <1>5, <1>6, <1>7, <1>8, <1>9

\* NewSteal keeps the invariant.
LEMMA NewStealStep ==
    ASSUME IInv, NEW t \in Threads, NEW v \in Vnodes, NewSteal(t, v)
    PROVE  IInv'
<1> USE VnodeAssumption, RefsCounted
   DEF IInv, TypeOK, Handles, NewSteal, On, StealAndFlush, vnodeVars,
       threadVars, fsVars
<1>1. TypeOK'
  BY DEF Lists, Places
<1>2. OneVnodePerId'
  BY DEF OneVnodePerId
<1>3. ListsTellTruth'
  BY DEF ListsTellTruth
<1>4. BusyHasOneOwner'
  BY DEF BusyHasOneOwner, Working, ListsTellTruth
<1>5. CallsTellTruth'
  BY DEF CallsTellTruth, Loading, Creating
<1>6. RemoveTellsTruth'
  BY DEF RemoveTellsTruth
<1>7. FilesTellTruth'
  BY DEF FilesTellTruth, Gone
<1>8. CoreTellsTruth'
  BY DEF CoreTellsTruth, Gone, BeingRead
<1>9. RefCountExact'
  <2>1. \A w \in Vnodes : DyingRefs(w)' = DyingRefs(w)
    BY DyingKept DEF Places
  <2> QED
    BY <2>1, CountsKept
<1> QED
  BY <1>1, <1>2, <1>3, <1>4, <1>5, <1>6, <1>7, <1>8, <1>9

\* NewFlushed keeps the invariant.
LEMMA NewFlushedStep ==
    ASSUME IInv, NEW t \in Threads, NewFlushed(t)
    PROVE  IInv'
<1> USE VnodeAssumption, RefsCounted
   DEF IInv, TypeOK, Handles, NewFlushed, Dropped, Return, vnodeVars,
       threadVars, fsVars
<1>1. TypeOK'
  BY DEF Lists, Places, ListsTellTruth, BusyHasOneOwner, Working,
         CallsTellTruth, Loading, Creating
<1>2. OneVnodePerId'
  BY DEF OneVnodePerId, ListsTellTruth, BusyHasOneOwner, Working,
         CallsTellTruth, Loading, Creating
<1>3. ListsTellTruth'
  BY DEF ListsTellTruth, BusyHasOneOwner, Working, Lists, CallsTellTruth,
         Loading, Creating
<1>4. BusyHasOneOwner'
  BY DEF BusyHasOneOwner, Working
<1>5. CallsTellTruth'
  BY DEF CallsTellTruth, Loading, Creating, OneVnodePerId, BusyHasOneOwner,
         Working, ListsTellTruth
<1>6. RemoveTellsTruth'
  BY DEF RemoveTellsTruth, OneVnodePerId, ListsTellTruth, CallsTellTruth,
         Loading, Creating
<1>7. FilesTellTruth'
  BY DEF FilesTellTruth, Gone, OneVnodePerId, RemoveTellsTruth,
         CallsTellTruth, Loading, Creating, BusyHasOneOwner, Working,
         ListsTellTruth
<1>8. CoreTellsTruth'
  BY DEF CoreTellsTruth, Gone, BeingRead, OneVnodePerId, BusyHasOneOwner,
         Working, ListsTellTruth, CallsTellTruth, Loading, Creating
<1>9. RefCountExact'
  <2>1. \A w \in Vnodes : DyingRefs(w)' = DyingRefs(w)
    BY DyingKept DEF Places
  <2>2. PICK v1 \in Vnodes : v1 = tvn[t]
    BY DEF BusyHasOneOwner, Working, CallsTellTruth, Loading
  <2>a. inlist[v1] = "FREE" \/ busy[v1] => rcnt[v1] = 0
    BY DEF ListsTellTruth, Lists
  <2>b. pc[t] \in {"read", "newflush"} => rcnt[v1] = 0
    BY <2>2, <2>a DEF BusyHasOneOwner, Working
  <2>3. rcnt' = [rcnt EXCEPT ![v1] = rcnt[v1] + 1]
    BY <2>2, <2>a, <2>b
  <2>4. PICK h \in Handles : ref[h] = NoVnode /\ ref' = [ref EXCEPT ![h] = v1]
    BY <2>2
  <2> QED
    BY <2>1, <2>3, <2>4, CountsAdd
<1> QED
  BY <1>1, <1>2, <1>3, <1>4, <1>5, <1>6, <1>7, <1>8, <1>9

\* DecShared keeps the invariant.
LEMMA DecSharedStep ==
    ASSUME IInv, NEW t \in Threads, DecShared(t)
    PROVE  IInv'
<1> USE VnodeAssumption, RefsCounted
   DEF IInv, TypeOK, Handles, DecShared, Finish, vnodeVars, threadVars,
       fsVars
<1>a. tvn[t] \in Vnodes /\ rcnt[tvn[t]] > 1 /\ inlist[tvn[t]] = "LOCKED"
      /\ ~busy[tvn[t]] /\ vnid[tvn[t]] # NoId
  OBVIOUS
<1>1. TypeOK'
  BY <1>a DEF Lists, Places
<1>2. OneVnodePerId'
  BY <1>a DEF OneVnodePerId
<1>3. ListsTellTruth'
  BY <1>a DEF ListsTellTruth
<1>4. BusyHasOneOwner'
  BY <1>a DEF BusyHasOneOwner, Working
<1>5. CallsTellTruth'
  BY <1>a DEF CallsTellTruth, Loading, Creating
<1>6. RemoveTellsTruth'
  BY <1>a DEF RemoveTellsTruth
<1>7. FilesTellTruth'
  BY <1>a DEF FilesTellTruth, Gone
<1>8. CoreTellsTruth'
  BY <1>a DEF CoreTellsTruth, Gone, BeingRead
<1>9. RefCountExact'
  <2>1. PICK v1 \in Vnodes : v1 = tvn[t]
    BY DEF CallsTellTruth
  <2>2. rcnt' = [rcnt EXCEPT ![v1] = rcnt[v1] - 1]
    BY <2>1
  <2>3. \A u \in Threads \ {t} : tvn'[u] = tvn[u]
    OBVIOUS
  <2>4. pc' = [pc EXCEPT ![t] = "idle"] /\ pc[t] = "dec" /\ ref' = ref
    OBVIOUS
  <2>5. TypeOK /\ RefCountExact /\ "idle" \in Places \ {"dec"}
    BY DEF Places
  <2> HIDE VnodeAssumption, RefsCounted
     DEF IInv, TypeOK, Handles, DecShared, Finish
  <2> QED
    BY <2>1, <2>2, <2>3, <2>4, <2>5, CountsDrop
<1> QED
  BY <1>1, <1>2, <1>3, <1>4, <1>5, <1>6, <1>7, <1>8, <1>9

\* DecRemove keeps the invariant.
LEMMA DecRemoveStep ==
    ASSUME IInv, NEW t \in Threads, DecRemove(t)
    PROVE  IInv'
<1> USE VnodeAssumption, RefsCounted
   DEF IInv, TypeOK, Handles, DecRemove, vnodeVars, threadVars, fsVars
<1>1. TypeOK'
  BY DEF Lists, Places
<1>2. OneVnodePerId'
  BY DEF OneVnodePerId
<1>3. ListsTellTruth'
  BY DEF ListsTellTruth
<1>4. BusyHasOneOwner'
  BY DEF BusyHasOneOwner, Working
<1>5. CallsTellTruth'
  BY DEF CallsTellTruth, Loading, Creating
<1>6. RemoveTellsTruth'
  BY DEF RemoveTellsTruth
<1>7. FilesTellTruth'
  BY DEF FilesTellTruth, Gone
<1>8. CoreTellsTruth'
  BY DEF CoreTellsTruth, Gone, BeingRead
<1>9. RefCountExact'
  <2>1. PICK v1 \in Vnodes : v1 = tvn[t]
    BY DEF CallsTellTruth
  <2>2. rcnt' = [rcnt EXCEPT ![v1] = rcnt[v1] - 1]
    BY <2>1
  <2>3. \A u \in Threads \ {t} : tvn'[u] = tvn[u]
    OBVIOUS
  <2>4. pc' = [pc EXCEPT ![t] = "remove"] /\ pc[t] = "dec" /\ ref' = ref
    OBVIOUS
  <2>5. TypeOK /\ RefCountExact /\ "remove" \in Places \ {"dec"}
    BY DEF Places
  <2> HIDE VnodeAssumption, RefsCounted DEF IInv, TypeOK, Handles, DecRemove
  <2> QED
    BY <2>1, <2>2, <2>3, <2>4, <2>5, CountsDrop
<1> QED
  BY <1>1, <1>2, <1>3, <1>4, <1>5, <1>6, <1>7, <1>8, <1>9

\* DecCache keeps the invariant.
LEMMA DecCacheStep ==
    ASSUME IInv, NEW t \in Threads, DecCache(t)
    PROVE  IInv'
<1> USE VnodeAssumption, RefsCounted
   DEF IInv, TypeOK, Handles, DecCache, Finish, vnodeVars, threadVars, fsVars
<1>1. TypeOK'
  BY DEF Lists, Places
<1>2. OneVnodePerId'
  BY DEF OneVnodePerId
<1>3. ListsTellTruth'
  BY DEF ListsTellTruth
<1>4. BusyHasOneOwner'
  BY DEF BusyHasOneOwner, Working
<1>5. CallsTellTruth'
  BY DEF CallsTellTruth, Loading, Creating
<1>6. RemoveTellsTruth'
  BY DEF RemoveTellsTruth
<1>7. FilesTellTruth'
  BY DEF FilesTellTruth, Gone
<1>8. CoreTellsTruth'
  BY DEF CoreTellsTruth, Gone, BeingRead
<1>9. RefCountExact'
  <2>1. PICK v1 \in Vnodes : v1 = tvn[t]
    BY DEF CallsTellTruth
  <2>2. rcnt' = [rcnt EXCEPT ![v1] = rcnt[v1] - 1]
    BY <2>1
  <2>3. \A u \in Threads \ {t} : tvn'[u] = tvn[u]
    OBVIOUS
  <2>4. pc' = [pc EXCEPT ![t] = "idle"] /\ pc[t] = "dec" /\ ref' = ref
    OBVIOUS
  <2>5. TypeOK /\ RefCountExact /\ "idle" \in Places \ {"dec"}
    BY DEF Places
  <2> HIDE VnodeAssumption, RefsCounted
     DEF IInv, TypeOK, Handles, DecCache, Finish
  <2> QED
    BY <2>1, <2>2, <2>3, <2>4, <2>5, CountsDrop
<1> QED
  BY <1>1, <1>2, <1>3, <1>4, <1>5, <1>6, <1>7, <1>8, <1>9

\* DecEvict keeps the invariant.
LEMMA DecEvictStep ==
    ASSUME IInv, NEW t \in Threads, NEW v \in Vnodes, DecEvict(t, v)
    PROVE  IInv'
<1> USE VnodeAssumption, RefsCounted
   DEF IInv, TypeOK, Handles, DecEvict, On, vnodeVars, threadVars, fsVars
<1>1. TypeOK'
  BY DEF Lists, Places
<1>2. OneVnodePerId'
  BY DEF OneVnodePerId
<1>3. ListsTellTruth'
  BY DEF ListsTellTruth
<1>4. BusyHasOneOwner'
  BY DEF BusyHasOneOwner, Working, ListsTellTruth
<1>5. CallsTellTruth'
  BY DEF CallsTellTruth, Loading, Creating
<1>6. RemoveTellsTruth'
  BY DEF RemoveTellsTruth
<1>7. FilesTellTruth'
  BY DEF FilesTellTruth, Gone
<1>8. CoreTellsTruth'
  BY DEF CoreTellsTruth, Gone, BeingRead, OneVnodePerId, BusyHasOneOwner,
         Working, ListsTellTruth, CallsTellTruth, Loading, Creating
<1>9. RefCountExact'
  <2>1. PICK v1 \in Vnodes : v1 = tvn[t]
    BY DEF CallsTellTruth
  <2>2. rcnt' = [rcnt EXCEPT ![v1] = rcnt[v1] - 1]
    BY <2>1
  <2>3. \A u \in Threads \ {t} : tvn'[u] = tvn[u]
    OBVIOUS
  <2>4. pc' = [pc EXCEPT ![t] = "decflush"] /\ pc[t] = "dec" /\ ref' = ref
    OBVIOUS
  <2>5. TypeOK /\ RefCountExact /\ "decflush" \in Places \ {"dec"}
    BY DEF Places
  <2> HIDE VnodeAssumption, RefsCounted DEF IInv, TypeOK, Handles, DecEvict, On
  <2> QED
    BY <2>1, <2>2, <2>3, <2>4, <2>5, CountsDrop
<1> QED
  BY <1>1, <1>2, <1>3, <1>4, <1>5, <1>6, <1>7, <1>8, <1>9

\* DecFlushed keeps the invariant.
LEMMA DecFlushedStep ==
    ASSUME IInv, NEW t \in Threads, DecFlushed(t)
    PROVE  IInv'
<1> USE VnodeAssumption, RefsCounted
   DEF IInv, TypeOK, Handles, DecFlushed, ClearAndMove, Dropped, Finish,
       vnodeVars, threadVars, fsVars
<1>1. TypeOK'
  BY DEF Lists, Places, ListsTellTruth, BusyHasOneOwner, Working,
         CallsTellTruth, Loading, Creating
<1>2. OneVnodePerId'
  BY DEF OneVnodePerId, ListsTellTruth, BusyHasOneOwner, Working
<1>3. ListsTellTruth'
  BY DEF ListsTellTruth
<1>4. BusyHasOneOwner'
  BY DEF BusyHasOneOwner, Working
<1>5. CallsTellTruth'
  BY DEF CallsTellTruth, Loading, Creating, OneVnodePerId, BusyHasOneOwner,
         Working, ListsTellTruth
<1>6. RemoveTellsTruth'
  BY DEF RemoveTellsTruth
<1>7. FilesTellTruth'
  BY DEF FilesTellTruth, Gone
<1>8. CoreTellsTruth'
  BY DEF CoreTellsTruth, Gone, BeingRead, OneVnodePerId, BusyHasOneOwner,
         Working, ListsTellTruth, CallsTellTruth, Loading, Creating
<1>9. RefCountExact'
  <2>1. \A w \in Vnodes : DyingRefs(w)' = DyingRefs(w)
    BY DyingKept DEF Places
  <2>2. rcnt' = rcnt
    BY DEF BusyHasOneOwner, Working, ListsTellTruth, Lists
  <2> QED
    BY <2>1, <2>2, CountsKept
<1> QED
  BY <1>1, <1>2, <1>3, <1>4, <1>5, <1>6, <1>7, <1>8, <1>9

\* RemoveCall keeps the invariant.
LEMMA RemoveCallStep ==
    ASSUME IInv, NEW t \in Threads, RemoveCall(t)
    PROVE  IInv'
<1> USE VnodeAssumption, RefsCounted
   DEF IInv, TypeOK, Handles, RemoveCall, Dropped, vnodeVars, threadVars,
       fsVars
<1>1. TypeOK'
  BY DEF Lists, Places, ListsTellTruth, BusyHasOneOwner, Working,
         CallsTellTruth, Loading, Creating
<1>2. OneVnodePerId'
  BY DEF OneVnodePerId
<1>3. ListsTellTruth'
  BY DEF ListsTellTruth
<1>4. BusyHasOneOwner'
  BY DEF BusyHasOneOwner, Working
<1>5. CallsTellTruth'
  BY DEF CallsTellTruth, Loading, Creating, OneVnodePerId, BusyHasOneOwner,
         Working, ListsTellTruth
<1>6. RemoveTellsTruth'
  BY DEF RemoveTellsTruth
<1>7. FilesTellTruth'
  BY DEF FilesTellTruth, Gone, OneVnodePerId, RemoveTellsTruth,
         CallsTellTruth, Loading, Creating, BusyHasOneOwner, Working,
         ListsTellTruth
<1>8. CoreTellsTruth'
  BY DEF CoreTellsTruth, Gone, BeingRead, OneVnodePerId, BusyHasOneOwner,
         Working, ListsTellTruth, CallsTellTruth, Loading, Creating
<1>9. RefCountExact'
  <2>1. \A w \in Vnodes : DyingRefs(w)' = DyingRefs(w)
    BY DyingKept DEF Places
  <2> QED
    BY <2>1, CountsKept
<1> QED
  BY <1>1, <1>2, <1>3, <1>4, <1>5, <1>6, <1>7, <1>8, <1>9

\* RemoveDone keeps the invariant.
LEMMA RemoveDoneStep ==
    ASSUME IInv, NEW t \in Threads, RemoveDone(t)
    PROVE  IInv'
<1> USE VnodeAssumption, RefsCounted
   DEF IInv, TypeOK, Handles, RemoveDone, ClearAndMove, Finish, vnodeVars,
       threadVars, fsVars
<1>1. TypeOK'
  BY DEF Lists, Places
<1>2. OneVnodePerId'
  BY DEF OneVnodePerId, ListsTellTruth, BusyHasOneOwner, Working
<1>3. ListsTellTruth'
  BY DEF ListsTellTruth
<1>4. BusyHasOneOwner'
  BY DEF BusyHasOneOwner, Working
<1>5. CallsTellTruth'
  BY DEF CallsTellTruth, Loading, Creating, OneVnodePerId, BusyHasOneOwner,
         Working, ListsTellTruth
<1>6. RemoveTellsTruth'
  BY DEF RemoveTellsTruth
<1>7. FilesTellTruth'
  BY DEF FilesTellTruth, Gone
<1>8. CoreTellsTruth'
  BY DEF CoreTellsTruth, Gone, BeingRead, OneVnodePerId, BusyHasOneOwner,
         Working, ListsTellTruth, CallsTellTruth, Loading, Creating
<1>9. RefCountExact'
  <2>1. \A w \in Vnodes : DyingRefs(w)' = DyingRefs(w)
    BY DyingKept DEF Places
  <2>2. rcnt' = rcnt
    BY DEF BusyHasOneOwner, Working, ListsTellTruth, Lists
  <2> QED
    BY <2>1, <2>2, CountsKept
<1> QED
  BY <1>1, <1>2, <1>3, <1>4, <1>5, <1>6, <1>7, <1>8, <1>9

\* IncVnode keeps the invariant.
LEMMA IncVnodeStep ==
    ASSUME IInv, NEW t \in Threads, NEW s \in Slots, IncVnode(t, s)
    PROVE  IInv'
<1> USE VnodeAssumption, RefsCounted
   DEF IInv, TypeOK, Handles, IncVnode, Return, vnodeVars, threadVars, fsVars
<1>1. TypeOK'
  BY DEF Lists, Places
<1>2. OneVnodePerId'
  BY DEF OneVnodePerId
<1>3. ListsTellTruth'
  BY DEF ListsTellTruth
<1>4. BusyHasOneOwner'
  BY DEF BusyHasOneOwner, Working
<1>5. CallsTellTruth'
  BY DEF CallsTellTruth, Loading, Creating
<1>6. RemoveTellsTruth'
  BY DEF RemoveTellsTruth
<1>7. FilesTellTruth'
  BY DEF FilesTellTruth, Gone
<1>8. CoreTellsTruth'
  BY DEF CoreTellsTruth, Gone, BeingRead
<1>9. RefCountExact'
  <2>1. \A w \in Vnodes : DyingRefs(w)' = DyingRefs(w)
    BY DyingKept DEF Places
  <2>2. PICK v1 \in Vnodes : v1 = ref[<<t, s>>]
    BY DEF BusyHasOneOwner, Working, CallsTellTruth, Loading
  <2>a. inlist[v1] = "FREE" \/ busy[v1] => rcnt[v1] = 0
    BY DEF ListsTellTruth, Lists
  <2>b. pc[t] \in {"read", "newflush"} => rcnt[v1] = 0
    BY <2>2, <2>a DEF BusyHasOneOwner, Working
  <2>3. rcnt' = [rcnt EXCEPT ![v1] = rcnt[v1] + 1]
    BY <2>2, <2>a, <2>b
  <2>4. PICK h \in Handles : ref[h] = NoVnode /\ ref' = [ref EXCEPT ![h] = v1]
    BY <2>2
  <2> QED
    BY <2>1, <2>3, <2>4, CountsAdd
<1> QED
  BY <1>1, <1>2, <1>3, <1>4, <1>5, <1>6, <1>7, <1>8, <1>9

\* Unlink keeps the invariant.
LEMMA UnlinkStep ==
    ASSUME IInv, NEW t \in Threads, NEW s \in Slots, Unlink(t, s)
    PROVE  IInv'
<1> USE VnodeAssumption, RefsCounted
   DEF IInv, TypeOK, Handles, Unlink, vnodeVars, threadVars, fsVars
<1>a. PICK v \in Vnodes : v = ref[<<t, s>>] /\ vnid[v] \in Ids
      /\ ~busy[v] /\ rcnt[v] > 0
  OBVIOUS
<1>b. remove' = [remove EXCEPT ![v] = TRUE] /\ linked' = linked \ {vnid[v]}
  <2>1. skiplist[vnid[v]] = v /\ NoVnode # v /\ rcnt[v] # 0
    BY <1>a DEF OneVnodePerId
  <2>2. SetRemove(vnid[v], TRUE) /\ linked' = linked \ {vnid[v]}
    BY <1>a
  <2> HIDE VnodeAssumption, RefsCounted DEF IInv, TypeOK
  <2> QED
    BY <2>1, <2>2 DEF SetRemove
<1>c. \A u \in Threads : Loading(u) => tid[u] # vnid[v]
  BY <1>a DEF Walking
<1>1. TypeOK'
  BY <1>a, <1>b, <1>c DEF Lists, Places
<1>2. OneVnodePerId'
  BY <1>a, <1>b, <1>c DEF OneVnodePerId
<1>3. ListsTellTruth'
  BY <1>a, <1>b, <1>c DEF ListsTellTruth
<1>4. BusyHasOneOwner'
  BY <1>a, <1>b, <1>c DEF BusyHasOneOwner, Working
<1>5. CallsTellTruth'
  <2>1. \A u \in Threads : Loading(u) => tid[u] \in linked'
    BY <1>b, <1>c DEF CallsTellTruth
  <2>3. \A u \in Threads :
          pc[u] \in {"remove", "removed"} => remove'[tvn[u]]
    BY <1>a, <1>b DEF CallsTellTruth, BusyHasOneOwner, Working
  <2>2. \A u \in Threads : Creating(u) => tid[u] \in inuse \ linked'
    BY <1>b DEF CallsTellTruth
  <2> QED
    BY <2>1, <2>2, <2>3 DEF CallsTellTruth, Loading, Creating
<1>6. RemoveTellsTruth'
  BY <1>a, <1>b, <1>c
     DEF RemoveTellsTruth, OneVnodePerId, ListsTellTruth, CallsTellTruth,
         Loading, Creating
<1>7. FilesTellTruth'
  BY <1>a, <1>b, <1>c DEF FilesTellTruth, Gone
<1>8. CoreTellsTruth'
  BY <1>a, <1>b, <1>c DEF CoreTellsTruth, Gone, BeingRead
<1>9. RefCountExact'
  <2>1. \A w \in Vnodes : DyingRefs(w)' = DyingRefs(w)
    BY DEF DyingRefs
  <2> QED
    BY <2>1, CountsKept
<1> QED
  BY <1>1, <1>2, <1>3, <1>4, <1>5, <1>6, <1>7, <1>8, <1>9

\* Relink keeps the invariant.
LEMMA RelinkStep ==
    ASSUME IInv, NEW t \in Threads, NEW s \in Slots, Relink(t, s)
    PROVE  IInv'
<1> USE VnodeAssumption, RefsCounted
   DEF IInv, TypeOK, Handles, Relink, vnodeVars, threadVars, fsVars
<1>a. PICK v \in Vnodes : v = ref[<<t, s>>] /\ vnid[v] \in Ids
      /\ ~busy[v] /\ rcnt[v] > 0
  OBVIOUS
<1>b. remove' = [remove EXCEPT ![v] = FALSE] /\ linked' = linked \cup {vnid[v]}
  <2>1. skiplist[vnid[v]] = v /\ NoVnode # v /\ rcnt[v] # 0
    BY <1>a DEF OneVnodePerId
  <2>2. SetRemove(vnid[v], FALSE) /\ linked' = linked \cup {vnid[v]}
    BY <1>a
  <2> HIDE VnodeAssumption, RefsCounted DEF IInv, TypeOK
  <2> QED
    BY <2>1, <2>2 DEF SetRemove
<1>1. TypeOK'
  <2>1. linked' \subseteq Ids
    BY <1>a, <1>b
  <2>2. remove' \in [Vnodes -> BOOLEAN]
    BY <1>b
  <2> QED
    BY <2>1, <2>2
<1>2. OneVnodePerId'
  BY <1>a, <1>b DEF OneVnodePerId
<1>3. ListsTellTruth'
  BY <1>a, <1>b DEF ListsTellTruth
<1>4. BusyHasOneOwner'
  BY <1>a, <1>b DEF BusyHasOneOwner, Working
<1>5. CallsTellTruth'
  BY <1>a, <1>b
     DEF CallsTellTruth, Loading, Creating, OneVnodePerId, BusyHasOneOwner,
         Working, ListsTellTruth
<1>6. RemoveTellsTruth'
  BY <1>a, <1>b
     DEF RemoveTellsTruth, OneVnodePerId, ListsTellTruth, CallsTellTruth,
         Loading, Creating
<1>7. FilesTellTruth'
  BY <1>a, <1>b
     DEF FilesTellTruth, Gone, OneVnodePerId, RemoveTellsTruth,
         CallsTellTruth, Loading, Creating, BusyHasOneOwner, Working,
         ListsTellTruth
<1>8. CoreTellsTruth'
  BY <1>a, <1>b DEF CoreTellsTruth, Gone, BeingRead
<1>9. RefCountExact'
  <2>1. \A w \in Vnodes : DyingRefs(w)' = DyingRefs(w)
    BY DEF DyingRefs
  <2> QED
    BY <2>1, CountsKept
<1> QED
  BY <1>1, <1>2, <1>3, <1>4, <1>5, <1>6, <1>7, <1>8, <1>9

\* StartDec keeps the invariant.
LEMMA StartDecStep ==
    ASSUME IInv, NEW t \in Threads, NEW s \in Slots, DropRef(t, s) \/ PutVnode(t, s)
    PROVE  IInv'
<1> USE VnodeAssumption, RefsCounted
   DEF IInv, TypeOK, Handles, vnodeVars, threadVars, fsVars
<1>a. PICK v \in Vnodes : v = ref[<<t, s>>] /\ vnid[v] \in Ids
  BY DEF DropRef, PutVnode
<1>b. /\ pc[t] = "idle" /\ pc' = [pc EXCEPT ![t] = "dec"]
      /\ ref' = [ref EXCEPT ![<<t, s>>] = NoVnode]
      /\ tvn' = [tvn EXCEPT ![t] = v]
      /\ UNCHANGED <<vnodeVars, vnlock, tid, fsVars>>
  BY <1>a DEF OneVnodePerId, DropRef, PutVnode, StartDec
<1>1. TypeOK'
  BY <1>a, <1>b DEF Lists, Places
<1>2. OneVnodePerId'
  BY <1>a, <1>b DEF OneVnodePerId
<1>3. ListsTellTruth'
  BY <1>a, <1>b DEF ListsTellTruth
<1>4. BusyHasOneOwner'
  BY <1>a, <1>b DEF BusyHasOneOwner, Working
<1>5. CallsTellTruth'
  BY <1>a, <1>b DEF CallsTellTruth, Loading, Creating
<1>6. RemoveTellsTruth'
  BY <1>a, <1>b DEF RemoveTellsTruth
<1>7. FilesTellTruth'
  BY <1>a, <1>b DEF FilesTellTruth, Gone
<1>8. CoreTellsTruth'
  BY <1>a, <1>b DEF CoreTellsTruth, Gone, BeingRead
<1>9. RefCountExact'
  <2>1. <<t, s>> \in Handles /\ rcnt' = rcnt
    BY <1>b
  <2> QED
    BY <2>1, <1>a, <1>b, CountsMove
<1> QED
  BY <1>1, <1>2, <1>3, <1>4, <1>5, <1>6, <1>7, <1>8, <1>9

-----------------------------------------------------------------------------
\* The empty table satisfies the invariant.
LEMMA InitIInv == Init => IInv
<1> SUFFICES ASSUME Init PROVE IInv
  OBVIOUS
<1>1. TypeOK
  BY VnodeAssumption DEF Init, TypeOK, Lists, Places
<1>2. \A v \in Vnodes : HeldRefs(v) = {} /\ DyingRefs(v) = {}
  BY VnodeAssumption DEF Init, HeldRefs, DyingRefs
<1>3. RefCountExact
  BY SMTT(30), <1>2, FS_EmptySet DEF Init, RefCountExact
<1>4. OneVnodePerId /\ ListsTellTruth /\ RemoveTellsTruth /\ FilesTellTruth
  BY DEF Init, OneVnodePerId, ListsTellTruth, RemoveTellsTruth, FilesTellTruth
<1>5. BusyHasOneOwner /\ CallsTellTruth
  BY DEF Init, BusyHasOneOwner, CallsTellTruth, Working, Loading, Creating
<1>6. CoreTellsTruth
  BY VnodeAssumption DEF Init, CoreTellsTruth
<1> QED
  BY <1>1, <1>3, <1>4, <1>5, <1>6 DEF IInv

\* Every step keeps the invariant when ids are not reused early.
LEMMA NextIInv ==
    ASSUME ~EarlyReuse, IInv, [Next]_vars
    PROVE  IInv'
<1>1. ASSUME NEW t \in Threads, LoadStep(t) PROVE IInv'
  BY <1>1, LoadBusyStep, WakeUpStep, LoadHitStep, LoadFlushedStep,
     LoadPanicStep, ReadOkStep, ReadFailsStep, LoadMissStep, LoadStealStep
     DEF LoadStep
<1>2. ASSUME NEW t \in Threads, NewStep(t) PROVE IInv'
  BY <1>2, NewNoVnodeStep, NewFlushedStep, NewFreeStep, NewStealStep
     DEF NewStep
<1>3. ASSUME NEW t \in Threads, DecStep(t) PROVE IInv'
  BY <1>3, DecSharedStep, DecRemoveStep, DecCacheStep, DecFlushedStep,
     RemoveCallStep, RemoveDoneStep, DecEvictStep
     DEF DecStep
<1>4. ASSUME NEW t \in Threads, CallStart(t) PROVE IInv'
  BY <1>4, GetVnodeStep, CreateStep, DoCreateStep, StartDecStep, IncVnodeStep,
     UnlinkStep, RelinkStep
     DEF CallStart
<1>5. CASE UNCHANGED vars
  <2> USE <1>5 DEF IInv, vars, vnodeVars, threadVars, fsVars
  <2>1. RefCountExact'
    <3>1. \A v \in Vnodes : DyingRefs(v)' = DyingRefs(v)
      BY DEF DyingRefs
    <3> QED
      BY <3>1, CountsKept
  <2>2. TypeOK' /\ OneVnodePerId' /\ ListsTellTruth' /\ RemoveTellsTruth'
    BY DEF TypeOK, OneVnodePerId, ListsTellTruth, RemoveTellsTruth
  <2>3. BusyHasOneOwner' /\ CallsTellTruth'
    BY DEF BusyHasOneOwner, CallsTellTruth, Working, Loading, Creating
  <2>4. FilesTellTruth' /\ CoreTellsTruth'
    BY DEF FilesTellTruth, CoreTellsTruth, Gone, BeingRead
  <2> QED
    BY <2>1, <2>2, <2>3, <2>4
<1> QED
  BY <1>1, <1>2, <1>3, <1>4, <1>5 DEF Next, CallStep

(***************************************************************************)
(* The vnode table never goes wrong, whatever its size and the number of   *)
(* threads, as long as an id is not handed out while a vnode stands for it.*)
(***************************************************************************)
THEOREM VnodeInvariant == ~EarlyReuse /\ Spec => []IInv
<1>1. ~EarlyReuse /\ IInv /\ [Next]_vars => IInv'
  BY NextIInv
<1>2. ASSUME ~EarlyReuse PROVE Spec => []IInv
  <2>1. IInv /\ [Next]_vars => IInv'
    BY <1>1, <1>2
  <2> QED
    BY <2>1, InitIInv, PTL DEF Spec
<1> QED
  BY <1>2

\* No two vnodes stand for one file, and lookups find the right one.
THEOREM VnodeUnique == ~EarlyReuse /\ Spec => []OneVnodePerId
  BY VnodeInvariant, PTL DEF IInv

\* The reference counts are exact.
THEOREM VnodeCountsExact == ~EarlyReuse /\ Spec => []RefCountExact
  BY VnodeInvariant, PTL DEF IInv

\* A file in use is never destroyed.
THEOREM VnodeNeverDestroyed == ~EarlyReuse /\ Spec => []NeverDestroyedInUse
<1>1. IInv => NeverDestroyedInUse
  <2> SUFFICES ASSUME IInv PROVE NeverDestroyedInUse
    OBVIOUS
  <2>1. linked \subseteq inuse
    BY DEF IInv, FilesTellTruth
  <2>2. ASSUME NEW h \in Handles, ref[h] # NoVnode
        PROVE  vnid[ref[h]] \in inuse
    <3>1. ref[h] \in Vnodes /\ ~busy[ref[h]] /\ vnid[ref[h]] \in Ids
      BY <2>2, RefsCounted
    <3>2. ~Gone(ref[h])
      BY <3>1 DEF IInv, Gone, BusyHasOneOwner, Working
    <3> QED
      BY <3>1, <3>2, VnodeAssumption DEF IInv, FilesTellTruth
  <2> QED
    BY <2>1, <2>2 DEF NeverDestroyedInUse
<1> QED
  BY <1>1, VnodeInvariant, PTL

\* The file system has at most one private copy of a file in core.
THEOREM VnodeOneCopy == ~EarlyReuse /\ Spec => []OneCopyInCore
<1>1. IInv => OneCopyInCore
  BY DEF IInv, TypeOK, CoreTellsTruth, OneCopyInCore
<1> QED
  BY <1>1, VnodeInvariant, PTL

\* Nothing recycles a vnode under a thread that references it.
THEOREM VnodeIdentityKept == ~EarlyReuse /\ Spec => IdentityKept
<1> DEFINE Kept == \A h \in Handles :
              ref[h] # NoVnode /\ ref'[h] = ref[h]
                => vnid'[ref[h]] = vnid[ref[h]]
<1>1. ASSUME IInv, [Next]_vars PROVE [Kept]_vars
  <2> SUFFICES ASSUME Next, NEW h \in Handles, ref[h] # NoVnode
               PROVE  vnid'[ref[h]] = vnid[ref[h]]
    BY <1>1
  <2>1. /\ ref[h] \in Vnodes /\ inlist[ref[h]] = "LOCKED" /\ ~busy[ref[h]]
        /\ TypeOK /\ \A t \in Threads : Working(t) => tvn[t] # ref[h]
    BY <1>1, RefsCounted DEF IInv, BusyHasOneOwner
  <2>2. ASSUME NEW t \in Threads, LoadStep(t)
        PROVE  vnid'[ref[h]] = vnid[ref[h]]
    BY <2>1, <2>2
       DEF LoadStep, LoadBusy, WakeUp, LoadHit, LoadFlushed, LoadPanic,
       ReadOk, ReadFails, LoadMiss, LoadSteal, ClearAndMove, On, Working, TypeOK,
       vnodeVars
  <2>3. ASSUME NEW t \in Threads, NewStep(t)
        PROVE  vnid'[ref[h]] = vnid[ref[h]]
    BY <2>1, <2>3 DEF NewStep, NewNoVnode, NewFlushed, NewFree, NewSteal, On,
       Working, TypeOK, vnodeVars
  <2>4. ASSUME NEW t \in Threads, DecStep(t)
        PROVE  vnid'[ref[h]] = vnid[ref[h]]
    BY <2>1, <2>4 DEF DecStep, DecShared, DecRemove, DecCache, DecFlushed,
       RemoveCall, RemoveDone, DecEvict, ClearAndMove, Working, TypeOK, vnodeVars
  <2>5. ASSUME NEW t \in Threads, CallStart(t)
        PROVE  vnid'[ref[h]] = vnid[ref[h]]
    BY <2>5
       DEF CallStart, GetVnode, Create, DoCreate, DropRef, PutVnode, StartDec,
           IncVnode,
       Unlink, Relink, vnodeVars
  <2> QED
    BY <2>2, <2>3, <2>4, <2>5 DEF Next, CallStep
<1> QED
  BY <1>1, VnodeInvariant, PTL DEF Spec, IdentityKept

=============================================================================
