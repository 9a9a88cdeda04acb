-------------------------- MODULE BenaphoreProofs --------------------------
(***************************************************************************)
(* Benaphore keeps its inductive invariant LockInv, hence mutual           *)
(* exclusion, and implements Mutex, for every finite set of threads.       *)
(***************************************************************************)
EXTENDS Benaphore, FiniteSetTheorems, TLAPS

\* Inside is a finite set, and its size is 0 exactly when it is empty.
LEMMA InsideFinite ==
    /\ IsFiniteSet(Inside)
    /\ Cardinality(Inside) \in Nat
    /\ Cardinality(Inside) = 0 <=> Inside = {}
<1>1. Inside \subseteq Threads
  BY DEF Inside
<1>2. IsFiniteSet(Inside)
  BY <1>1, FS_Subset, ThreadsAssumption
<1> QED
  BY <1>2, FS_EmptySet, FS_CardinalityType

\* new_lock establishes the invariant.
LEMMA InitInv == Init => LockInv
<1> SUFFICES ASSUME Init PROVE LockInv
  OBVIOUS
<1>1. TypeOK
  BY DEF Init, TypeOK, Places
<1>2. Inside = {} /\ MayPass = {} /\ At("wait") = {} /\ At("post") = {}
  BY DEF Init, Inside, MayPass, At
<1>3. Cardinality(Inside) = 0
  BY <1>2, FS_EmptySet
<1> QED
  BY <1>1, <1>2, <1>3 DEF LockInv, Init, CounterCounts, OnePermit,
                          NoLostWakeup, NoStrayPermit

\* The atomic_add of LOCK keeps the invariant.
LEMMA LockStep ==
    ASSUME LockInv, NEW t \in Threads, Lock(t)
    PROVE  LockInv'
<1> USE DEF LockInv, TypeOK, Places, Lock
<1>1. TypeOK'
  OBVIOUS
<1>2. t \notin Inside /\ Inside' = Inside \cup {t}
  BY DEF Inside
<1>3. CounterCounts'
  <2>1. Cardinality(Inside') = Cardinality(Inside) + 1
    BY <1>2, InsideFinite, FS_AddElement
  <2> QED
    BY <2>1, InsideFinite DEF CounterCounts
<1>4. CASE c <= 0
  <2>1. pc' = [pc EXCEPT ![t] = "wait"] /\ s' = s
    BY <1>4
  <2>2. Inside # {}
    BY <1>4, InsideFinite DEF CounterCounts
  <2>3. MayPass' = MayPass /\ At("post")' = At("post") /\ t \in At("wait")'
    BY <2>1 DEF MayPass, At
  <2>4. MayPass # {} \/ s > 0
    BY <2>2 DEF NoLostWakeup, Inside, MayPass, At
  <2> QED
    BY <1>1, <1>3, <2>1, <2>3, <2>4 DEF OnePermit, NoLostWakeup, NoStrayPermit
<1>5. CASE ~(c <= 0)
  <2>1. pc' = [pc EXCEPT ![t] = "in"] /\ s' = s
    BY <1>5
  <2>2. Inside = {}
    BY <1>5, InsideFinite DEF CounterCounts
  <2>3. At("wait") = {} /\ At("post") = {} /\ s = 0
    BY <2>2 DEF NoStrayPermit, OnePermit, Inside, At
  <2>4. MayPass = {}
    BY <2>2, <2>3 DEF Inside, MayPass, At
  <2>5. MayPass' = {t} /\ At("wait")' = {} /\ At("post")' = {}
    BY <2>1, <2>3, <2>4 DEF MayPass, At
  <2> QED
    BY <1>1, <1>3, <2>1, <2>3, <2>5 DEF OnePermit, NoLostWakeup, NoStrayPermit
<1> QED
  BY <1>4, <1>5

\* Returning from acquire_sem keeps the invariant.
LEMMA AcquireStep ==
    ASSUME LockInv, NEW t \in Threads, acquire_sem(t)
    PROVE  LockInv'
<1> USE DEF LockInv, TypeOK, Places, acquire_sem
<1>1. TypeOK'
  OBVIOUS
<1>2. Inside' = Inside
  BY DEF Inside
<1>3. s = 1 /\ s' = 0 /\ MayPass = {} /\ At("post") = {}
  BY DEF OnePermit, MayPass, At
<1>4. MayPass' = {t} /\ At("post")' = {}
  BY <1>3 DEF MayPass, At
<1> QED
  BY <1>1, <1>2, <1>3, <1>4 DEF CounterCounts, OnePermit, NoLostWakeup,
                                NoStrayPermit

\* The atomic_add of UNLOCK keeps the invariant.
LEMMA UnlockStep ==
    ASSUME LockInv, NEW t \in Threads, Unlock(t)
    PROVE  LockInv'
<1> USE DEF LockInv, TypeOK, Places, Unlock
<1>1. TypeOK'
  OBVIOUS
<1>2. t \in Inside /\ Inside' = Inside \ {t}
  BY DEF Inside
<1>3. Cardinality(Inside') = Cardinality(Inside) - 1
  BY <1>2, InsideFinite, FS_RemoveElement
<1>4. CounterCounts'
  BY <1>3, InsideFinite DEF CounterCounts
<1>5. t \in MayPass /\ MayPass = {t} /\ s = 0 /\ At("post") = {}
  BY DEF OnePermit, MayPass, At
<1>6. At("wait")' = At("wait") /\ s' = 0
  BY <1>5 DEF At
<1>7. At("wait") = Inside'
  BY <1>2, <1>5 DEF At, Inside, MayPass
<1>8. CASE c < 0
  <2>1. pc' = [pc EXCEPT ![t] = "post"]
    BY <1>8
  <2>2. Cardinality(Inside') # 0
    BY <1>8, <1>3, InsideFinite DEF CounterCounts
  <2>3. At("wait") # {}
    BY <2>2, <1>7, FS_EmptySet
  <2>4. MayPass' = {t}
    BY <2>1, <1>5 DEF MayPass
  <2> QED
    BY <1>1, <1>4, <1>6, <2>3, <2>4 DEF OnePermit, NoLostWakeup, NoStrayPermit
<1>9. CASE ~(c < 0)
  <2>1. pc' = [pc EXCEPT ![t] = "out"]
    BY <1>9
  <2>2. IsFiniteSet(Inside') /\ Cardinality(Inside') = 0
    BY <1>9, <1>2, <1>3, InsideFinite, FS_RemoveElement DEF CounterCounts
  <2>3. At("wait")' = {}
    BY <2>2, <1>6, <1>7, FS_EmptySet
  <2>4. MayPass' = {} /\ At("post")' = {}
    BY <2>1, <1>5 DEF MayPass, At
  <2> QED
    BY <1>1, <1>4, <1>6, <2>3, <2>4 DEF OnePermit, NoLostWakeup, NoStrayPermit
<1> QED
  BY <1>8, <1>9

\* release_sem keeps the invariant.
LEMMA ReleaseStep ==
    ASSUME LockInv, NEW t \in Threads, release_sem(t)
    PROVE  LockInv'
<1> USE DEF LockInv, TypeOK, Places, release_sem
<1>1. TypeOK'
  OBVIOUS
<1>2. Inside' = Inside /\ At("wait")' = At("wait")
  BY DEF Inside, At
<1>3. t \in MayPass /\ MayPass = {t} /\ s = 0
  BY DEF OnePermit, MayPass
<1>4. MayPass' = {} /\ s' = 1
  BY <1>3 DEF MayPass
<1>5. At("wait") # {}
  BY DEF NoStrayPermit, At
<1> QED
  BY <1>1, <1>2, <1>4, <1>5 DEF CounterCounts, OnePermit, NoLostWakeup,
                                NoStrayPermit

\* LockInv is an invariant of the lock, for any finite set of threads.
THEOREM LockInvariant == Spec => []LockInv
<1>1. LockInv /\ UNCHANGED vars => LockInv'
  BY DEF LockInv, vars, TypeOK, CounterCounts, OnePermit, NoLostWakeup,
         NoStrayPermit, Inside, MayPass, At
<1>2. LockInv /\ [Next]_vars => LockInv'
  BY <1>1, LockStep, AcquireStep, UnlockStep, ReleaseStep DEF Next
<1> QED
  BY InitInv, <1>2, PTL DEF Spec

\* LOCK and UNLOCK give mutual exclusion, for any finite set of threads.
THEOREM LockMutualExclusion == Spec => []MutualExclusion
<1>1. LockInv => MutualExclusion
  BY DEF LockInv, OnePermit, MutualExclusion, MayPass, At
<1> QED
  BY <1>1, LockInvariant, PTL

\* A thread that need not wait overtakes nobody: c > 0 says none is inside.
THEOREM LockNoBarging == Spec => NoBarging
<1>1. ASSUME LockInv, [Next]_vars, NEW t \in Threads,
             pc[t] = "out", pc'[t] = "in"
      PROVE  At("wait") = {}
  <2>1. Lock(t) /\ c > 0
    BY <1>1 DEF Next, Lock, acquire_sem, Unlock, release_sem, LockInv, TypeOK,
                vars
  <2>2. Cardinality(Inside) = 0
    BY <1>1, <2>1, InsideFinite, FS_CardinalityType
       DEF LockInv, TypeOK, CounterCounts
  <2>3. Inside = {}
    BY <2>2, InsideFinite, FS_EmptySet
  <2> QED
    BY <2>3 DEF Inside, At
<1>2. LockInv /\ [Next]_vars =>
        [\A t \in Threads : pc[t] = "out" /\ pc'[t] = "in" => At("wait") = {}]_vars
  BY <1>1
<1> QED
  BY <1>2, LockInvariant, PTL DEF Spec, NoBarging

-----------------------------------------------------------------------------
\* While a thread is between LOCK and UNLOCK it is the owner.
LEMMA OwnerIsIn ==
    ASSUME LockInv, NEW t \in Threads, pc[t] = "in"
    PROVE  Owner = t
<1>1. t \in At("in") /\ \A u \in Threads : pc[u] = "in" => u = t
  BY DEF LockInv, OnePermit, MayPass, At
<1> QED
  BY <1>1 DEF Owner, OnlyOf

\* With nobody between LOCK and UNLOCK, nobody owns the lock.
LEMMA NoOwner == At("in") = {} => Owner = NoThread
  BY DEF Owner, OnlyOf

\* The lock implements the abstract Mutex: entering is Take, UNLOCK is Give.
THEOREM LockImplementsMutex == Spec => ImplementsMutex
<1>1. Init => Abstract!Init
  BY NoOwner DEF Init, At, Abstract!Init
<1>2. ASSUME LockInv, LockInv', [Next]_vars
      PROVE  [Abstract!Next]_Owner
  <2> USE DEF LockInv, TypeOK, Places
  <2>1. ASSUME NEW t \in Threads, Lock(t)
        PROVE  [Abstract!Next]_Owner
    <3>1. CASE pc' = [pc EXCEPT ![t] = "wait"]
      <4>1. \A u \in Threads : pc'[u] = "in" <=> pc[u] = "in"
        BY <2>1, <3>1 DEF Lock
      <4>2. At("in")' = At("in")
        BY <4>1 DEF At
      <4>3. Owner' = Owner
        BY <4>2, Zenon DEF Owner
      <4> QED
        BY <4>3
    <3>2. CASE pc' = [pc EXCEPT ![t] = "in"]
      <4>1. pc'[t] = "in" /\ Owner' = t
        BY <1>2, <3>2, OwnerIsIn DEF Owner, OnlyOf, At, OnePermit, MayPass
      <4>2. At("in") = {}
        BY <1>2, <2>1, <3>2 DEF Lock, At, OnePermit, MayPass
      <4> QED
        BY <4>1, <4>2, NoOwner DEF Abstract!Next, Abstract!Take
    <3> QED
      BY <2>1, <3>1, <3>2 DEF Lock
  <2>2. ASSUME NEW t \in Threads, acquire_sem(t)
        PROVE  [Abstract!Next]_Owner
    <3>1. pc'[t] = "in" /\ Owner' = t
      BY <1>2, <2>2 DEF Owner, OnlyOf, At, OnePermit, MayPass, acquire_sem
    <3>2. At("in") = {}
      BY <1>2, <2>2 DEF acquire_sem, At, OnePermit, MayPass
    <3> QED
      BY <3>1, <3>2, NoOwner DEF Abstract!Next, Abstract!Take
  <2>3. ASSUME NEW t \in Threads, Unlock(t)
        PROVE  [Abstract!Next]_Owner
    <3>1. Owner = t
      BY <1>2, <2>3, OwnerIsIn DEF Unlock
    <3>2. At("in")' = {}
      BY <1>2, <2>3 DEF Unlock, At, OnePermit, MayPass
    <3> QED
      BY <3>1, <3>2 DEF Owner, OnlyOf, Abstract!Next, Abstract!Give
  <2>4. ASSUME NEW t \in Threads, release_sem(t)
        PROVE  [Abstract!Next]_Owner
    <3>1. \A u \in Threads : pc'[u] = "in" <=> pc[u] = "in"
      BY <1>2, <2>4 DEF release_sem
    <3>2. At("in")' = At("in")
      BY <3>1 DEF At
    <3>3. Owner' = Owner
      BY <3>2, Zenon DEF Owner
    <3> QED
      BY <3>3
  <2>5. CASE UNCHANGED vars
    BY <2>5 DEF vars, Owner, At
  <2> QED
    BY <1>2, <2>1, <2>2, <2>3, <2>4, <2>5 DEF Next
<1> QED
  BY <1>1, <1>2, LockInvariant, PTL DEF Spec, ImplementsMutex, Abstract!Spec
=============================================================================
