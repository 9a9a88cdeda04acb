----------------------------- MODULE Benaphore -----------------------------
(***************************************************************************)
(* The lock of lock.h, used by the vnode layer, the block cache and the    *)
(* file systems: an atomic counter c that starts at 1 and a semaphore s    *)
(* that starts at 0.                                                       *)
(*                                                                         *)
(*   LOCK(l)    if (atomic_add(&l.c, -1) <= 0) acquire_sem(l.s);           *)
(*   UNLOCK(l)  if (atomic_add(&l.c,  1) <  0) release_sem(l.s);           *)
(*                                                                         *)
(* atomic_add and the semaphore are primitives of the host kernel; stub.c  *)
(* replaces them by single-threaded stand-ins.  atomic_add is one step;    *)
(* acquire_sem waits for a positive count and takes one unit of it.        *)
(***************************************************************************)
EXTENDS Integers, FiniteSets

CONSTANTS Threads,   \* the threads that use the lock
          NoThread   \* "nobody"

ASSUME ThreadsAssumption == IsFiniteSet(Threads) /\ NoThread \notin Threads

VARIABLES c,    \* lock.c
          s,    \* the count of the semaphore lock.s
          pc    \* where each thread is in LOCK ... UNLOCK

vars == <<c, s, pc>>

(***************************************************************************)
(* "out" not using the lock, "wait" in acquire_sem, "in" between LOCK and  *)
(* UNLOCK, "post" past the atomic_add of UNLOCK and about to release_sem.  *)
(***************************************************************************)
Places == {"out", "wait", "in", "post"}

(***************************************************************************)
(* Mistakes a maintainer of lock.h could make, used to show that the       *)
(* properties below would notice them.                                     *)
(***************************************************************************)
\* LOCK compares with < 0: the second thread does not wait.
LockMut(t) ==
    /\ pc[t] = "out"
    /\ c' = c - 1
    /\ pc' = [pc EXCEPT ![t] = IF c < 0 THEN "wait" ELSE "in"]
    /\ UNCHANGED s

\* UNLOCK compares with < -1: the last waiter is never woken.
UnlockMutForgets(t) ==
    /\ pc[t] = "in"
    /\ c' = c + 1
    /\ pc' = [pc EXCEPT ![t] = IF c < -1 THEN "post" ELSE "out"]
    /\ UNCHANGED s

\* new_lock: c = 1, create_sem(0).
Init ==
    /\ c = 1
    /\ s = 0
    /\ pc = [t \in Threads |-> "out"]

\* The atomic_add of LOCK: the old value decides whether to wait.
Lock(t) ==
    /\ pc[t] = "out"
    /\ c' = c - 1
    /\ pc' = [pc EXCEPT ![t] = IF c <= 0 THEN "wait" ELSE "in"]
    /\ UNCHANGED s

\* acquire_sem returns.
acquire_sem(t) ==
    /\ pc[t] = "wait"
    /\ s > 0
    /\ s' = s - 1
    /\ pc' = [pc EXCEPT ![t] = "in"]
    /\ UNCHANGED c

\* The atomic_add of UNLOCK: the old value decides whether somebody waits.
Unlock(t) ==
    /\ pc[t] = "in"
    /\ c' = c + 1
    /\ pc' = [pc EXCEPT ![t] = IF c < 0 THEN "post" ELSE "out"]
    /\ UNCHANGED s

release_sem(t) ==
    /\ pc[t] = "post"
    /\ s' = s + 1
    /\ pc' = [pc EXCEPT ![t] = "out"]
    /\ UNCHANGED c

Next == \E t \in Threads :
          Lock(t) \/ acquire_sem(t) \/ Unlock(t) \/ release_sem(t)

Spec == Init /\ [][Next]_vars

(***************************************************************************)
(* A thread inside LOCK or UNLOCK keeps running, and code that holds a     *)
(* lock reaches its UNLOCK; a thread need not ask for the lock again.      *)
(***************************************************************************)
Fairness == \A t \in Threads :
    /\ WF_vars(acquire_sem(t))
    /\ WF_vars(Unlock(t))
    /\ WF_vars(release_sem(t))

FairSpec == Spec /\ Fairness
-----------------------------------------------------------------------------
TypeOK ==
    /\ c \in Int
    /\ s \in Nat
    /\ pc \in [Threads -> Places]

At(place) == {t \in Threads : pc[t] = place}

\* The threads that LOCK has counted and UNLOCK has not yet discounted.
Inside == {t \in Threads : pc[t] \in {"wait", "in"}}

\* The one permission to enter is a thread inside, one handing over, or s.
MayPass == {t \in Threads : pc[t] \in {"in", "post"}}

(***************************************************************************)
(* Two threads are never both between LOCK and UNLOCK (lock.h:19-20).      *)
(***************************************************************************)
MutualExclusion == \A t, u \in At("in") : t = u

(***************************************************************************)
(* No wakeup is lost: while a thread waits in acquire_sem, either somebody *)
(* holds the lock, or a release_sem is under way, or the semaphore already *)
(* holds the unit the waiter needs.                                        *)
(***************************************************************************)
NoLostWakeup == At("wait") # {} => (MayPass # {} \/ s > 0)

(***************************************************************************)
(* No permission is left over: a unit in the semaphore, or a release_sem   *)
(* under way, is always meant for a thread that waits.  Otherwise a later  *)
(* acquire_sem would let a second thread in.                               *)
(***************************************************************************)
NoStrayPermit == (s > 0 \/ At("post") # {}) => At("wait") # {}

(***************************************************************************)
(* Nobody overtakes: a thread that enters without acquire_sem does so when *)
(* no other thread waits.  So of two threads neither can keep the other    *)
(* out by unlocking and locking again.                                     *)
(***************************************************************************)
NoBarging == [][\A t \in Threads :
    pc[t] = "out" /\ pc'[t] = "in" => At("wait") = {}]_vars

(***************************************************************************)
(* The inductive invariant: c counts the threads inside, and exactly one   *)
(* permission to enter exists whenever somebody is inside.                 *)
(***************************************************************************)
CounterCounts == c = 1 - Cardinality(Inside)

OnePermit ==
    /\ s \in {0, 1}
    /\ s = 1 => MayPass = {}
    /\ \A t, u \in MayPass : t = u

LockInv ==
    /\ TypeOK
    /\ CounterCounts
    /\ OnePermit
    /\ NoLostWakeup
    /\ NoStrayPermit
-----------------------------------------------------------------------------
(***************************************************************************)
(* The lock implements Mutex: the owner is the thread between LOCK and     *)
(* UNLOCK; waiting and handing over are stuttering steps.                  *)
(***************************************************************************)
OnlyOf(S) == IF S = {} THEN NoThread ELSE CHOOSE t \in S : TRUE

Owner == OnlyOf(At("in"))

Abstract == INSTANCE Mutex WITH holder <- Owner

ImplementsMutex == Abstract!Spec

(***************************************************************************)
(* Under the fairness above a thread that waits in acquire_sem is followed *)
(* by somebody getting the lock: the lock never wedges.  Which waiter gets *)
(* it is the host semaphore's choice.                                      *)
(***************************************************************************)
SomebodyEnters == (At("wait") # {} /\ At("in") = {}) ~> (At("in") # {})
=============================================================================
