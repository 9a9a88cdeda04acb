----------------------------- MODULE VnodeLayer -----------------------------
(***************************************************************************)
(* The in-core vnode table of kernel.c: get_vnode, put_vnode, new_vnode,   *)
(* remove_vnode, unremove_vnode and the routines under them (load_vnode,   *)
(* dec_vnode, inc_vnode, flush_vnode, clear_vnode, steal_vnode).           *)
(*                                                                         *)
(* A fixed array of vnodes sits on three lists.  FREE vnodes have no       *)
(* identity, USED ones cache a file nobody references, LOCKED ones are     *)
(* referenced or being worked on.  A skip list finds the vnode of an id.   *)
(* All of it is protected by vnlock, but vnlock is dropped around every    *)
(* call into the file system (read_vnode, release_vnode, remove_vnode);    *)
(* meanwhile the busy flag keeps others away from the vnode.               *)
(*                                                                         *)
(* A step is one critical section of vnlock (module Benaphore shows that   *)
(* they exclude each other), with the file system call that precedes it    *)
(* when that call touches only the file system's own data.  The exception  *)
(* is remove_vnode, which frees the id for reuse: it is a step of its own. *)
(*                                                                         *)
(* An id stands for a (namespace, vnode number) pair.  Every caller holds  *)
(* a reference into the namespace it works in, so nsidtons finds it.  List *)
(* order is left out: stealing takes any member of the list.  malloc in    *)
(* InsertSL succeeds.                                                      *)
(***************************************************************************)
EXTENDS Integers, FiniteSets

CONSTANTS Threads,    \* kernel threads
          Vnodes,     \* the vnode array of init_vnode_layer
          Ids,        \* vnode ids the file system can hand out
          Slots,      \* references one thread can hold at a time (a bound)
          usdvnnum,   \* how many unreferenced vnodes stay cached
          EarlyReuse, \* may new_vnode get an id whose old vnode is still there?
          NoThread, NoVnode, NoId

ASSUME VnodeAssumption ==
    /\ IsFiniteSet(Threads) /\ IsFiniteSet(Vnodes) /\ IsFiniteSet(Slots)
    /\ usdvnnum \in Nat
    /\ EarlyReuse \in BOOLEAN
    /\ NoThread \notin Threads /\ NoVnode \notin Vnodes /\ NoId \notin Ids

VARIABLES
    vnid,      \* id of each vnode; NoId also stands for ns == NULL
    inlist,    \* the list each vnode is on
    rcnt,      \* its reference count
    busy,      \* its busy flag
    remove,    \* its remove flag
    skiplist,  \* the vnode the skip list finds for an id
    vnlock,    \* who keeps vnlock from one step to the next
    pc,        \* where each thread is
    tid,       \* the vnid argument of the call a thread is in
    tvn,       \* the vnode (local variable vn or ovn) it works on
    ref,       \* the references each thread holds, by slot
    inuse,     \* ids the file system has allocated
    linked,    \* ids a directory entry leads to
    core       \* file system private data (vn->data) alive for an id

vnodeVars  == <<vnid, inlist, rcnt, busy, remove, skiplist>>
threadVars == <<pc, tid, tvn>>
fsVars     == <<inuse, linked, core>>
vars == <<vnodeVars, vnlock, threadVars, ref, fsVars>>

Lists == {"FREE", "USED", "LOCKED"}

(***************************************************************************)
(* Places of a thread.  load_vnode: "load" at the top of its loop, "snooze"*)
(* asleep with vnlock released, "loadflush" in release_vnode, "read" in    *)
(* read_vnode, "panic" out of vnodes.  new_vnode: "new" at its entry,      *)
(* "newflush" in release_vnode.  dec_vnode: "dec" at its entry, "remove"   *)
(* in remove_vnode, "removed" back from it, "decflush" in release_vnode.   *)
(***************************************************************************)
Places == {"idle", "load", "snooze", "loadflush", "read", "panic",
           "new", "newflush", "dec", "remove", "removed", "decflush"}

Handles == Threads \X Slots

Init ==
    /\ vnid = [v \in Vnodes |-> NoId]
    /\ inlist = [v \in Vnodes |-> "FREE"]
    /\ rcnt = [v \in Vnodes |-> 0]
    /\ busy = [v \in Vnodes |-> FALSE]
    /\ remove = [v \in Vnodes |-> FALSE]
    /\ skiplist = [i \in Ids |-> NoVnode]
    /\ vnlock = NoThread
    /\ pc = [t \in Threads |-> "idle"]
    /\ tid = [t \in Threads |-> NoId]
    /\ tvn = [t \in Threads |-> NoVnode]
    /\ ref = [h \in Handles |-> NoVnode]
    /\ inuse = {} /\ linked = {}
    /\ core = [i \in Ids |-> 0]
-----------------------------------------------------------------------------
On(list) == {v \in Vnodes : inlist[v] = list}

FreeSlot(t) == \E s \in Slots : ref[<<t, s>>] = NoVnode

\* The thread can enter the critical section (or never left it).
LOCK(t) == vnlock \in {NoThread, t}

\* The call returns a counted reference to v.
Return(t, v) ==
    /\ \E s \in Slots : /\ ref[<<t, s>>] = NoVnode
                        /\ ref' = [ref EXCEPT ![<<t, s>>] = v]
    /\ pc' = [pc EXCEPT ![t] = "idle"]
    /\ tid' = [tid EXCEPT ![t] = NoId]
    /\ tvn' = [tvn EXCEPT ![t] = NoVnode]

\* The call returns without one.
Finish(t) ==
    /\ pc' = [pc EXCEPT ![t] = "idle"]
    /\ tid' = [tid EXCEPT ![t] = NoId]
    /\ tvn' = [tvn EXCEPT ![t] = NoVnode]

\* clear_vnode(v) and then move_vnode(v, list).  DeleteSL compares ids.
ClearAndMove(v, list) ==
    /\ skiplist' = [skiplist EXCEPT ![vnid[v]] = NoVnode]
    /\ vnid' = [vnid EXCEPT ![v] = NoId]
    /\ remove' = [remove EXCEPT ![v] = FALSE]
    /\ rcnt' = [rcnt EXCEPT ![v] = 0]
    /\ busy' = [busy EXCEPT ![v] = FALSE]
    /\ inlist' = [inlist EXCEPT ![v] = list]

\* sort_vnode: InsertSL refuses a second vnode with the same id, and its
\* answer DUPLICATE_ITEM (-1) passes sort_vnode's test for failure.
Sorted(v, i) == IF skiplist[i] = NoVnode THEN [skiplist EXCEPT ![i] = v]
                                         ELSE skiplist

\* steal_vnode(USED_LIST) and the part of flush_vnode before its UNLOCK.
StealAndFlush(v) ==
    /\ inlist' = [inlist EXCEPT ![v] = "LOCKED"]
    /\ busy' = [busy EXCEPT ![v] = TRUE]

\* The file system drops, in release_vnode or remove_vnode, what v caches.
Dropped(v) == [core EXCEPT ![vnid[v]] = @ - 1]
-----------------------------------------------------------------------------
(***************************************************************************)
(* Mistakes a maintainer of load_vnode, flush_vnode or dec_vnode could     *)
(* make, used to show that the properties below would notice them.         *)
(***************************************************************************)
\* load_vnode sleeps with vnlock held.
LoadBusyMut(t) ==
    /\ pc[t] = "load" /\ LOCK(t)
    /\ skiplist[tid[t]] # NoVnode /\ busy[skiplist[tid[t]]]
    /\ pc' = [pc EXCEPT ![t] = "snooze"]
    /\ vnlock' = t
    /\ UNCHANGED <<vnodeVars, tid, tvn, ref, fsVars>>

\* load_vnode takes a vnode that is busy.
LoadHitMutBusy(t) ==
    LET v == skiplist[tid[t]] IN
    /\ pc[t] = "load" /\ LOCK(t) /\ v # NoVnode
    /\ rcnt' = [rcnt EXCEPT ![v] = @ + 1]
    /\ inlist' = [inlist EXCEPT ![v] = IF rcnt[v] = 0 THEN "LOCKED" ELSE @]
    /\ Return(t, v)
    /\ vnlock' = NoThread
    /\ UNCHANGED <<vnid, busy, remove, skiplist, fsVars>>

\* load_vnode sets the count of the vnode it found instead of raising it.
LoadHitMutCount(t) ==
    LET v == skiplist[tid[t]] IN
    /\ pc[t] = "load" /\ LOCK(t) /\ v # NoVnode /\ ~busy[v]
    /\ rcnt' = [rcnt EXCEPT ![v] = 1]
    /\ inlist' = [inlist EXCEPT ![v] = "LOCKED"]
    /\ Return(t, v)
    /\ vnlock' = NoThread
    /\ UNCHANGED <<vnid, busy, remove, skiplist, fsVars>>

\* load_vnode reads the file into the vnode it evicted without looking again.
LoadFlushedMut(t) ==
    LET v == tvn[t] IN
    /\ pc[t] = "loadflush" /\ LOCK(t)
    /\ core' = Dropped(v)
    /\ skiplist' = [skiplist EXCEPT ![vnid[v]] = NoVnode, ![tid[t]] = v]
    /\ vnid' = [vnid EXCEPT ![v] = tid[t]]
    /\ pc' = [pc EXCEPT ![t] = "read"]
    /\ UNCHANGED <<inlist, rcnt, busy, remove, vnlock, tid, tvn, ref, inuse, linked>>

\* dec_vnode looks at the remove flag before it looks at the count.
DecRemoveMut(t) ==
    LET v == tvn[t] IN
    /\ pc[t] = "dec" /\ LOCK(t) /\ remove[v]
    /\ rcnt' = [rcnt EXCEPT ![v] = 0]
    /\ busy' = [busy EXCEPT ![v] = TRUE]
    /\ inlist' = [inlist EXCEPT ![v] = "LOCKED"]
    /\ pc' = [pc EXCEPT ![t] = "remove"]
    /\ UNCHANGED <<vnid, remove, skiplist, vnlock, tid, tvn, ref, fsVars>>
-----------------------------------------------------------------------------
(***************************************************************************)
(* get_vnode / load_vnode.  The walk holds the file system's lock from the *)
(* directory lookup until get_vnode returns.                               *)
(***************************************************************************)
GetVnode(t, i) ==
    /\ pc[t] = "idle" /\ i \in linked /\ FreeSlot(t)
    /\ pc' = [pc EXCEPT ![t] = "load"]
    /\ tid' = [tid EXCEPT ![t] = i]
    /\ UNCHANGED <<vnodeVars, vnlock, tvn, ref, fsVars>>

\* The vnode is there but busy: UNLOCK, snooze.
LoadBusy(t) ==
    /\ pc[t] = "load" /\ LOCK(t)
    /\ skiplist[tid[t]] # NoVnode /\ busy[skiplist[tid[t]]]
    /\ pc' = [pc EXCEPT ![t] = "snooze"]
    /\ vnlock' = NoThread
    /\ UNCHANGED <<vnodeVars, tid, tvn, ref, fsVars>>

WakeUp(t) ==
    /\ pc[t] = "snooze"
    /\ pc' = [pc EXCEPT ![t] = "load"]
    /\ UNCHANGED <<vnodeVars, vnlock, tid, tvn, ref, fsVars>>

\* The vnode is there: one more reference; off the USED list if the first.
LoadHit(t) ==
    LET v == skiplist[tid[t]] IN
    /\ pc[t] = "load" /\ LOCK(t)
    /\ v # NoVnode /\ ~busy[v]
    /\ rcnt' = [rcnt EXCEPT ![v] = @ + 1]
    /\ inlist' = [inlist EXCEPT ![v] = IF rcnt[v] = 0 THEN "LOCKED" ELSE @]
    /\ Return(t, v)
    /\ vnlock' = NoThread
    /\ UNCHANGED <<vnid, busy, remove, skiplist, fsVars>>

\* Not there and a vnode is free: publish it as busy, then read_vnode.
LoadMiss(t, v) ==
    /\ pc[t] = "load" /\ LOCK(t)
    /\ skiplist[tid[t]] = NoVnode /\ v \in On("FREE")
    /\ vnid' = [vnid EXCEPT ![v] = tid[t]]
    /\ busy' = [busy EXCEPT ![v] = TRUE]
    /\ skiplist' = Sorted(v, tid[t])
    /\ inlist' = [inlist EXCEPT ![v] = "LOCKED"]
    /\ tvn' = [tvn EXCEPT ![t] = v]
    /\ pc' = [pc EXCEPT ![t] = "read"]
    /\ vnlock' = NoThread
    /\ UNCHANGED <<rcnt, remove, tid, ref, fsVars>>

\* Not there and none free: evict an unreferenced one.
LoadSteal(t, v) ==
    /\ pc[t] = "load" /\ LOCK(t)
    /\ skiplist[tid[t]] = NoVnode /\ On("FREE") = {} /\ v \in On("USED")
    /\ StealAndFlush(v)
    /\ tvn' = [tvn EXCEPT ![t] = v]
    /\ pc' = [pc EXCEPT ![t] = "loadflush"]
    /\ vnlock' = NoThread
    /\ UNCHANGED <<vnid, rcnt, remove, skiplist, tid, ref, fsVars>>

\* release_vnode, then LOCK, clear, move to FREE and round the loop again.
LoadFlushed(t) ==
    /\ pc[t] = "loadflush" /\ LOCK(t)
    /\ core' = Dropped(tvn[t])
    /\ ClearAndMove(tvn[t], "FREE")
    /\ tvn' = [tvn EXCEPT ![t] = NoVnode]
    /\ pc' = [pc EXCEPT ![t] = "load"]
    /\ vnlock' = t
    /\ UNCHANGED <<tid, ref, inuse, linked>>

\* Not there, none free, none to evict: PANIC prints and the NULL vnode is
\* dereferenced with vnlock held.
LoadPanic(t) ==
    /\ pc[t] = "load" /\ LOCK(t)
    /\ skiplist[tid[t]] = NoVnode /\ On("FREE") = {} /\ On("USED") = {}
    /\ pc' = [pc EXCEPT ![t] = "panic"]
    /\ vnlock' = t
    /\ UNCHANGED <<vnodeVars, tid, tvn, ref, fsVars>>

\* read_vnode succeeded: the first reference.
ReadOk(t) ==
    LET v == tvn[t] IN
    /\ pc[t] = "read" /\ LOCK(t)
    /\ core' = [core EXCEPT ![tid[t]] = @ + 1]
    /\ busy' = [busy EXCEPT ![v] = FALSE]
    /\ rcnt' = [rcnt EXCEPT ![v] = 1]
    /\ Return(t, v)
    /\ UNCHANGED <<vnid, inlist, remove, skiplist, vnlock, inuse, linked>>

\* read_vnode failed (error2).
ReadFails(t) ==
    /\ pc[t] = "read" /\ LOCK(t)
    /\ ClearAndMove(tvn[t], "FREE")
    /\ Finish(t)
    /\ UNCHANGED <<vnlock, ref, fsVars>>
-----------------------------------------------------------------------------
(***************************************************************************)
(* new_vnode: the file system has allocated the id of a file it creates    *)
(* (myfs_create and myfs_mkdir; an id that nothing refers to any more      *)
(* stands for a new one).  myfs takes any free inode number, and an inode  *)
(* is free as soon as myfs_remove_vnode freed it, before dec_vnode has     *)
(* taken the vnode off the skip list: that is EarlyReuse.  Without it the  *)
(* creating thread and the removing one are not in myfs at the same time,  *)
(* which is all that myfs is meant for (README).                           *)
(***************************************************************************)
Create(t, i) ==
    /\ pc[t] = "idle" /\ FreeSlot(t)
    /\ i \notin inuse /\ (EarlyReuse \/ skiplist[i] = NoVnode)
    /\ inuse' = inuse \cup {i}
    /\ pc' = [pc EXCEPT ![t] = "new"]
    /\ tid' = [tid EXCEPT ![t] = i]
    /\ UNCHANGED <<vnodeVars, vnlock, tvn, ref, linked, core>>

\* do_create of rootfs: the id comes from a counter and the name is there at
\* once; a vnode is loaded only when somebody walks to it.
DoCreate(t, i) ==
    /\ pc[t] = "idle" /\ i \notin inuse /\ skiplist[i] = NoVnode
    /\ inuse' = inuse \cup {i}
    /\ linked' = linked \cup {i}
    /\ UNCHANGED <<vnodeVars, vnlock, threadVars, ref, core>>

\* Nothing on either list: ENOMEM, and the file system gives up the file.
NewNoVnode(t) ==
    /\ pc[t] = "new" /\ LOCK(t)
    /\ On("FREE") = {} /\ On("USED") = {}
    /\ inuse' = inuse \ {tid[t]}
    /\ Finish(t)
    /\ UNCHANGED <<vnodeVars, vnlock, ref, linked, core>>

\* A free vnode gets the id and the first reference; the new name appears.
NewFree(t, v) ==
    LET i == tid[t] IN
    /\ pc[t] = "new" /\ LOCK(t) /\ v \in On("FREE")
    /\ vnid' = [vnid EXCEPT ![v] = i]
    /\ rcnt' = [rcnt EXCEPT ![v] = 1]
    /\ inlist' = [inlist EXCEPT ![v] = "LOCKED"]
    /\ skiplist' = Sorted(v, i)
    /\ core' = [core EXCEPT ![i] = @ + 1]
    /\ linked' = linked \cup {i}
    /\ Return(t, v)
    /\ UNCHANGED <<busy, remove, vnlock, inuse>>

NewSteal(t, v) ==
    /\ pc[t] = "new" /\ LOCK(t)
    /\ On("FREE") = {} /\ v \in On("USED")
    /\ StealAndFlush(v)
    /\ tvn' = [tvn EXCEPT ![t] = v]
    /\ pc' = [pc EXCEPT ![t] = "newflush"]
    /\ UNCHANGED <<vnid, rcnt, remove, skiplist, vnlock, tid, ref, fsVars>>

\* release_vnode of the evicted file, LOCK, clear, and the vnode, still on
\* the LOCKED list, gets the new id.
NewFlushed(t) ==
    LET v == tvn[t]
        i == tid[t]
        cleared == [skiplist EXCEPT ![vnid[v]] = NoVnode] IN
    /\ pc[t] = "newflush" /\ LOCK(t)
    /\ skiplist' = IF cleared[i] = NoVnode THEN [cleared EXCEPT ![i] = v]
                                           ELSE cleared
    /\ vnid' = [vnid EXCEPT ![v] = i]
    /\ rcnt' = [rcnt EXCEPT ![v] = 1]
    /\ busy' = [busy EXCEPT ![v] = FALSE]
    /\ remove' = [remove EXCEPT ![v] = FALSE]
    /\ core' = [Dropped(v) EXCEPT ![i] = @ + 1]
    /\ linked' = linked \cup {i}
    /\ Return(t, v)
    /\ UNCHANGED <<inlist, vnlock, inuse>>
-----------------------------------------------------------------------------
(***************************************************************************)
(* Dropping a reference.  The kernel calls dec_vnode with the vnode itself;*)
(* a file system calls put_vnode, which looks the id up first and unlocks  *)
(* before it calls dec_vnode.                                              *)
(***************************************************************************)
StartDec(t, h, v) ==
    /\ ref' = [ref EXCEPT ![h] = NoVnode]
    /\ tvn' = [tvn EXCEPT ![t] = v]
    /\ pc' = [pc EXCEPT ![t] = "dec"]
    /\ UNCHANGED <<vnodeVars, vnlock, tid, fsVars>>

DropRef(t, s) ==
    /\ pc[t] = "idle" /\ ref[<<t, s>>] # NoVnode
    /\ StartDec(t, <<t, s>>, ref[<<t, s>>])

PutVnode(t, s) ==
    LET h == <<t, s>>
        v == skiplist[vnid[ref[h]]] IN
    /\ pc[t] = "idle" /\ ref[h] # NoVnode /\ LOCK(t)
    /\ \/ v # NoVnode /\ StartDec(t, h, v)
       \/ v = NoVnode /\ ref' = [ref EXCEPT ![h] = NoVnode]   \* ENOENT
                      /\ UNCHANGED <<vnodeVars, vnlock, threadVars, fsVars>>

\* Others still hold references.
DecShared(t) ==
    LET v == tvn[t] IN
    /\ pc[t] = "dec" /\ LOCK(t) /\ rcnt[v] # 1
    /\ rcnt' = [rcnt EXCEPT ![v] = @ - 1]
    /\ Finish(t)
    /\ UNCHANGED <<vnid, inlist, busy, remove, skiplist, vnlock, ref, fsVars>>

\* The last reference to a removed file: busy, and off to remove_vnode.
DecRemove(t) ==
    LET v == tvn[t] IN
    /\ pc[t] = "dec" /\ LOCK(t) /\ rcnt[v] = 1 /\ remove[v]
    /\ rcnt' = [rcnt EXCEPT ![v] = 0]
    /\ busy' = [busy EXCEPT ![v] = TRUE]
    /\ inlist' = [inlist EXCEPT ![v] = "LOCKED"]
    /\ pc' = [pc EXCEPT ![t] = "remove"]
    /\ UNCHANGED <<vnid, remove, skiplist, vnlock, tid, tvn, ref, fsVars>>

\* The last reference: the vnode joins the USED list.
DecCache(t) ==
    LET v == tvn[t] IN
    /\ pc[t] = "dec" /\ LOCK(t) /\ rcnt[v] = 1 /\ ~remove[v]
    /\ Cardinality(On("USED") \cup {v}) <= usdvnnum
    /\ rcnt' = [rcnt EXCEPT ![v] = 0]
    /\ inlist' = [inlist EXCEPT ![v] = "USED"]
    /\ Finish(t)
    /\ UNCHANGED <<vnid, busy, remove, skiplist, vnlock, ref, fsVars>>

\* The last reference, and the USED list is over its limit: evict ovn.
DecEvict(t, ovn) ==
    LET v == tvn[t] IN
    /\ pc[t] = "dec" /\ LOCK(t) /\ rcnt[v] = 1 /\ ~remove[v]
    /\ Cardinality(On("USED") \cup {v}) > usdvnnum
    /\ ovn \in On("USED") \cup {v}
    /\ rcnt' = [rcnt EXCEPT ![v] = 0]
    /\ inlist' = [inlist EXCEPT ![v] = "USED", ![ovn] = "LOCKED"]
    /\ busy' = [busy EXCEPT ![ovn] = TRUE]
    /\ tvn' = [tvn EXCEPT ![t] = ovn]
    /\ pc' = [pc EXCEPT ![t] = "decflush"]
    /\ UNCHANGED <<vnid, remove, skiplist, vnlock, tid, ref, fsVars>>

DecFlushed(t) ==
    /\ pc[t] = "decflush" /\ LOCK(t)
    /\ core' = Dropped(tvn[t])
    /\ ClearAndMove(tvn[t], "FREE")
    /\ Finish(t)
    /\ UNCHANGED <<vnlock, ref, inuse, linked>>

\* The file system's remove_vnode frees the file and its id; no vnlock.
RemoveCall(t) ==
    LET v == tvn[t] IN
    /\ pc[t] = "remove"
    /\ core' = Dropped(v)
    /\ inuse' = inuse \ {vnid[v]}
    /\ pc' = [pc EXCEPT ![t] = "removed"]
    /\ UNCHANGED <<vnodeVars, vnlock, tid, tvn, ref, linked>>

RemoveDone(t) ==
    /\ pc[t] = "removed" /\ LOCK(t)
    /\ ClearAndMove(tvn[t], "FREE")
    /\ Finish(t)
    /\ UNCHANGED <<vnlock, ref, fsVars>>
-----------------------------------------------------------------------------
\* inc_vnode on a vnode the caller already references.
IncVnode(t, s) ==
    LET v == ref[<<t, s>>] IN
    /\ pc[t] = "idle" /\ LOCK(t) /\ v # NoVnode /\ FreeSlot(t)
    /\ rcnt' = [rcnt EXCEPT ![v] = @ + 1]
    /\ Return(t, v)
    /\ UNCHANGED <<vnid, inlist, busy, remove, skiplist, vnlock, fsVars>>

\* remove_vnode / unremove_vnode set the flag of the vnode the id leads to.
SetRemove(i, flag) ==
    LET w == skiplist[i] IN
    remove' = IF w = NoVnode THEN remove
              ELSE IF rcnt[w] = 0 THEN remove
              ELSE [remove EXCEPT ![w] = flag]

(***************************************************************************)
(* unlink: under the file system's lock, so no walk to the id is under     *)
(* way; the name goes first, then remove_vnode.                            *)
(***************************************************************************)
Loading(t) == pc[t] \in {"load", "snooze", "loadflush", "read", "panic"}

Walking(i) == \E t \in Threads : Loading(t) /\ tid[t] = i

Unlink(t, s) ==
    LET v == ref[<<t, s>>] IN
    /\ pc[t] = "idle" /\ LOCK(t) /\ v # NoVnode
    /\ vnid[v] \in linked /\ ~Walking(vnid[v])
    /\ linked' = linked \ {vnid[v]}
    /\ SetRemove(vnid[v], TRUE)
    /\ UNCHANGED <<vnid, inlist, rcnt, busy, skiplist, vnlock, threadVars, ref,
                   inuse, core>>

\* The file system takes an unlink back.
Relink(t, s) ==
    LET v == ref[<<t, s>>] IN
    /\ pc[t] = "idle" /\ LOCK(t) /\ v # NoVnode
    /\ vnid[v] \in Ids \ linked
    /\ linked' = linked \cup {vnid[v]}
    /\ SetRemove(vnid[v], FALSE)
    /\ UNCHANGED <<vnid, inlist, rcnt, busy, skiplist, vnlock, threadVars, ref,
                   inuse, core>>
-----------------------------------------------------------------------------
LoadStep(t) ==
    \/ LoadBusy(t) \/ WakeUp(t) \/ LoadHit(t) \/ LoadFlushed(t)
    \/ LoadPanic(t) \/ ReadOk(t) \/ ReadFails(t)
    \/ \E v \in Vnodes : LoadMiss(t, v) \/ LoadSteal(t, v)

NewStep(t) ==
    \/ NewNoVnode(t) \/ NewFlushed(t)
    \/ \E v \in Vnodes : NewFree(t, v) \/ NewSteal(t, v)

DecStep(t) ==
    \/ DecShared(t) \/ DecRemove(t) \/ DecCache(t) \/ DecFlushed(t)
    \/ RemoveCall(t) \/ RemoveDone(t)
    \/ \E v \in Vnodes : DecEvict(t, v)

\* A step inside a call that is under way.
CallStep(t) == LoadStep(t) \/ NewStep(t) \/ DecStep(t)

\* A thread starts a call.
CallStart(t) ==
    \/ \E i \in Ids : GetVnode(t, i) \/ Create(t, i) \/ DoCreate(t, i)
    \/ \E s \in Slots : \/ DropRef(t, s) \/ PutVnode(t, s) \/ IncVnode(t, s)
                        \/ Unlink(t, s) \/ Relink(t, s)

Next == \E t \in Threads : CallStart(t) \/ CallStep(t)

Spec == Init /\ [][Next]_vars

\* A thread inside a call keeps running; file system calls return.
FairSpec == Spec /\ \A t \in Threads : SF_vars(CallStep(t))
-----------------------------------------------------------------------------
TypeOK ==
    /\ vnid \in [Vnodes -> Ids \cup {NoId}]
    /\ inlist \in [Vnodes -> Lists]
    /\ rcnt \in [Vnodes -> Nat]
    /\ busy \in [Vnodes -> BOOLEAN]
    /\ remove \in [Vnodes -> BOOLEAN]
    /\ skiplist \in [Ids -> Vnodes \cup {NoVnode}]
    /\ vnlock \in Threads \cup {NoThread}
    /\ pc \in [Threads -> Places]
    /\ tid \in [Threads -> Ids \cup {NoId}]
    /\ tvn \in [Threads -> Vnodes \cup {NoVnode}]
    /\ ref \in [Handles -> Vnodes \cup {NoVnode}]
    /\ inuse \subseteq Ids /\ linked \subseteq Ids
    /\ core \in [Ids -> Int]

\* The references to v that are held, and those dec_vnode is about to drop.
HeldRefs(v) == {h \in Handles : ref[h] = v}
DyingRefs(v) == {t \in Threads : pc[t] = "dec" /\ tvn[t] = v}

\* The thread is in a file system call on behalf of vnode tvn[t].
Working(t) == pc[t] \in {"loadflush", "read", "newflush", "remove", "removed",
                         "decflush"}

(***************************************************************************)
(* The skip list and the vnode array agree: the vnode of an id is the one  *)
(* load_vnode, put_vnode and remove_vnode find for it, and no two vnodes   *)
(* ever stand for the same file, although vnlock is dropped while a vnode  *)
(* is loaded, flushed or removed (load_vnode, flush_vnode, dec_vnode).     *)
(* Like the properties below, it takes that ids are not reused early.      *)
(***************************************************************************)
OneVnodePerId ==
    /\ \A v \in Vnodes : vnid[v] # NoId => skiplist[vnid[v]] = v
    /\ \A i \in Ids : skiplist[i] # NoVnode => vnid[skiplist[i]] = i

(***************************************************************************)
(* rcnt is exactly the number of references handed out by load_vnode,      *)
(* new_vnode and inc_vnode and not yet dropped by dec_vnode.               *)
(***************************************************************************)
RefCountExact == \A v \in Vnodes :
    rcnt[v] = Cardinality(HeldRefs(v)) + Cardinality(DyingRefs(v))

(***************************************************************************)
(* The list a vnode is on tells what may be done with it: FREE vnodes are  *)
(* blank, USED ones are identified, idle and unreferenced (so steal_vnode  *)
(* may take them), and a referenced vnode is LOCKED and not busy.          *)
(***************************************************************************)
ListsTellTruth == \A v \in Vnodes :
    /\ inlist[v] = "FREE" => vnid[v] = NoId /\ rcnt[v] = 0
                              /\ ~busy[v] /\ ~remove[v]
    /\ inlist[v] = "USED" => vnid[v] # NoId /\ rcnt[v] = 0
                              /\ ~busy[v] /\ ~remove[v]
    /\ inlist[v] = "LOCKED" => vnid[v] # NoId /\ (rcnt[v] > 0 <=> ~busy[v])

(***************************************************************************)
(* busy is a lock: a vnode is busy exactly while one thread is in a file   *)
(* system call for it, so two threads never load, flush or remove the same *)
(* vnode at once.                                                          *)
(***************************************************************************)
BusyHasOneOwner ==
    /\ \A v \in Vnodes : busy[v] => \E t \in Threads : Working(t) /\ tvn[t] = v
    /\ \A t \in Threads : Working(t) => tvn[t] \in Vnodes /\ busy[tvn[t]]
    /\ \A t, u \in Threads :
          Working(t) /\ Working(u) /\ tvn[t] = tvn[u] => t = u

(***************************************************************************)
(* read_vnode/new_vnode and release_vnode/remove_vnode calls pair up: the  *)
(* file system never has two private copies of one file in core and never  *)
(* releases one twice.  "The vnode layer does implement correct locking"   *)
(* (README): it holds as long as new_vnode is not called for an id whose   *)
(* vnode dec_vnode has still to clear (EarlyReuse).                        *)
(***************************************************************************)
OneCopyInCore == \A i \in Ids : core[i] \in {0, 1}

(***************************************************************************)
(* A file that is referenced, or that a name leads to, has not been        *)
(* destroyed: dec_vnode calls remove_vnode only after the last reference.  *)
(***************************************************************************)
NeverDestroyedInUse ==
    /\ \A h \in Handles : ref[h] # NoVnode => vnid[ref[h]] \in inuse
    /\ linked \subseteq inuse

(***************************************************************************)
(* A vnode keeps its identity for as long as somebody references it: it is *)
(* never stolen, cleared or recycled under its user.                       *)
(***************************************************************************)
IdentityKept == [][\A h \in Handles :
    ref[h] # NoVnode /\ ref'[h] = ref[h] => vnid'[ref[h]] = vnid[ref[h]]]_vars

\* load_vnode had no vnode left to use.
NoPanic == \A t \in Threads : pc[t] # "panic"

(***************************************************************************)
(* The removed file is destroyed, and any other busy vnode becomes usable  *)
(* again, unless load_vnode runs out of vnodes first: nobody snoozes in    *)
(* load_vnode on a vnode that stays busy forever.                          *)
(***************************************************************************)
BusyEnds == \A v \in Vnodes : busy[v] ~> (~busy[v] \/ ~NoPanic)
-----------------------------------------------------------------------------
(***************************************************************************)
(* The inductive invariant: what is left to say about a thread's local     *)
(* variables, the flags and the file system's view.                        *)
(***************************************************************************)
Creating(t) == pc[t] \in {"new", "newflush"}

CallsTellTruth ==
    /\ \A t \in Threads :
          /\ Loading(t) => tid[t] \in linked
          /\ Creating(t) => /\ tid[t] \in inuse \ linked
                            /\ skiplist[tid[t]] = NoVnode
          /\ pc[t] = "read" => vnid[tvn[t]] = tid[t]
          /\ pc[t] = "dec" => tvn[t] \in Vnodes
          /\ pc[t] \in {"remove", "removed"} => remove[tvn[t]]
    /\ \A t, u \in Threads :
          Creating(t) /\ Creating(u) /\ tid[t] = tid[u] => t = u

\* remove_vnode has been called exactly for the files without a name.
RemoveTellsTruth == \A v \in Vnodes :
    vnid[v] # NoId => (remove[v] <=> vnid[v] \notin linked)

\* A vnode outlives its file only between remove_vnode and clear_vnode.
Gone(v) == \E t \in Threads : pc[t] = "removed" /\ tvn[t] = v
BeingRead(v) == \E t \in Threads : pc[t] = "read" /\ tvn[t] = v

FilesTellTruth ==
    /\ linked \subseteq inuse
    /\ \A v \in Vnodes : vnid[v] # NoId /\ ~Gone(v) => vnid[v] \in inuse

CoreTellsTruth == \A i \in Ids :
    /\ skiplist[i] = NoVnode => core[i] = 0
    /\ \A v \in Vnodes : skiplist[i] = v =>
          core[i] = IF Gone(v) \/ BeingRead(v) THEN 0 ELSE 1

IInv ==
    /\ TypeOK
    /\ OneVnodePerId
    /\ RefCountExact
    /\ ListsTellTruth
    /\ BusyHasOneOwner
    /\ CallsTellTruth
    /\ RemoveTellsTruth
    /\ FilesTellTruth
    /\ CoreTellsTruth
=============================================================================
