----------------------------- MODULE BlockCache -----------------------------
(***************************************************************************)
(* The write-back block cache of cache.c: cache_block_io (get_block,       *)
(* get_empty_block, cached_read, cached_write, cached_write_locked),       *)
(* release_block, mark_blocks_dirty, set_blocks_info, flush_device,        *)
(* flush_blocks, force_cache_flush and remove_cached_device_blocks.        *)
(*                                                                         *)
(* A fixed pool of cache entries holds copies of disk blocks.  Unlocked    *)
(* entries are on the normal list and may be evicted; a client that called *)
(* get_block works on the entry's memory directly and keeps it on the      *)
(* locked list.  The log (set_blocks_info) clones a block: the clone must  *)
(* reach the disk, and its callback be made, before any newer contents.    *)
(* bc.lock protects all of it but is dropped for every disk transfer;      *)
(* meanwhile CE_BUSY keeps others away from the entries involved.          *)
(*                                                                         *)
(* A step is one critical section of bc.lock or one disk transfer.  The    *)
(* contents of a block are a version number; Torn is a half-made change.   *)
(* LRU order is left out (any idle normal entry may be evicted), requests  *)
(* are for one block of one device plus read-ahead, all blocks have one    *)
(* size, malloc succeeds and writes to the disk succeed.  Transfers of     *)
(* 64 KB or more, which bypass the cache, are not part of this module.     *)
(***************************************************************************)
EXTENDS Integers, FiniteSets

CONSTANTS Threads,     \* threads that use the cache
          Ents,        \* the pool of bc.max_blocks cache entries
          NBlocks,     \* max_device_blocks of the device
          ReadAhead,   \* read_ahead_size / bsize
          MaxVersion,  \* bound on the number of changes of one block
          MaxHeld,     \* bound on the blocks one thread has locked at a time
          Ops,         \* the operations the clients use
          NoThread, NoEnt

Blocks == 0 .. NBlocks - 1
NoBlock == -1          \* block_num of an entry that holds no block (dev == -1)
Torn == -1             \* contents in the middle of a change, or never set
NoClone == -2          \* ce->clone == NULL

Readers == {"get_block", "cached_read"}
Writers == {"get_empty_block", "cached_write", "cached_write_locked"}
Lockers == {"get_block", "get_empty_block", "cached_write_locked"}
Flushers == {"flush_device", "flush_blocks", "force_cache_flush"}
Others == {"modify", "set_blocks_info", "remove_cached_device_blocks"}

ASSUME CacheAssumption ==
    /\ IsFiniteSet(Threads) /\ IsFiniteSet(Ents)
    /\ NBlocks \in Nat \ {0} /\ ReadAhead \in Nat \ {0}
    /\ MaxVersion \in Nat /\ MaxHeld \in Nat
    /\ Ops \subseteq Readers \cup Writers \cup Flushers \cup Others
    /\ NoThread \notin Threads /\ NoEnt \notin Ents

VARIABLES
    hash,     \* the hash table: the entry found for a block
    bnum,     \* the block an entry holds
    where,    \* "unused" (not allocated), "normal", "locked", or "taken"
              \* (off the lists, in the hands of cache_block_io)
    dirty, busy, lock, clone, data,    \* flags and fields of an entry
    bclock,   \* who keeps bc.lock from one step to the next
    pc, op, blk,                       \* the call each thread is in
    need,     \* the blocks it brings in: the one asked for and read-ahead
    got,      \* ents: the entries it has marked busy
    tgt,      \* which of them each needed block goes to
    holds,    \* the blocks a thread has locked and not yet released
    writer,   \* the thread that is changing a block (file system's locks)
    disk,     \* contents of the disk
    latest,   \* ghost: the newest complete contents of a block
    logged    \* ghost: the logged contents whose callback is still due

entVars == <<bnum, where, dirty, busy, lock, clone, data>>
callVars == <<pc, op, blk, need, got, tgt>>
clientVars == <<holds, writer, latest>>
diskVars == <<disk, logged>>
vars == <<hash, entVars, bclock, callVars, clientVars, diskVars>>

NoTarget == [b \in Blocks |-> NoEnt]

Init ==
    /\ hash = [b \in Blocks |-> NoEnt]
    /\ bnum = [e \in Ents |-> NoBlock]
    /\ where = [e \in Ents |-> "unused"]
    /\ dirty = [e \in Ents |-> FALSE]
    /\ busy = [e \in Ents |-> FALSE]
    /\ lock = [e \in Ents |-> 0]
    /\ clone = [e \in Ents |-> NoClone]
    /\ data = [e \in Ents |-> Torn]
    /\ bclock = NoThread
    /\ pc = [t \in Threads |-> "idle"]
    /\ op = [t \in Threads |-> "none"]
    /\ blk = [t \in Threads |-> NoBlock]
    /\ need = [t \in Threads |-> {}]
    /\ got = [t \in Threads |-> {}]
    /\ tgt = [t \in Threads |-> NoTarget]
    /\ holds = [t \in Threads |-> {}]
    /\ writer = [b \in Blocks |-> NoThread]
    /\ disk = [b \in Blocks |-> 0]
    /\ latest = [b \in Blocks |-> 0]
    /\ logged = [b \in Blocks |-> NoClone]
-----------------------------------------------------------------------------
LOCK(t) == bclock \in {NoThread, t}

On(list) == {e \in Ents : where[e] = list}

\* What get_ents may pluck, and what flush_cache_ent has work on.
Avail == {e \in On("normal") : ~busy[e]}
NeedsFlush(e) == dirty[e] \/ clone[e] # NoClone

\* A mistake: flush_ents forgets the clones.
FlushedMut(t) == \A e \in got[t] : lock[e] = 0 => ~dirty[e]

\* Nothing left that flush_ents may write: data of a locked entry stays.
Flushed(t) == \A e \in got[t] :
    clone[e] = NoClone /\ (lock[e] = 0 => ~dirty[e])

\* The call is over; a locked block is the caller's until release_block.
EndCall(t) ==
    /\ pc' = [pc EXCEPT ![t] = "idle"]
    /\ op' = [op EXCEPT ![t] = "none"]
    /\ blk' = [blk EXCEPT ![t] = NoBlock]
    /\ need' = [need EXCEPT ![t] = {}]
    /\ got' = [got EXCEPT ![t] = {}]
    /\ tgt' = [tgt EXCEPT ![t] = NoTarget]

\* cache_block_io succeeded: what the caller of each operation gets.
Succeed(t) ==
    /\ EndCall(t)
    /\ holds' = [holds EXCEPT ![t] = IF op[t] \in Lockers THEN @ \cup {blk[t]}
                                                          ELSE @]
    /\ writer' = [writer EXCEPT ![blk[t]] = IF op[t] \in Writers THEN NoThread
                                                                 ELSE @]
    /\ latest' = [latest EXCEPT ![blk[t]] = IF op[t] \in Writers THEN @ + 1
                                                                 ELSE @]
-----------------------------------------------------------------------------
(***************************************************************************)
(* cache_block_io.  The file system's own locks keep two threads from      *)
(* changing a block at once.                                               *)
(***************************************************************************)
Call(t, o, b) ==
    /\ pc[t] = "idle" /\ o \in Ops
    /\ o \in Lockers => b \notin holds[t] /\ Cardinality(holds[t]) < MaxHeld
    /\ o \in Writers => writer[b] = NoThread /\ latest[b] < MaxVersion
    /\ pc' = [pc EXCEPT ![t] = "lookup"]
    /\ op' = [op EXCEPT ![t] = o]
    /\ blk' = [blk EXCEPT ![t] = b]
    /\ writer' = IF o \in Writers THEN [writer EXCEPT ![b] = t] ELSE writer
    /\ UNCHANGED <<hash, entVars, bclock, need, got, tgt, holds, latest, diskVars>>

\* block_lookup found an entry that is not busy (it sleeps while it is).
Hit(t) ==
    LET e == hash[blk[t]] IN
    /\ pc[t] = "lookup" /\ LOCK(t) /\ e # NoEnt /\ ~busy[e]
    /\ lock' = [lock EXCEPT ![e] = IF op[t] \in Lockers THEN @ + 1 ELSE @]
    /\ where' = [where EXCEPT ![e] = IF lock'[e] > 0 THEN "locked" ELSE "normal"]
    /\ dirty' = [dirty EXCEPT ![e] = @ \/ op[t] \in Writers]
    /\ data' = [data EXCEPT ![e] = IF op[t] \in Writers THEN latest[blk[t]] + 1
                                                        ELSE @]
    /\ Succeed(t)
    /\ UNCHANGED <<hash, bnum, busy, clone, bclock, diskVars>>

\* Not cached: the block itself and, for reads, those after it that are not
\* cached either, up to the read-ahead limit and the end of the device.
Wanted(t) ==
    LET b == blk[t] IN
    IF op[t] \in Readers
    THEN {c \in Blocks : /\ b <= c /\ c < b + ReadAhead
                         /\ \A d \in b .. c : hash[d] = NoEnt}
    ELSE {b}

\* Inside get_ents: just called, or awake again from its snooze.
Missing(t) == pc[t] = "lookup" /\ hash[blk[t]] = NoEnt
Retrying(t) == pc[t] = "getents"

Needed(t) == IF Retrying(t) THEN need[t] ELSE Wanted(t)

\* new_cache_ent for as many as the pool allows, on the first pass only.
Fresh(t) == {F \in SUBSET On("unused") :
    Cardinality(F) = IF Retrying(t) THEN 0
                     ELSE IF Cardinality(On("unused")) < Cardinality(Wanted(t))
                          THEN Cardinality(On("unused"))
                          ELSE Cardinality(Wanted(t))}

\* Too few idle entries: keep those marked so far busy, UNLOCK, snooze.
GetEntsShort(t, F) ==
    /\ Missing(t) \/ (Retrying(t) /\ Avail # {})
    /\ LOCK(t) /\ F \in Fresh(t)
    /\ Cardinality(got[t] \cup F \cup Avail) < Cardinality(Needed(t))
    /\ busy' = [e \in Ents |-> busy[e] \/ e \in F \cup Avail]
    /\ where' = [e \in Ents |-> IF e \in F THEN "taken" ELSE where[e]]
    /\ got' = [got EXCEPT ![t] = @ \cup F \cup Avail]
    /\ need' = [need EXCEPT ![t] = Needed(t)]
    /\ pc' = [pc EXCEPT ![t] = "getents"]
    /\ UNCHANGED <<hash, bnum, dirty, lock, clone, data, bclock, op, blk, tgt,
                   clientVars, diskVars>>

\* "waited too long": panic spins forever, after UNLOCK.
GetEntsTimeout(t) ==
    /\ Retrying(t) /\ LOCK(t)
    /\ Cardinality(got[t] \cup Avail) < Cardinality(need[t])
    /\ pc' = [pc EXCEPT ![t] = "panic"]
    /\ UNCHANGED <<hash, entVars, bclock, op, blk, need, got, tgt, clientVars,
                   diskVars>>

\* get_ents has the entries F and P it needs and, if the last one is dirty,
\* more entries X to flush along with it.
Collected(t, F, P, X) ==
    /\ Missing(t) \/ Retrying(t)
    /\ LOCK(t) /\ F \in Fresh(t)
    /\ P \subseteq Avail /\ X \subseteq Avail \ P
    /\ Cardinality(got[t] \cup F \cup P) = Cardinality(Needed(t))
    /\ X # {} => \E e \in P : NeedsFlush(e)

\* qsort by block number (new entries first): needed blocks go to the first.
Assigned(t, all) == {f \in [Needed(t) -> all] :
    /\ \A b, c \in Needed(t) : b < c => f[b] # f[c] /\ bnum[f[b]] <= bnum[f[c]]
    /\ \A b \in Needed(t), e \in all :
          (\A c \in Needed(t) : f[c] # e) => bnum[f[b]] <= bnum[e]}

\* Somebody else brought a needed block in during the snooze: hash_insert
\* answers EEXIST, and panic spins with bc.lock held.
InsertPanic(t, P) ==
    /\ Retrying(t) /\ Collected(t, {}, P, {})
    /\ \E b \in need[t] : hash[b] # NoEnt
    /\ busy' = [e \in Ents |-> busy[e] \/ e \in P]
    /\ got' = [got EXCEPT ![t] = @ \cup P]
    /\ pc' = [pc EXCEPT ![t] = "panic"]
    /\ bclock' = t
    /\ UNCHANGED <<hash, bnum, where, dirty, lock, clone, data, op, blk, need, tgt,
                   clientVars, diskVars>>

\* A mistake: the old numbers leave the hash table before the flush.
StartIOMut(t, F, P, X, f) ==
    LET all == got[t] \cup F \cup P \cup X
        targets == {f[b] : b \in Needed(t)} IN
    /\ Collected(t, F, P, X) /\ f \in Assigned(t, all)
    /\ \A b \in Needed(t) : hash[b] = NoEnt
    /\ hash' = [b \in Blocks |-> IF b \in Needed(t) THEN f[b]
                                 ELSE IF hash[b] \in targets THEN NoEnt
                                 ELSE hash[b]]
    /\ busy' = [e \in Ents |-> busy[e] \/ e \in all]
    /\ where' = [e \in Ents |-> IF e \in all THEN "taken" ELSE where[e]]
    /\ need' = [need EXCEPT ![t] = Needed(t)]
    /\ got' = [got EXCEPT ![t] = all]
    /\ tgt' = [tgt EXCEPT ![t] =
                 [b \in Blocks |-> IF b \in Needed(t) THEN f[b] ELSE NoEnt]]
    /\ pc' = [pc EXCEPT ![t] = "io"]
    /\ bclock' = IF op[t] \in Readers \/ \E e \in all : NeedsFlush(e)
                 THEN NoThread ELSE t
    /\ UNCHANGED <<bnum, dirty, lock, clone, data, op, blk, clientVars, diskVars>>

\* Enter the needed blocks into the hash table (the old numbers stay), take
\* everything off the lists, and UNLOCK if there is I/O to do.
StartIO(t, F, P, X, f) ==
    LET all == got[t] \cup F \cup P \cup X IN
    /\ Collected(t, F, P, X) /\ f \in Assigned(t, all)
    /\ \A b \in Needed(t) : hash[b] = NoEnt
    /\ hash' = [b \in Blocks |-> IF b \in Needed(t) THEN f[b] ELSE hash[b]]
    /\ busy' = [e \in Ents |-> busy[e] \/ e \in all]
    /\ where' = [e \in Ents |-> IF e \in all THEN "taken" ELSE where[e]]
    /\ need' = [need EXCEPT ![t] = Needed(t)]
    /\ got' = [got EXCEPT ![t] = all]
    /\ tgt' = [tgt EXCEPT ![t] =
                 [b \in Blocks |-> IF b \in Needed(t) THEN f[b] ELSE NoEnt]]
    /\ pc' = [pc EXCEPT ![t] = "io"]
    /\ bclock' = IF op[t] \in Readers \/ \E e \in all : NeedsFlush(e)
                 THEN NoThread ELSE t
    /\ UNCHANGED <<bnum, dirty, lock, clone, data, op, blk, clientVars, diskVars>>

\* read_into_ents, after flush_ents: one transfer into all needed entries.
ReadPhys(t) ==
    /\ pc[t] = "io" /\ op[t] \in Readers /\ Flushed(t)
    /\ data' = [e \in Ents |-> IF \E b \in need[t] : tgt[t][b] = e
                               THEN disk[CHOOSE b \in need[t] : tgt[t][b] = e]
                               ELSE data[e]]
    /\ pc' = [pc EXCEPT ![t] = "install"]
    /\ UNCHANGED <<hash, bnum, where, dirty, busy, lock, clone, bclock, op, blk,
                   need, got, tgt, clientVars, diskVars>>

ReadPhysFails(t) ==
    /\ pc[t] = "io" /\ op[t] \in Readers /\ Flushed(t)
    /\ pc' = [pc EXCEPT ![t] = "failed"]
    /\ UNCHANGED <<hash, entVars, bclock, op, blk, need, got, tgt, clientVars,
                   diskVars>>

Targets(t) == {tgt[t][b] : b \in need[t]}

OldNumbers(t) == {bnum[e] : e \in Targets(t)}

\* LOCK again: the old numbers leave the hash table, the entries get their
\* new ones, read-ahead and flushed entries go to the normal list.
Install(t) ==
    LET e0 == tgt[t][blk[t]] IN
    /\ \/ pc[t] = "install"
       \/ pc[t] = "io" /\ op[t] \in Writers /\ Flushed(t)
    /\ LOCK(t)
    /\ hash' = [b \in Blocks |-> IF b \in OldNumbers(t) THEN NoEnt ELSE hash[b]]
    /\ bnum' = [e \in Ents |-> IF e \in Targets(t)
                               THEN CHOOSE b \in need[t] : tgt[t][b] = e
                               ELSE bnum[e]]
    /\ busy' = [e \in Ents |-> busy[e] /\ e \notin got[t]]
    /\ dirty' = [dirty EXCEPT ![e0] = op[t] \in Writers]
    /\ clone' = [clone EXCEPT ![e0] = NoClone]
    /\ lock' = [lock EXCEPT ![e0] = IF op[t] \in Lockers THEN 1 ELSE 0]
    /\ data' = [data EXCEPT ![e0] = IF op[t] \in Writers THEN latest[blk[t]] + 1
                                                         ELSE @]
    /\ where' = [e \in Ents |->
                   IF e = e0 /\ op[t] \in Lockers THEN "locked"
                   ELSE IF e \in got[t] THEN "normal" ELSE where[e]]
    /\ bclock' = NoThread
    /\ Succeed(t)
    /\ UNCHANGED diskVars

\* The read failed: the needed entries are freed, the others go back.
GiveUp(t) ==
    /\ pc[t] = "failed" /\ LOCK(t)
    /\ hash' = [b \in Blocks |-> IF b \in OldNumbers(t) \cup need[t] THEN NoEnt
                                                                   ELSE hash[b]]
    /\ bnum' = [e \in Ents |-> IF e \in Targets(t) THEN NoBlock ELSE bnum[e]]
    /\ busy' = [e \in Ents |-> busy[e] /\ e \notin got[t]]
    /\ where' = [e \in Ents |-> IF e \in Targets(t) THEN "unused"
                                ELSE IF e \in got[t] THEN "normal" ELSE where[e]]
    /\ data' = [e \in Ents |-> IF e \in Targets(t) THEN Torn ELSE data[e]]
    /\ EndCall(t)
    /\ UNCHANGED <<dirty, lock, clone, bclock, clientVars, diskVars>>
-----------------------------------------------------------------------------
(***************************************************************************)
(* flush_ents / flush_cache_ent on the entries a call has marked busy: the *)
(* clone first, with its callback; then, unless locked, the data itself.   *)
(***************************************************************************)
Flushing(t) == pc[t] \in {"io", "info", "flush1", "flush2", "flush", "remove"}

FlushClone(t, e) ==
    /\ Flushing(t) /\ e \in got[t] /\ clone[e] # NoClone
    /\ disk' = [disk EXCEPT ![bnum[e]] = clone[e]]
    /\ logged' = [logged EXCEPT ![bnum[e]] = NoClone]
    /\ clone' = [clone EXCEPT ![e] = NoClone]
    /\ UNCHANGED <<hash, bnum, where, dirty, busy, lock, data, bclock, callVars,
                   clientVars>>

\* A mistake: the data is written although an older clone waits.
FlushDataMut(t, e) ==
    /\ Flushing(t) /\ e \in got[t]
    /\ dirty[e] /\ lock[e] = 0
    /\ disk' = [disk EXCEPT ![bnum[e]] = data[e]]
    /\ dirty' = [dirty EXCEPT ![e] = FALSE]
    /\ UNCHANGED <<hash, bnum, where, busy, lock, clone, data, bclock, callVars,
                   clientVars, logged>>

FlushData(t, e) ==
    /\ Flushing(t) /\ e \in got[t] /\ clone[e] = NoClone
    /\ dirty[e] /\ lock[e] = 0
    /\ disk' = [disk EXCEPT ![bnum[e]] = data[e]]
    /\ dirty' = [dirty EXCEPT ![e] = FALSE]
    /\ UNCHANGED <<hash, bnum, where, busy, lock, clone, data, bclock, callVars,
                   clientVars, logged>>

\* A call starts to flush the set E of entries it marks busy.
StartFlush(t, E, place) ==
    /\ busy' = [e \in Ents |-> (busy[e] /\ e \notin got[t]) \/ e \in E]
    /\ got' = [got EXCEPT ![t] = E]
    /\ pc' = [pc EXCEPT ![t] = place]
    /\ UNCHANGED <<hash, bnum, where, dirty, lock, clone, data, bclock, op, blk,
                   need, tgt, clientVars, diskVars>>

\* A mistake: flush_device does not skip busy entries.
NormalToFlushMut == {e \in On("normal") : NeedsFlush(e)}

NormalToFlush == {e \in Avail : NeedsFlush(e)}

LockedToFlush == {e \in On("locked") : ~busy[e] /\ clone[e] # NoClone}

\* flush_device: the normal list, and then the clones of the locked list.
flush_device(t) ==
    /\ pc[t] = "idle" /\ "flush_device" \in Ops /\ LOCK(t)
    /\ \/ NormalToFlush # {} /\ StartFlush(t, NormalToFlush, "flush1")
       \/ NormalToFlush = {} /\ LockedToFlush # {}
          /\ StartFlush(t, LockedToFlush, "flush2")

FlushDevice2(t) ==
    /\ pc[t] = "flush1" /\ Flushed(t) /\ LOCK(t) /\ LockedToFlush # {}
    /\ StartFlush(t, LockedToFlush, "flush2")

FlushDeviceDone(t) ==
    /\ Flushed(t) /\ LOCK(t)
    /\ pc[t] = "flush2" \/ (pc[t] = "flush1" /\ LockedToFlush = {})
    /\ StartFlush(t, {}, "idle")

flush_blocks(t, b) ==
    LET e == hash[b] IN
    /\ pc[t] = "idle" /\ "flush_blocks" \in Ops /\ LOCK(t)
    /\ e # NoEnt /\ ~busy[e] /\ NeedsFlush(e)
    /\ StartFlush(t, {e}, "flush")

force_cache_flush(t, prefer_log_blocks) ==
    LET E == {e \in NormalToFlush : prefer_log_blocks => clone[e] # NoClone}
             \cup LockedToFlush IN
    /\ pc[t] = "idle" /\ "force_cache_flush" \in Ops /\ LOCK(t)
    /\ E # {} /\ StartFlush(t, E, "flush")

\* A mistake: the entries stay busy.
FlushDoneMut(t) ==
    /\ pc[t] = "flush" /\ Flushed(t)
    /\ EndCall(t)
    /\ UNCHANGED <<hash, entVars, bclock, clientVars, diskVars>>

\* flush_blocks and force_cache_flush clear CE_BUSY without the lock.
FlushDone(t) ==
    /\ pc[t] = "flush" /\ Flushed(t)
    /\ StartFlush(t, {}, "idle")

\* At unmount, when nobody uses the device, with bc.lock held throughout:
\* write everything, then free everything.
remove_cached_device_blocks(t) ==
    /\ "remove_cached_device_blocks" \in Ops /\ LOCK(t)
    /\ \A u \in Threads : pc[u] = "idle" /\ holds[u] = {}
    /\ On("unused") # Ents
    /\ busy' = [e \in Ents |-> where[e] # "unused"]
    /\ got' = [got EXCEPT ![t] = {e \in Ents : where[e] # "unused"}]
    /\ pc' = [pc EXCEPT ![t] = "remove"]
    /\ bclock' = t
    /\ UNCHANGED <<hash, bnum, where, dirty, lock, clone, data, op, blk, need, tgt,
                   clientVars, diskVars>>

RemoveDone(t) ==
    /\ pc[t] = "remove" /\ Flushed(t)
    /\ hash' = NoTarget
    /\ bnum' = [e \in Ents |-> NoBlock]
    /\ where' = [e \in Ents |-> "unused"]
    /\ busy' = [e \in Ents |-> FALSE]
    /\ data' = [e \in Ents |-> Torn]
    /\ bclock' = NoThread
    /\ EndCall(t)
    /\ UNCHANGED <<dirty, lock, clone, clientVars, diskVars>>

\* The same call with NO_WRITES, which a refused mount makes: what is not on
\* the disk is given up on purpose, so the disk's contents are the newest.
\* Nothing goes to the log before the mount is done.
DiscardDeviceBlocks(t) ==
    /\ "remove_cached_device_blocks" \in Ops /\ LOCK(t)
    /\ \A u \in Threads : pc[u] = "idle" /\ holds[u] = {}
    /\ On("unused") # Ents /\ \A e \in Ents : clone[e] = NoClone
    /\ hash' = NoTarget
    /\ bnum' = [e \in Ents |-> NoBlock]
    /\ where' = [e \in Ents |-> "unused"]
    /\ dirty' = [e \in Ents |-> FALSE]
    /\ data' = [e \in Ents |-> Torn]
    /\ latest' = disk
    /\ UNCHANGED <<busy, lock, clone, bclock, callVars, holds, writer, diskVars>>
-----------------------------------------------------------------------------
(***************************************************************************)
(* A client changes a block it holds through the pointer get_block gave    *)
(* it, marks it dirty, and releases it or hands it to the log.             *)
(***************************************************************************)
BeginModify(t, b) ==
    /\ pc[t] = "idle" /\ "modify" \in Ops
    /\ b \in holds[t] /\ writer[b] = NoThread /\ latest[b] < MaxVersion
    /\ writer' = [writer EXCEPT ![b] = t]
    /\ data' = [data EXCEPT ![hash[b]] = Torn]
    /\ UNCHANGED <<hash, bnum, where, dirty, busy, lock, clone, bclock, callVars,
                   holds, latest, diskVars>>

EndModify(t, b) ==
    /\ pc[t] = "idle" /\ writer[b] = t /\ data[hash[b]] = Torn
    /\ data' = [data EXCEPT ![hash[b]] = latest[b] + 1]
    /\ latest' = [latest EXCEPT ![b] = @ + 1]
    /\ UNCHANGED <<hash, bnum, where, dirty, busy, lock, clone, bclock, callVars,
                   holds, writer, diskVars>>

mark_blocks_dirty(t, b) ==
    LET e == hash[b] IN
    /\ pc[t] = "idle" /\ LOCK(t) /\ writer[b] = t /\ data[e] # Torn /\ ~busy[e]
    /\ dirty' = [dirty EXCEPT ![e] = TRUE]
    /\ writer' = [writer EXCEPT ![b] = NoThread]
    /\ UNCHANGED <<hash, bnum, where, busy, lock, clone, data, bclock, callVars,
                   holds, latest, diskVars>>

\* A mistake: the entry leaves the locked list while others have it locked.
UnlockedMutEarly(t, b, e) ==
    /\ lock' = [lock EXCEPT ![e] = @ - 1]
    /\ where' = [where EXCEPT ![e] = "normal"]
    /\ holds' = [holds EXCEPT ![t] = @ \ {b}]

\* One lock less; the last one moves the entry to the normal list.
Unlocked(t, b, e) ==
    /\ lock' = [lock EXCEPT ![e] = @ - 1]
    /\ where' = [where EXCEPT ![e] = IF lock[e] = 1 THEN "normal" ELSE @]
    /\ holds' = [holds EXCEPT ![t] = @ \ {b}]

release_block(t, b) ==
    LET e == hash[b] IN
    /\ pc[t] = "idle" /\ LOCK(t)
    /\ b \in holds[t] /\ writer[b] # t /\ ~busy[e]
    /\ Unlocked(t, b, e)
    /\ UNCHANGED <<hash, bnum, dirty, busy, clone, data, bclock, callVars,
                   writer, latest, diskVars>>

(***************************************************************************)
(* set_blocks_info on a locked, dirty block: an older clone is flushed     *)
(* first, then the data is cloned and the lock handed back.                *)
(***************************************************************************)
SetInfo(t, b, e) ==
    /\ dirty' = [dirty EXCEPT ![e] = FALSE]
    /\ busy' = [busy EXCEPT ![e] = FALSE]
    /\ clone' = [clone EXCEPT ![e] = data[e]]
    /\ logged' = [logged EXCEPT ![b] = data[e]]
    /\ Unlocked(t, b, e)
    /\ writer' = [writer EXCEPT ![b] = NoThread]
    /\ EndCall(t)
    /\ UNCHANGED <<hash, bnum, data, bclock, latest, disk>>

set_blocks_info(t, b) ==
    LET e == hash[b] IN
    /\ pc[t] = "idle" /\ "set_blocks_info" \in Ops /\ LOCK(t)
    /\ b \in holds[t] /\ writer[b] = NoThread /\ ~busy[e] /\ dirty[e]
    /\ \/ clone[e] = NoClone /\ SetInfo(t, b, e)
       \/ /\ clone[e] # NoClone
          /\ busy' = [busy EXCEPT ![e] = TRUE]
          /\ writer' = [writer EXCEPT ![b] = t]
          /\ got' = [got EXCEPT ![t] = {e}]
          /\ blk' = [blk EXCEPT ![t] = b]
          /\ pc' = [pc EXCEPT ![t] = "info"]
          /\ UNCHANGED <<hash, bnum, where, dirty, lock, clone, data, bclock, op,
                         need, tgt, holds, latest, diskVars>>

SetInfoDone(t) ==
    /\ pc[t] = "info" /\ Flushed(t) /\ LOCK(t)
    /\ SetInfo(t, blk[t], hash[blk[t]])
-----------------------------------------------------------------------------
\* get_ents and the start of the I/O, in their critical section.
GetEnts(t) ==
    /\ Missing(t) \/ Retrying(t)
    /\ \/ GetEntsTimeout(t)
       \/ \E F \in Fresh(t) : GetEntsShort(t, F)
       \/ \E P \in SUBSET Avail :
             \/ InsertPanic(t, P)
             \/ \E X \in SUBSET (Avail \ P), F \in Fresh(t) :
                   \E f \in Assigned(t, got[t] \cup F \cup P \cup X) :
                       StartIO(t, F, P, X, f)

\* A step inside a call that is under way.
CallStep(t) ==
    \/ Hit(t) \/ GetEnts(t) \/ ReadPhys(t) \/ ReadPhysFails(t)
    \/ Install(t) \/ GiveUp(t)
    \/ FlushDevice2(t) \/ FlushDeviceDone(t) \/ FlushDone(t)
    \/ RemoveDone(t) \/ SetInfoDone(t)
    \/ \E e \in Ents : FlushClone(t, e) \/ FlushData(t, e)

\* A thread starts a call, or works on a block it holds.
Client(t) ==
    \/ \E o \in Readers \cup Writers, b \in Blocks : Call(t, o, b)
    \/ flush_device(t) \/ remove_cached_device_blocks(t) \/ DiscardDeviceBlocks(t)
    \/ \E prefer \in BOOLEAN : force_cache_flush(t, prefer)
    \/ \E b \in Blocks :
          \/ flush_blocks(t, b) \/ BeginModify(t, b) \/ EndModify(t, b)
          \/ mark_blocks_dirty(t, b) \/ release_block(t, b) \/ set_blocks_info(t, b)

Next == \E t \in Threads : CallStep(t) \/ Client(t)

Spec == Init /\ [][Next]_vars

\* A thread inside a call keeps running, and the disk answers.
FairSpec == Spec /\ \A t \in Threads : SF_vars(CallStep(t))
-----------------------------------------------------------------------------
TypeOK ==
    /\ hash \in [Blocks -> Ents \cup {NoEnt}]
    /\ bnum \in [Ents -> Blocks \cup {NoBlock}]
    /\ where \in [Ents -> {"unused", "normal", "locked", "taken"}]
    /\ dirty \in [Ents -> BOOLEAN] /\ busy \in [Ents -> BOOLEAN]
    /\ lock \in [Ents -> Nat]
    /\ clone \in [Ents -> Int] /\ data \in [Ents -> Int]
    /\ bclock \in Threads \cup {NoThread}
    /\ pc \in [Threads -> {"idle", "lookup", "getents", "io", "install", "failed",
                           "info", "flush1", "flush2", "flush", "remove", "panic"}]
    /\ op \in [Threads -> Readers \cup Writers \cup {"none"}]
    /\ blk \in [Threads -> Blocks \cup {NoBlock}]
    /\ need \in [Threads -> SUBSET Blocks]
    /\ got \in [Threads -> SUBSET Ents]
    /\ tgt \in [Threads -> [Blocks -> Ents \cup {NoEnt}]]
    /\ holds \in [Threads -> SUBSET Blocks]
    /\ writer \in [Blocks -> Threads \cup {NoThread}]
    /\ disk \in [Blocks -> Int] /\ latest \in [Blocks -> Nat]
    /\ logged \in [Blocks -> Int]

Holders(b) == {t \in Threads : b \in holds[t]}

\* Whatever block an entry holds leads back to it, so no block is cached
\* twice; an entry found under a number it does not hold yet is busy.
HashTellsTruth ==
    /\ \A e \in Ents : bnum[e] # NoBlock => hash[bnum[e]] = e
    /\ \A b \in Blocks : hash[b] # NoEnt =>
          \/ bnum[hash[b]] = b
          \/ busy[hash[b]] /\ \E t \in Threads : b \in need[t] /\ tgt[t][b] = hash[b]

\* A busy entry belongs to exactly one call, also without bc.lock.
BusyHasOneOwner ==
    /\ \A e \in Ents : busy[e] <=> \E t \in Threads : e \in got[t]
    /\ \A t, u \in Threads : t # u => got[t] \cap got[u] = {}

\* ce->lock counts the get_block calls not yet matched by release_block or
\* set_blocks_info, and get_ents evicts only what nobody has locked.
LocksTellTruth == \A e \in Ents :
    /\ lock[e] = IF bnum[e] = NoBlock THEN 0 ELSE Cardinality(Holders(bnum[e]))
    /\ where[e] = "locked" <=> lock[e] > 0
    /\ where[e] = "unused" => bnum[e] = NoBlock /\ ~NeedsFlush(e)

(***************************************************************************)
(* The hash table, CE_BUSY and the locks tell the truth although an entry  *)
(* on its way from one block to another is in the table twice and bc.lock  *)
(* is dropped for I/O (cache_block_io): no block is cached twice, no two   *)
(* threads transfer an entry at once, and nobody loses the memory it works *)
(* on.                                                                     *)
(***************************************************************************)
CacheSound == HashTellsTruth /\ BusyHasOneOwner /\ LocksTellTruth

\* A client is between changing the memory of b and mark_blocks_dirty.
Changing(b) ==
    LET t == writer[b] IN
    t # NoThread /\ ~(blk[t] = b /\ (op[t] \in Writers \/ pc[t] = "info"))

\* The entry already has the new block's data but still the old number.
Overwritten(e) == \E t \in Threads : pc[t] = "install" /\ e \in Targets(t)

(***************************************************************************)
(* No write is lost and no stale block is served: a block that is not      *)
(* cached is up to date on the disk, a cached one is up to date in memory, *)
(* and if its entry is clean the newest contents are in its clone, or on   *)
(* the disk (cache_block_io, get_ents, flush_ents, set_blocks_info).       *)
(***************************************************************************)
Coherent == \A b \in Blocks :
    LET e == hash[b] IN
    IF e # NoEnt /\ bnum[e] = b
    THEN /\ ~Overwritten(e) => data[e] = latest[b] \/ (data[e] = Torn /\ Changing(b))
         /\ ~dirty[e] /\ ~Changing(b) =>
               latest[b] = IF clone[e] # NoClone THEN clone[e] ELSE disk[b]
    ELSE /\ disk[b] = latest[b]
         /\ e # NoEnt /\ Overwritten(e) => data[e] = latest[b]

(***************************************************************************)
(* The log is told about every block it handed to set_blocks_info: until   *)
(* the callback is made, exactly those contents are kept as a clone, even  *)
(* when the block is changed again, evicted or flushed meanwhile.          *)
(***************************************************************************)
LogNotForgotten == \A b \in Blocks :
    LET e == hash[b] IN
    /\ logged[b] # NoClone => e # NoEnt /\ bnum[e] = b /\ clone[e] = logged[b]
    /\ e # NoEnt /\ bnum[e] = b => clone[e] = logged[b]

(***************************************************************************)
(* The disk never goes back to older contents and never gets half-changed  *)
(* ones, and logged contents reach it before anything newer does           *)
(* (flush_cache_ent and the two passes of flush_ents).                     *)
(***************************************************************************)
DiskInOrder == [][\A b \in Blocks : disk'[b] # disk[b] =>
    /\ disk'[b] > disk[b]
    /\ logged[b] # NoClone => disk'[b] = logged[b]]_vars

(***************************************************************************)
(* A block a client has locked stays in the same memory (the pointer that  *)
(* get_block returned stays good) until the client gives it up.            *)
(***************************************************************************)
PointerStaysGood == [][\A t \in Threads, b \in Blocks :
    b \in holds[t] /\ b \in holds'[t] =>
        hash'[b] = hash[b] /\ bnum'[hash[b]] = b]_vars

(***************************************************************************)
(* Nobody gets stuck in panic: get_ents finds entries in time, and the     *)
(* blocks it was called for are still missing when it returns.             *)
(***************************************************************************)
NoPanic == \A t \in Threads : pc[t] # "panic"

(***************************************************************************)
(* Blocks enter the hash table "so that no one else will try to read them  *)
(* in" (cache_block_io): hash_insert never finds somebody else's entry for *)
(* the block, in which case panic would keep bc.lock for good.             *)
(***************************************************************************)
NoOneElseReadsIt == \A t \in Threads : ~(pc[t] = "panic" /\ bclock = t)

(***************************************************************************)
(* A busy entry does not stay busy, unless a thread panics: block_lookup   *)
(* does not sleep forever.                                                 *)
(***************************************************************************)
BusyEnds == \A e \in Ents : busy[e] ~> (~busy[e] \/ ~NoPanic)

(***************************************************************************)
(* The inductive invariant.  Filling: cache_block_io has entered the       *)
(* blocks it brings in into the hash table, and their entries still have   *)
(* their old numbers.                                                      *)
(***************************************************************************)
Filling == {"io", "install", "failed"}
Flushes == {"flush1", "flush2", "flush"}

CallsTellTruth == \A t \in Threads :
    /\ pc[t] \in {"idle", "lookup"} => got[t] = {}
    /\ pc[t] \in Filling \cup {"lookup", "getents"} =>
          op[t] \in Readers \cup Writers /\ blk[t] \in Blocks
    /\ pc[t] \in {"install", "failed"} => op[t] \in Readers
    /\ pc[t] \in Flushes \cup {"idle", "info", "remove"} => op[t] = "none"
    /\ pc[t] \notin Filling => tgt[t] = NoTarget
    /\ pc[t] \in Filling \cup {"getents"} =>
          blk[t] \in need[t] /\ (op[t] \in Writers => need[t] = {blk[t]})

FillsTellTruth == \A t \in Threads : pc[t] \in Filling =>
    /\ \A b \in need[t] : /\ tgt[t][b] \in got[t] /\ hash[b] = tgt[t][b]
                          /\ bnum[tgt[t][b]] # b
    /\ \A b, c \in need[t] : tgt[t][b] = tgt[t][c] => b = c
    /\ \A e \in got[t] : where[e] = "taken"
    /\ pc[t] # "io" => \A e \in got[t] : ~NeedsFlush(e)

EntsTellTruth ==
    /\ \A t \in Threads, e \in Ents : e \in got[t] =>
          where[e] # "unused" /\ (pc[t] = "getents" => where[e] # "locked")
    /\ \A e \in Ents : bnum[e] = NoBlock => ~NeedsFlush(e)

\* Who has a block locked finds it, and only such a client changes its memory.
ClientsTellTruth ==
    /\ \A t \in Threads : op[t] \in Writers => blk[t] \in Blocks /\ writer[blk[t]] = t
    /\ \A t \in Threads : op[t] \in Lockers => blk[t] \notin holds[t]
    /\ \A t \in Threads : pc[t] = "info" =>
          /\ blk[t] \in holds[t] /\ writer[blk[t]] = t
          /\ got[t] = {hash[blk[t]]}
    /\ \A b \in Blocks : Changing(b) => b \in holds[writer[b]]
    /\ \A t \in Threads : \A b \in holds[t] :
          hash[b] # NoEnt /\ bnum[hash[b]] = b

\* remove_cached_device_blocks has the cache for itself.
RemoveAlone == \A t \in Threads : pc[t] = "remove" =>
    /\ bclock = t /\ got[t] = {e \in Ents : where[e] # "unused"}
    /\ \A u \in Threads : holds[u] = {} /\ (u # t => pc[u] \in {"idle", "lookup"})

\* Versions only grow on their way to the disk.
VersionsOrdered == \A b \in Blocks :
    LET e == hash[b] IN
    /\ 0 <= disk[b] /\ disk[b] <= latest[b]
    /\ e # NoEnt /\ bnum[e] = b /\ clone[e] # NoClone =>
          disk[b] <= clone[e] /\ clone[e] <= latest[b]

Structure == /\ TypeOK /\ CacheSound /\ CallsTellTruth /\ FillsTellTruth
             /\ EntsTellTruth /\ ClientsTellTruth /\ RemoveAlone

IInv == Structure /\ Coherent /\ LogNotForgotten /\ VersionsOrdered
=============================================================================
