-------------------------- MODULE BlockCacheProofs --------------------------
(***************************************************************************)
(* The block cache loses no write, serves no stale block and keeps the     *)
(* memory its clients work on, for every number of threads, entries and    *)
(* blocks, every read-ahead and every mix of operations.                   *)
(***************************************************************************)
EXTENDS BlockCache, FiniteSetTheorems, TLAPS

Pcs == {"idle", "lookup", "getents", "io", "install", "failed", "info", "flush1",
        "flush2", "flush", "remove", "panic"}

-----------------------------------------------------------------------------
(***************************************************************************)
(* What the invariant says in the situations that come up.                 *)
(***************************************************************************)
\* The kinds of operations.
LEMMA Kinds ==
    /\ Readers \cap Writers = {}
    /\ "none" \notin Readers \cup Writers \cup Lockers
    /\ NoBlock \notin Blocks
BY DEF Readers, Writers, Lockers, NoBlock, Blocks

LEMMA HoldersFinite ==
    ASSUME NEW b
    PROVE  /\ IsFiniteSet(Holders(b)) /\ Cardinality(Holders(b)) \in Nat
           /\ Cardinality(Holders(b)) = 0 <=> Holders(b) = {}
<1>1. IsFiniteSet(Holders(b))
  BY CacheAssumption, FS_Subset DEF Holders
<1> QED
  BY <1>1, FS_CardinalityType, FS_EmptySet

\* An entry in the hands of a call is busy, and nobody else's.
LEMMA GotIsBusy ==
    ASSUME Structure, NEW t \in Threads, NEW e \in got[t]
    PROVE  /\ e \in Ents /\ busy[e] /\ where[e] # "unused"
           /\ \A u \in Threads : e \in got[u] => u = t
<1>1. e \in Ents
  BY DEF Structure, TypeOK
<1>2. busy[e] /\ where[e] # "unused"
  BY <1>1 DEF Structure, CacheSound, BusyHasOneOwner, EntsTellTruth
<1>3. \A u \in Threads : e \in got[u] => u = t
  BY DEF Structure, CacheSound, BusyHasOneOwner
<1> QED
  BY <1>1, <1>2, <1>3

\* Nobody holds a block whose entry is not on the locked list.
LEMMA NotLocked ==
    ASSUME Structure, NEW e \in Ents, where[e] # "locked"
    PROVE  lock[e] = 0 /\ \A t \in Threads : bnum[e] \notin holds[t]
<1>1. lock[e] = 0
  BY DEF Structure, CacheSound, LocksTellTruth, TypeOK
<1>2. CASE bnum[e] = NoBlock
  BY <1>1, <1>2, Kinds DEF Structure, TypeOK
<1>3. CASE bnum[e] # NoBlock
  <2>1. Cardinality(Holders(bnum[e])) = 0
    BY <1>1, <1>3 DEF Structure, CacheSound, LocksTellTruth
  <2>2. Holders(bnum[e]) = {}
    BY <2>1, HoldersFinite
  <2> QED
    BY <1>1, <2>2 DEF Holders
<1> QED
  BY <1>2, <1>3

\* A block a client has locked is in an entry of the locked list.
LEMMA HeldIsLocked ==
    ASSUME Structure, NEW t \in Threads, NEW b \in holds[t]
    PROVE  /\ b \in Blocks /\ hash[b] \in Ents /\ bnum[hash[b]] = b
           /\ where[hash[b]] = "locked" /\ lock[hash[b]] > 0
           /\ lock[hash[b]] = Cardinality(Holders(b))
<1>1. b \in Blocks
  BY DEF Structure, TypeOK
<1>2. hash[b] \in Ents /\ bnum[hash[b]] = b
  BY <1>1 DEF Structure, ClientsTellTruth, TypeOK
<1>3. where[hash[b]] = "locked"
  BY <1>2, NotLocked
<1>4. lock[hash[b]] > 0
  BY <1>2, <1>3 DEF Structure, CacheSound, LocksTellTruth
<1>5. lock[hash[b]] = Cardinality(Holders(b))
  BY <1>1, <1>2, Kinds DEF Structure, CacheSound, LocksTellTruth
<1> QED
  BY <1>1, <1>2, <1>3, <1>4, <1>5

\* An entry on its way to block b.
LEMMA OnItsWay ==
    ASSUME Structure, NEW t \in Threads, pc[t] \in Filling, NEW b \in need[t]
    PROVE  /\ b \in Blocks /\ tgt[t][b] \in Ents /\ tgt[t][b] \in got[t]
           /\ hash[b] = tgt[t][b] /\ bnum[tgt[t][b]] # b
           /\ where[tgt[t][b]] = "taken" /\ lock[tgt[t][b]] = 0
<1>1. b \in Blocks /\ got[t] \subseteq Ents
  BY DEF Structure, TypeOK
<1>2. /\ tgt[t][b] \in got[t] /\ hash[b] = tgt[t][b] /\ bnum[tgt[t][b]] # b
      /\ where[tgt[t][b]] = "taken"
  BY DEF Structure, FillsTellTruth
<1>3. lock[tgt[t][b]] = 0
  BY <1>1, <1>2, NotLocked
<1> QED
  BY <1>1, <1>2, <1>3

\* An entry found under a number that is not its own is on its way.
LEMMA FoundEarly ==
    ASSUME Structure, NEW b \in Blocks, hash[b] # NoEnt, bnum[hash[b]] # b
    PROVE  /\ hash[b] \in Ents /\ busy[hash[b]] /\ where[hash[b]] = "taken"
           /\ \E t \in Threads : /\ pc[t] \in Filling /\ b \in need[t]
                                 /\ tgt[t][b] = hash[b] /\ hash[b] \in got[t]
<1>1. hash[b] \in Ents
  BY DEF Structure, TypeOK
<1>2. PICK t \in Threads : b \in need[t] /\ tgt[t][b] = hash[b] /\ busy[hash[b]]
  BY DEF Structure, CacheSound, HashTellsTruth
<1>3. pc[t] \in Filling
  BY <1>2 DEF Structure, CallsTellTruth, NoTarget
<1> QED
  BY <1>1, <1>2, <1>3, OnItsWay

LEMMA FoundIdle ==
    ASSUME Structure, NEW b \in Blocks, hash[b] # NoEnt, ~busy[hash[b]]
    PROVE  hash[b] \in Ents /\ bnum[hash[b]] = b
BY FoundEarly DEF Structure, TypeOK

\* The memory of an entry that is being overwritten is its call's.
LEMMA OverwrittenIsGot ==
    ASSUME Structure, NEW e, Overwritten(e)
    PROVE  /\ e \in Ents /\ where[e] = "taken"
           /\ \E t \in Threads : pc[t] = "install" /\ e \in got[t] /\ e \in Targets(t)
<1>1. PICK t \in Threads : pc[t] = "install" /\ e \in Targets(t)
  BY DEF Overwritten
<1>2. PICK b \in need[t] : e = tgt[t][b]
  BY <1>1 DEF Targets
<1>3. pc[t] \in Filling
  BY <1>1 DEF Filling
<1> QED
  BY <1>1, <1>2, <1>3, OnItsWay

\* A block being changed is locked.
LEMMA ChangingIsHeld ==
    ASSUME Structure, NEW b \in Blocks, Changing(b)
    PROVE  /\ writer[b] \in Threads /\ b \in holds[writer[b]]
           /\ hash[b] \in Ents /\ bnum[hash[b]] = b /\ where[hash[b]] = "locked"
           /\ ~Overwritten(hash[b])
<1>1. writer[b] \in Threads /\ b \in holds[writer[b]]
  BY DEF Structure, ClientsTellTruth, Changing, TypeOK
<1>2. hash[b] \in Ents /\ bnum[hash[b]] = b /\ where[hash[b]] = "locked"
  BY <1>1, HeldIsLocked
<1> QED
  BY <1>1, <1>2, OverwrittenIsGot

\* A block belongs to at most one call that brings it in, and to no entry
\* by number.
LEMMA NeededOnce ==
    ASSUME Structure, NEW t \in Threads, pc[t] \in Filling, NEW b \in need[t]
    PROVE  /\ \A u \in Threads : pc[u] \in Filling /\ b \in need[u] => u = t
           /\ \A e \in Ents : bnum[e] # b
           /\ \A u \in Threads : b \notin holds[u]
<1>1. /\ b \in Blocks /\ tgt[t][b] \in got[t] /\ hash[b] = tgt[t][b]
      /\ bnum[tgt[t][b]] # b
  BY OnItsWay
<1>2. ASSUME NEW u \in Threads, pc[u] \in Filling, b \in need[u]
      PROVE  u = t
  BY <1>1, <1>2, OnItsWay, GotIsBusy
<1>3. \A e \in Ents : bnum[e] # b
  BY <1>1, Kinds DEF Structure, CacheSound, HashTellsTruth
<1>4. \A u \in Threads : b \notin holds[u]
  BY <1>1, <1>3, HeldIsLocked
<1> QED
  BY <1>2, <1>3, <1>4

-----------------------------------------------------------------------------
(***************************************************************************)
(* How the holders of a block change.                                      *)
(***************************************************************************)
LEMMA HoldersAdd ==
    ASSUME TypeOK, NEW t \in Threads, NEW b \in Blocks, b \notin holds[t],
           holds' = [holds EXCEPT ![t] = @ \cup {b}]
    PROVE  /\ Cardinality(Holders(b)') = Cardinality(Holders(b)) + 1
           /\ \A c : c # b => Holders(c)' = Holders(c)
<1>1. Holders(b)' = Holders(b) \cup {t} /\ t \notin Holders(b)
  BY DEF Holders, TypeOK
<1>2. Cardinality(Holders(b)') = Cardinality(Holders(b)) + 1
  BY <1>1, HoldersFinite, FS_AddElement
<1>3. \A c : c # b => Holders(c)' = Holders(c)
  BY DEF Holders, TypeOK
<1> QED
  BY <1>2, <1>3

LEMMA HoldersRemove ==
    ASSUME TypeOK, NEW t \in Threads, NEW b \in holds[t],
           holds' = [holds EXCEPT ![t] = @ \ {b}]
    PROVE  /\ Cardinality(Holders(b)') = Cardinality(Holders(b)) - 1
           /\ \A c : c # b => Holders(c)' = Holders(c)
<1>1. Holders(b)' = Holders(b) \ {t} /\ t \in Holders(b)
  BY DEF Holders, TypeOK
<1>2. Cardinality(Holders(b)') = Cardinality(Holders(b)) - 1
  BY <1>1, HoldersFinite, FS_RemoveElement
<1>3. \A c : c # b => Holders(c)' = Holders(c)
  BY DEF Holders, TypeOK
<1> QED
  BY <1>2, <1>3

LEMMA HoldersKept ==
    ASSUME holds' = holds
    PROVE  \A c : Holders(c)' = Holders(c)
BY DEF Holders

-----------------------------------------------------------------------------
(***************************************************************************)
(* Steps that leave some of the state alone.                               *)
(***************************************************************************)
LEMMA OverwrittenKept ==
    ASSUME \A u \in Threads : pc'[u] = "install" <=> pc[u] = "install",
           \A u \in Threads : pc[u] = "install" =>
               tgt'[u] = tgt[u] /\ need'[u] = need[u]
    PROVE  \A e : Overwritten(e)' <=> Overwritten(e)
<1>1. ASSUME NEW u \in Threads, NEW e
      PROVE  (pc[u] = "install" /\ e \in Targets(u))' <=> pc[u] = "install" /\ e \in Targets(u)
  <2>1. (e \in Targets(u))' <=> \E b \in need'[u] : e = tgt'[u][b]
    BY DEF Targets
  <2>2. e \in Targets(u) <=> \E b \in need[u] : e = tgt[u][b]
    BY DEF Targets
  <2> QED
    BY <2>1, <2>2
<1> QED
  BY <1>1, Zenon DEF Overwritten

\* No contents move, and the same blocks are being changed and overwritten.
LEMMA DataKept ==
    ASSUME IInv, UNCHANGED <<hash, bnum, data, dirty, clone, disk, latest, logged>>,
           \A b \in Blocks : Changing(b)' <=> Changing(b),
           \A e : Overwritten(e)' <=> Overwritten(e)
    PROVE  Coherent' /\ LogNotForgotten' /\ VersionsOrdered'
<1>1. Coherent'
  BY DEF IInv, Coherent
<1>2. LogNotForgotten' /\ VersionsOrdered'
  BY DEF IInv, LogNotForgotten, VersionsOrdered
<1> QED
  BY <1>1, <1>2

\* The hash table stays, and so do the calls that bring blocks in.
LEMMA HashKept ==
    ASSUME Structure, UNCHANGED <<hash, bnum>>, BusyHasOneOwner',
           \A u \in Threads : pc[u] \in Filling =>
               need'[u] = need[u] /\ tgt'[u] = tgt[u] /\ got'[u] = got[u]
    PROVE  HashTellsTruth'
<1>1. \A e \in Ents : bnum'[e] # NoBlock => hash'[bnum'[e]] = e
  BY DEF Structure, CacheSound, HashTellsTruth
<1>2. ASSUME NEW b \in Blocks, hash[b] # NoEnt, bnum[hash[b]] # b
      PROVE  busy'[hash[b]] /\ \E t \in Threads : b \in need'[t] /\ tgt'[t][b] = hash[b]
  BY <1>2, FoundEarly DEF BusyHasOneOwner
<1> QED
  BY <1>1, <1>2 DEF HashTellsTruth

-----------------------------------------------------------------------------
(***************************************************************************)
(* cache_block_io.                                                         *)
(***************************************************************************)
LEMMA CallStepInv ==
    ASSUME IInv, NEW t \in Threads, NEW o \in Readers \cup Writers, NEW b \in Blocks,
           Call(t, o, b)
    PROVE  IInv'
<1> USE DEF IInv
<1>1. /\ UNCHANGED <<hash, bnum, where, dirty, busy, lock, clone, data, bclock>>
      /\ UNCHANGED <<need, got, tgt, holds, latest, disk, logged>>
      /\ pc[t] = "idle" /\ pc' = [pc EXCEPT ![t] = "lookup"]
      /\ op' = [op EXCEPT ![t] = o] /\ blk' = [blk EXCEPT ![t] = b]
      /\ writer' = IF o \in Writers THEN [writer EXCEPT ![b] = t] ELSE writer
      /\ o \in Writers => writer[b] = NoThread
      /\ o \in Lockers => b \notin holds[t]
  BY DEF Call, entVars, diskVars
<1>2. TypeOK'
  BY <1>1 DEF Structure, TypeOK
<1>3. \A c \in Blocks : Changing(c)' <=> Changing(c)
  BY <1>1, CacheAssumption, Kinds
     DEF Changing, Structure, TypeOK, CallsTellTruth
<1>4. \A e : Overwritten(e)' <=> Overwritten(e)
  <2>1. \A u \in Threads : pc'[u] = "install" <=> pc[u] = "install"
    BY <1>1 DEF Structure, TypeOK
  <2> QED
    BY <1>1, <2>1, OverwrittenKept
<1>5. BusyHasOneOwner'
  BY <1>1 DEF Structure, CacheSound, BusyHasOneOwner
<1>6. HashTellsTruth'
  BY <1>1, <1>5, HashKept
<1>7. LocksTellTruth'
  BY <1>1, HoldersKept DEF Structure, CacheSound, LocksTellTruth, NeedsFlush
<1>8. CallsTellTruth'
  BY <1>1 DEF Structure, TypeOK, CallsTellTruth, Filling, Flushes
<1>9. FillsTellTruth'
  BY <1>1 DEF Structure, TypeOK, FillsTellTruth, Filling, NeedsFlush
<1>10. EntsTellTruth'
  BY <1>1 DEF Structure, TypeOK, EntsTellTruth, NeedsFlush
<1>11. ClientsTellTruth'
  BY <1>1, <1>3, Kinds, CacheAssumption
     DEF Structure, TypeOK, ClientsTellTruth, CallsTellTruth, Changing
<1>12. RemoveAlone'
  BY <1>1 DEF Structure, TypeOK, RemoveAlone
<1>13. Coherent' /\ LogNotForgotten' /\ VersionsOrdered'
  BY <1>1, <1>3, <1>4, DataKept
<1> QED
  BY <1>2, <1>5, <1>6, <1>7, <1>8, <1>9, <1>10, <1>11, <1>12, <1>13
     DEF Structure, CacheSound

\* bc.lock is kept from remove_cached_device_blocks to its end.
LEMMA NobodyRemoves ==
    ASSUME Structure, NEW t \in Threads, LOCK(t), pc[t] # "remove"
    PROVE  \A u \in Threads : pc[u] # "remove"
BY CacheAssumption DEF Structure, RemoveAlone, LOCK

-----------------------------------------------------------------------------
(***************************************************************************)
(* flush_device, flush_blocks and force_cache_flush.                       *)
(***************************************************************************)
\* A call marks idle entries busy, or lets go of those it has flushed.
LEMMA StartFlushStepInv ==
    ASSUME IInv, NEW t \in Threads, NEW place \in Flushes \cup {"idle"},
           NEW E \in SUBSET Ents, pc[t] \in Flushes \cup {"idle"},
           \A e \in E : ~busy[e] /\ where[e] # "unused",
           place = "idle" => E = {}, place = "idle" \/ LOCK(t),
           StartFlush(t, E, place)
    PROVE  IInv'
<1> USE DEF IInv
<1>1. /\ UNCHANGED <<hash, bnum, where, dirty, lock, clone, data, bclock>>
      /\ UNCHANGED <<op, blk, need, tgt, holds, writer, latest, disk, logged>>
      /\ busy' = [e \in Ents |-> (busy[e] /\ e \notin got[t]) \/ e \in E]
      /\ got' = [got EXCEPT ![t] = E] /\ pc' = [pc EXCEPT ![t] = place]
  BY DEF StartFlush, clientVars, diskVars
<1>2. TypeOK'
  <2>1. /\ busy' \in [Ents -> BOOLEAN] /\ got' \in [Threads -> SUBSET Ents]
        /\ pc' \in [Threads -> Pcs]
    BY <1>1 DEF Structure, TypeOK, Flushes, Pcs
  <2> QED
    BY <1>1, <2>1 DEF Structure, TypeOK, Pcs
<1>3. \A c \in Blocks : Changing(c)' <=> Changing(c)
  BY <1>1 DEF Changing, Structure, TypeOK, Flushes
<1>4. \A e : Overwritten(e)' <=> Overwritten(e)
  <2>1. \A u \in Threads : pc'[u] = "install" <=> pc[u] = "install"
    BY <1>1 DEF Structure, TypeOK, Flushes
  <2> QED
    BY <1>1, <2>1, OverwrittenKept
<1>5. BusyHasOneOwner'
  <2>1. \A u \in Threads : got'[u] = IF u = t THEN E ELSE got[u]
    BY <1>1 DEF Structure, TypeOK
  <2>2. \A e \in E, u \in Threads : e \notin got[u]
    BY DEF Structure, CacheSound, BusyHasOneOwner
  <2>3. \A e \in Ents : busy'[e] <=> (busy[e] /\ e \notin got[t]) \/ e \in E
    BY <1>1
  <2>4. \A e \in Ents : busy'[e] <=> \E u \in Threads : e \in got'[u]
    BY <2>1, <2>2, <2>3 DEF Structure, CacheSound, BusyHasOneOwner
  <2>5. \A u, v \in Threads : u # v => got'[u] \cap got'[v] = {}
    BY <2>1, <2>2 DEF Structure, CacheSound, BusyHasOneOwner
  <2> QED
    BY <2>4, <2>5 DEF BusyHasOneOwner
<1>6. HashTellsTruth'
  BY <1>1, <1>5, HashKept DEF Structure, TypeOK, Flushes, Filling
<1>7. LocksTellTruth'
  BY <1>1, HoldersKept DEF Structure, CacheSound, LocksTellTruth, NeedsFlush
<1>8. CallsTellTruth'
  BY <1>1 DEF Structure, TypeOK, CallsTellTruth, Filling, Flushes
<1>9. FillsTellTruth'
  BY <1>1 DEF Structure, TypeOK, FillsTellTruth, Filling, Flushes, NeedsFlush
<1>10. EntsTellTruth'
  BY <1>1 DEF Structure, TypeOK, EntsTellTruth, NeedsFlush, Flushes
<1>11. ClientsTellTruth'
  BY <1>1, <1>3 DEF Structure, TypeOK, ClientsTellTruth, Flushes
<1>12. RemoveAlone'
  BY <1>1, NobodyRemoves DEF Structure, TypeOK, RemoveAlone, Flushes
<1>13. Coherent' /\ LogNotForgotten' /\ VersionsOrdered'
  BY <1>1, <1>3, <1>4, DataKept
<1> QED
  BY <1>2, <1>5, <1>6, <1>7, <1>8, <1>9, <1>10, <1>11, <1>12, <1>13
     DEF Structure, CacheSound

\* The entries the flush operations choose are idle.
LEMMA ChosenIdle ==
    /\ \A e \in NormalToFlush : e \in Ents /\ ~busy[e] /\ where[e] # "unused"
    /\ \A e \in LockedToFlush : e \in Ents /\ ~busy[e] /\ where[e] # "unused"
BY DEF NormalToFlush, LockedToFlush, Avail, On

LEMMA FlushesStepInv ==
    ASSUME IInv, NEW t \in Threads,
           \/ flush_device(t) \/ FlushDevice2(t) \/ FlushDeviceDone(t) \/ FlushDone(t)
           \/ \E prefer \in BOOLEAN : force_cache_flush(t, prefer)
           \/ \E b \in Blocks : flush_blocks(t, b)
    PROVE  IInv'
<1>1. CASE flush_device(t)
  BY <1>1, ChosenIdle, StartFlushStepInv DEF flush_device, Flushes
<1>2. CASE FlushDevice2(t)
  BY <1>2, ChosenIdle, StartFlushStepInv DEF FlushDevice2, Flushes
<1>3. CASE FlushDeviceDone(t)
  BY <1>3, StartFlushStepInv DEF FlushDeviceDone, Flushes
<1>4. CASE FlushDone(t)
  BY <1>4, StartFlushStepInv DEF FlushDone, Flushes
<1>5. ASSUME NEW prefer \in BOOLEAN, force_cache_flush(t, prefer)
      PROVE  IInv'
  <2> DEFINE E == {e \in NormalToFlush : prefer => clone[e] # NoClone} \cup LockedToFlush
  <2>1. pc[t] = "idle" /\ LOCK(t) /\ StartFlush(t, E, "flush")
    BY <1>5 DEF force_cache_flush
  <2>2. E \in SUBSET Ents /\ \A e \in E : ~busy[e] /\ where[e] # "unused"
    BY ChosenIdle
  <2> HIDE DEF E
  <2> QED
    BY <2>1, <2>2, StartFlushStepInv DEF Flushes
<1>6. ASSUME NEW b \in Blocks, flush_blocks(t, b)
      PROVE  IInv'
  <2>1. /\ pc[t] = "idle" /\ LOCK(t) /\ hash[b] # NoEnt /\ ~busy[hash[b]]
        /\ StartFlush(t, {hash[b]}, "flush")
    BY <1>6 DEF flush_blocks
  <2>2. hash[b] \in Ents /\ where[hash[b]] # "unused"
    BY <2>1, FoundIdle, Kinds DEF IInv, Structure, CacheSound, LocksTellTruth
  <2> QED
    BY <2>1, <2>2, StartFlushStepInv DEF Flushes
<1> QED
  BY <1>1, <1>2, <1>3, <1>4, <1>5, <1>6

\* flush_cache_ent writes a clone and makes its callback.
LEMMA FlushCloneStepInv ==
    ASSUME IInv, NEW t \in Threads, NEW e \in Ents, FlushClone(t, e)
    PROVE  IInv'
<1> USE DEF IInv
<1>1. /\ UNCHANGED <<hash, bnum, where, dirty, busy, lock, data, bclock>>
      /\ UNCHANGED <<pc, op, blk, need, got, tgt, holds, writer, latest>>
      /\ disk' = [disk EXCEPT ![bnum[e]] = clone[e]]
      /\ logged' = [logged EXCEPT ![bnum[e]] = NoClone]
      /\ clone' = [clone EXCEPT ![e] = NoClone]
      /\ e \in got[t] /\ clone[e] # NoClone
  BY DEF FlushClone, callVars, clientVars
<1>2. bnum[e] \in Blocks /\ hash[bnum[e]] = e
  BY <1>1 DEF Structure, EntsTellTruth, NeedsFlush, TypeOK, CacheSound, HashTellsTruth
<1>3. TypeOK'
  BY <1>1, <1>2 DEF Structure, TypeOK, NoClone
<1>4. \A c \in Blocks : Changing(c)' <=> Changing(c)
  BY <1>1 DEF Changing
<1>5. \A x : Overwritten(x)' <=> Overwritten(x)
  BY <1>1, OverwrittenKept
<1>6. /\ \A x \in Ents : clone'[x] = IF x = e THEN NoClone ELSE clone[x]
      /\ \A c \in Blocks : disk'[c] = IF c = bnum[e] THEN clone[e] ELSE disk[c]
      /\ \A c \in Blocks : logged'[c] = IF c = bnum[e] THEN NoClone ELSE logged[c]
  BY <1>1, <1>2 DEF Structure, TypeOK
<1>7. \A x \in Ents : NeedsFlush(x)' => NeedsFlush(x)
  BY <1>1, <1>6 DEF NeedsFlush
<1>8. BusyHasOneOwner' /\ CallsTellTruth' /\ RemoveAlone'
  BY <1>1 DEF Structure, CacheSound, BusyHasOneOwner, CallsTellTruth, RemoveAlone
<1>9. HashTellsTruth'
  BY <1>1 DEF Structure, CacheSound, HashTellsTruth
<1>10. LocksTellTruth'
  BY <1>1, <1>7, HoldersKept DEF Structure, CacheSound, LocksTellTruth
<1>11. FillsTellTruth' /\ EntsTellTruth'
  BY <1>1, <1>7 DEF Structure, TypeOK, FillsTellTruth, EntsTellTruth
<1>12. ClientsTellTruth'
  BY <1>1, <1>4 DEF Structure, ClientsTellTruth
<1>13. Coherent'
  BY <1>1, <1>2, <1>4, <1>5, <1>6, CacheAssumption DEF Coherent, Structure, TypeOK
<1>14. LogNotForgotten' /\ VersionsOrdered'
  BY <1>1, <1>2, <1>6, CacheAssumption
     DEF LogNotForgotten, VersionsOrdered, Structure, TypeOK
<1> QED
  BY <1>3, <1>8, <1>9, <1>10, <1>11, <1>12, <1>13, <1>14 DEF Structure, CacheSound

\* flush_cache_ent writes the data of an entry nobody has locked.
LEMMA FlushDataStepInv ==
    ASSUME IInv, NEW t \in Threads, NEW e \in Ents, FlushData(t, e)
    PROVE  IInv' /\ bnum[e] \in Blocks /\ hash[bnum[e]] = e /\ data[e] = latest[bnum[e]]
<1> USE DEF IInv
<1>1. /\ UNCHANGED <<hash, bnum, where, busy, lock, clone, data, bclock, logged>>
      /\ UNCHANGED <<pc, op, blk, need, got, tgt, holds, writer, latest>>
      /\ disk' = [disk EXCEPT ![bnum[e]] = data[e]]
      /\ dirty' = [dirty EXCEPT ![e] = FALSE]
      /\ e \in got[t] /\ clone[e] = NoClone /\ dirty[e] /\ lock[e] = 0
      /\ pc[t] # "install"
  BY DEF FlushData, Flushing, callVars, clientVars
<1>2. bnum[e] \in Blocks /\ hash[bnum[e]] = e
  BY <1>1 DEF Structure, EntsTellTruth, NeedsFlush, TypeOK, CacheSound, HashTellsTruth
<1>3. ~Changing(bnum[e]) /\ ~Overwritten(e)
  <2>1. where[e] # "locked"
    BY <1>1 DEF Structure, CacheSound, LocksTellTruth
  <2>2. ~Overwritten(e)
    BY <1>1, OverwrittenIsGot, GotIsBusy
  <2> QED
    BY <1>2, <2>1, <2>2, ChangingIsHeld
<1>4. data[e] = latest[bnum[e]]
  BY <1>2, <1>3, CacheAssumption DEF Coherent
<1>5. TypeOK'
  BY <1>1, <1>2 DEF Structure, TypeOK
<1>6. \A c \in Blocks : Changing(c)' <=> Changing(c)
  BY <1>1 DEF Changing
<1>7. \A x : Overwritten(x)' <=> Overwritten(x)
  BY <1>1, OverwrittenKept
<1>8. /\ \A x \in Ents : dirty'[x] <=> x # e /\ dirty[x]
      /\ \A c \in Blocks : disk'[c] = IF c = bnum[e] THEN latest[c] ELSE disk[c]
  BY <1>1, <1>2, <1>4 DEF Structure, TypeOK
<1>9. \A x \in Ents : NeedsFlush(x)' => NeedsFlush(x)
  BY <1>1, <1>8 DEF NeedsFlush
<1>10. BusyHasOneOwner' /\ CallsTellTruth' /\ RemoveAlone'
  BY <1>1 DEF Structure, CacheSound, BusyHasOneOwner, CallsTellTruth, RemoveAlone
<1>11. HashTellsTruth'
  BY <1>1 DEF Structure, CacheSound, HashTellsTruth
<1>12. LocksTellTruth'
  BY <1>1, <1>9, HoldersKept DEF Structure, CacheSound, LocksTellTruth
<1>13. FillsTellTruth' /\ EntsTellTruth'
  BY <1>1, <1>9 DEF Structure, TypeOK, FillsTellTruth, EntsTellTruth
<1>14. ClientsTellTruth'
  BY <1>1, <1>6 DEF Structure, ClientsTellTruth
<1>15. Coherent'
  BY <1>1, <1>2, <1>6, <1>7, <1>8 DEF Coherent, Structure, TypeOK
<1>16. LogNotForgotten' /\ VersionsOrdered'
  BY <1>1, <1>2, <1>8 DEF LogNotForgotten, VersionsOrdered, Structure, TypeOK
<1> QED
  BY <1>2, <1>4, <1>5, <1>10, <1>11, <1>12, <1>13, <1>14, <1>15, <1>16
     DEF Structure, CacheSound

-----------------------------------------------------------------------------
(***************************************************************************)
(* A client works on a block it has locked.                                *)
(***************************************************************************)
LEMMA BeginModifyStepInv ==
    ASSUME IInv, NEW t \in Threads, NEW b \in Blocks, BeginModify(t, b)
    PROVE  IInv'
<1> USE DEF IInv
<1>1. PICK e : e = hash[b]
  OBVIOUS
<1>2. /\ UNCHANGED <<hash, bnum, where, dirty, busy, lock, clone, bclock>>
      /\ UNCHANGED <<pc, op, blk, need, got, tgt, holds, latest, disk, logged>>
      /\ data' = [data EXCEPT ![e] = Torn] /\ writer' = [writer EXCEPT ![b] = t]
      /\ pc[t] = "idle" /\ b \in holds[t] /\ writer[b] = NoThread
  BY <1>1 DEF BeginModify, callVars, diskVars
<1>3. e \in Ents /\ bnum[e] = b /\ where[e] = "locked" /\ ~Overwritten(e)
  BY <1>1, <1>2, HeldIsLocked, OverwrittenIsGot
<1>4. TypeOK'
  <2>1. data' \in [Ents -> Int] /\ writer' \in [Blocks -> Threads \cup {NoThread}]
    BY <1>2, <1>3 DEF Structure, TypeOK, Torn
  <2> QED
    BY <1>2, <2>1 DEF Structure, TypeOK
<1>5. \A c \in Blocks : Changing(c)' <=> c = b \/ Changing(c)
  BY <1>2, Kinds, CacheAssumption DEF Changing, Structure, TypeOK, CallsTellTruth
<1>6. \A x : Overwritten(x)' <=> Overwritten(x)
  BY <1>2, OverwrittenKept
<1>7. \A x \in Ents : data'[x] = IF x = e THEN Torn ELSE data[x]
  BY <1>2 DEF Structure, TypeOK
<1>8. BusyHasOneOwner' /\ CallsTellTruth' /\ RemoveAlone' /\ HashTellsTruth'
  BY <1>2 DEF Structure, CacheSound, BusyHasOneOwner, CallsTellTruth, RemoveAlone,
              HashTellsTruth
<1>9. LocksTellTruth'
  BY <1>2, HoldersKept DEF Structure, CacheSound, LocksTellTruth, NeedsFlush
<1>10. FillsTellTruth' /\ EntsTellTruth'
  BY <1>2 DEF Structure, TypeOK, FillsTellTruth, EntsTellTruth, NeedsFlush
<1>11. ClientsTellTruth'
  BY <1>2, <1>5, CacheAssumption DEF Structure, TypeOK, ClientsTellTruth
<1>12. Coherent'
  BY <1>1, <1>2, <1>3, <1>5, <1>6, <1>7 DEF Coherent, Structure, TypeOK
<1>13. LogNotForgotten' /\ VersionsOrdered'
  BY <1>2 DEF LogNotForgotten, VersionsOrdered
<1> QED
  BY <1>4, <1>8, <1>9, <1>10, <1>11, <1>12, <1>13 DEF Structure, CacheSound

\* The thread that is changing a block outside a call has it locked.
LEMMA WriterHolds ==
    ASSUME Structure, NEW t \in Threads, NEW b \in Blocks, pc[t] = "idle", writer[b] = t
    PROVE  Changing(b) /\ b \in holds[t]
BY Kinds, CacheAssumption DEF Changing, Structure, CallsTellTruth, ClientsTellTruth

LEMMA EndModifyStepInv ==
    ASSUME IInv, NEW t \in Threads, NEW b \in Blocks, EndModify(t, b)
    PROVE  IInv'
<1> USE DEF IInv
<1>1. PICK e : e = hash[b]
  OBVIOUS
<1>2. /\ UNCHANGED <<hash, bnum, where, dirty, busy, lock, clone, bclock>>
      /\ UNCHANGED <<pc, op, blk, need, got, tgt, holds, writer, disk, logged>>
      /\ data' = [data EXCEPT ![e] = latest[b] + 1]
      /\ latest' = [latest EXCEPT ![b] = @ + 1]
      /\ pc[t] = "idle" /\ writer[b] = t
  BY <1>1 DEF EndModify, callVars, diskVars
<1>3. /\ e \in Ents /\ bnum[e] = b /\ where[e] = "locked" /\ ~Overwritten(e)
      /\ Changing(b)
  BY <1>1, <1>2, WriterHolds, HeldIsLocked, OverwrittenIsGot
<1>4. TypeOK'
  <2>1. data' \in [Ents -> Int] /\ latest' \in [Blocks -> Nat]
    BY <1>2, <1>3 DEF Structure, TypeOK
  <2> QED
    BY <1>2, <2>1 DEF Structure, TypeOK
<1>5. \A c \in Blocks : Changing(c)' <=> Changing(c)
  BY <1>2 DEF Changing
<1>6. \A x : Overwritten(x)' <=> Overwritten(x)
  BY <1>2, OverwrittenKept
<1>7. /\ \A x \in Ents : data'[x] = IF x = e THEN latest[b] + 1 ELSE data[x]
      /\ \A c \in Blocks : latest'[c] = IF c = b THEN latest[b] + 1 ELSE latest[c]
  BY <1>2 DEF Structure, TypeOK
<1>8. BusyHasOneOwner' /\ CallsTellTruth' /\ RemoveAlone' /\ HashTellsTruth'
  BY <1>2 DEF Structure, CacheSound, BusyHasOneOwner, CallsTellTruth, RemoveAlone,
              HashTellsTruth
<1>9. LocksTellTruth'
  BY <1>2, HoldersKept DEF Structure, CacheSound, LocksTellTruth, NeedsFlush
<1>10. FillsTellTruth' /\ EntsTellTruth'
  BY <1>2 DEF Structure, TypeOK, FillsTellTruth, EntsTellTruth, NeedsFlush
<1>11. ClientsTellTruth'
  BY <1>2, <1>5 DEF Structure, ClientsTellTruth
<1>12. Coherent'
  BY <1>1, <1>2, <1>3, <1>5, <1>6, <1>7, CacheAssumption DEF Coherent, Structure, TypeOK
<1>13. LogNotForgotten' /\ VersionsOrdered'
  BY <1>2, <1>7 DEF LogNotForgotten, VersionsOrdered, Structure, TypeOK
<1> QED
  BY <1>4, <1>8, <1>9, <1>10, <1>11, <1>12, <1>13 DEF Structure, CacheSound

LEMMA MarkDirtyStepInv ==
    ASSUME IInv, NEW t \in Threads, NEW b \in Blocks, mark_blocks_dirty(t, b)
    PROVE  IInv'
<1> USE DEF IInv
<1>1. PICK e : e = hash[b]
  OBVIOUS
<1>2. /\ UNCHANGED <<hash, bnum, where, busy, lock, clone, data, bclock>>
      /\ UNCHANGED <<pc, op, blk, need, got, tgt, holds, latest, disk, logged>>
      /\ dirty' = [dirty EXCEPT ![e] = TRUE]
      /\ writer' = [writer EXCEPT ![b] = NoThread]
      /\ pc[t] = "idle" /\ writer[b] = t /\ data[e] # Torn /\ ~busy[e]
  BY <1>1 DEF mark_blocks_dirty, callVars, diskVars
<1>3. /\ e \in Ents /\ bnum[e] = b /\ where[e] = "locked" /\ ~Overwritten(e)
      /\ Changing(b)
  BY <1>1, <1>2, WriterHolds, HeldIsLocked, OverwrittenIsGot
<1>4. TypeOK'
  BY <1>2 DEF Structure, TypeOK
<1>5. \A c \in Blocks : Changing(c)' <=> c # b /\ Changing(c)
  BY <1>2, CacheAssumption DEF Changing, Structure, TypeOK
<1>6. \A x : Overwritten(x)' <=> Overwritten(x)
  BY <1>2, OverwrittenKept
<1>7. \A x \in Ents : dirty'[x] <=> x = e \/ dirty[x]
  BY <1>2 DEF Structure, TypeOK
<1>8. BusyHasOneOwner' /\ CallsTellTruth' /\ RemoveAlone' /\ HashTellsTruth'
  BY <1>2 DEF Structure, CacheSound, BusyHasOneOwner, CallsTellTruth, RemoveAlone,
              HashTellsTruth
<1>9. LocksTellTruth'
  BY <1>2, <1>3, <1>7, HoldersKept DEF Structure, CacheSound, LocksTellTruth, NeedsFlush
<1>10. FillsTellTruth'
  BY <1>2, <1>3, <1>7 DEF Structure, TypeOK, FillsTellTruth, NeedsFlush
<1>11. EntsTellTruth'
  BY <1>2, <1>3, <1>7, Kinds DEF Structure, EntsTellTruth, NeedsFlush
<1>12. ClientsTellTruth'
  BY <1>2, <1>5, Kinds, CacheAssumption
     DEF Structure, TypeOK, CallsTellTruth, ClientsTellTruth
<1>13. Coherent'
  BY <1>1, <1>2, <1>3, <1>5, <1>6, <1>7, CacheAssumption DEF Coherent, Structure, TypeOK
<1>14. LogNotForgotten' /\ VersionsOrdered'
  BY <1>2 DEF LogNotForgotten, VersionsOrdered
<1> QED
  BY <1>4, <1>8, <1>9, <1>10, <1>11, <1>12, <1>13, <1>14 DEF Structure, CacheSound

\* What release_block and set_blocks_info do to the locks.
OneLockLess(t, b, e) ==
    /\ lock' \in [Ents -> Nat]
    /\ where' \in [Ents -> {"unused", "normal", "locked", "taken"}]
    /\ holds' \in [Threads -> SUBSET Blocks]
    /\ \A x \in Ents : x # e => where'[x] = where[x]
    /\ where'[e] \in {"normal", "locked"}
    /\ \A x \in Ents :
          /\ lock'[x] = IF bnum[x] = NoBlock THEN 0 ELSE Cardinality(Holders(bnum[x])')
          /\ where'[x] = "locked" <=> lock'[x] > 0
    /\ \A u \in Threads : holds'[u] = IF u = t THEN holds[t] \ {b} ELSE holds[u]

LEMMA UnlockedLocks ==
    ASSUME Structure, NEW t \in Threads, NEW b \in holds[t], NEW e, e = hash[b],
           Unlocked(t, b, e), bnum' = bnum
    PROVE  OneLockLess(t, b, e)
<1>1. /\ lock' = [lock EXCEPT ![e] = @ - 1]
      /\ where' = [where EXCEPT ![e] = IF lock[e] = 1 THEN "normal" ELSE @]
      /\ holds' = [holds EXCEPT ![t] = @ \ {b}]
  BY DEF Unlocked
<1>2. /\ b \in Blocks /\ e \in Ents /\ bnum[e] = b /\ where[e] = "locked" /\ lock[e] > 0
      /\ lock[e] = Cardinality(Holders(b))
  BY HeldIsLocked
<1>3. /\ Cardinality(Holders(b)') = Cardinality(Holders(b)) - 1
      /\ \A c : c # b => Holders(c)' = Holders(c)
  BY <1>1, HoldersRemove DEF Structure
<1>4. /\ lock' \in [Ents -> Nat] /\ holds' \in [Threads -> SUBSET Blocks]
      /\ where' \in [Ents -> {"unused", "normal", "locked", "taken"}]
  BY <1>1, <1>2 DEF Structure, TypeOK
<1>5. /\ \A x \in Ents : x # e => lock'[x] = lock[x] /\ where'[x] = where[x] /\ bnum[x] # b
      /\ lock'[e] = lock[e] - 1
      /\ where'[e] = IF lock[e] = 1 THEN "normal" ELSE "locked"
      /\ \A u \in Threads : holds'[u] = IF u = t THEN holds[t] \ {b} ELSE holds[u]
  BY <1>1, <1>2, Kinds DEF Structure, TypeOK, CacheSound, HashTellsTruth
<1>6. ASSUME NEW x \in Ents
      PROVE  /\ lock'[x] = IF bnum[x] = NoBlock THEN 0 ELSE Cardinality(Holders(bnum[x])')
             /\ where'[x] = "locked" <=> lock'[x] > 0
  <2>1. CASE x = e
    BY <1>2, <1>3, <1>5, <2>1, Kinds DEF Structure, TypeOK
  <2>2. CASE x # e
    BY <1>3, <1>5, <2>2 DEF Structure, CacheSound, LocksTellTruth
  <2> QED
    BY <2>1, <2>2
<1> QED
  BY <1>4, <1>5, <1>6 DEF OneLockLess

LEMMA ReleaseStepInv ==
    ASSUME IInv, NEW t \in Threads, NEW b \in Blocks, release_block(t, b)
    PROVE  IInv'
<1> USE DEF IInv
<1>1. PICK e : e = hash[b]
  OBVIOUS
<1>2. /\ UNCHANGED <<hash, bnum, dirty, busy, clone, data, bclock>>
      /\ UNCHANGED <<pc, op, blk, need, got, tgt, writer, latest, disk, logged>>
      /\ pc[t] = "idle" /\ b \in holds[t] /\ writer[b] # t /\ ~busy[e]
      /\ Unlocked(t, b, e)
  BY <1>1 DEF release_block, callVars, diskVars
<1>3. e \in Ents /\ bnum[e] = b /\ \A u \in Threads : e \notin got[u]
  BY <1>1, <1>2, HeldIsLocked, GotIsBusy
<1>4. OneLockLess(t, b, e)
  BY <1>1, <1>2, UnlockedLocks
<1>5. TypeOK'
  BY <1>2, <1>4 DEF Structure, TypeOK, OneLockLess
<1>6. \A c \in Blocks : Changing(c)' <=> Changing(c)
  BY <1>2 DEF Changing
<1>7. \A x : Overwritten(x)' <=> Overwritten(x)
  BY <1>2, OverwrittenKept
<1>8. BusyHasOneOwner' /\ CallsTellTruth' /\ HashTellsTruth'
  BY <1>2 DEF Structure, CacheSound, BusyHasOneOwner, CallsTellTruth, HashTellsTruth
<1>9. LocksTellTruth'
  BY <1>2, <1>3, <1>4 DEF Structure, CacheSound, LocksTellTruth, NeedsFlush, OneLockLess
<1>10. FillsTellTruth'
  BY <1>2, <1>3, <1>4 DEF Structure, TypeOK, FillsTellTruth, NeedsFlush, OneLockLess
<1>11. EntsTellTruth'
  BY <1>2, <1>3, <1>4 DEF Structure, EntsTellTruth, NeedsFlush, OneLockLess
<1>12. ClientsTellTruth'
  <2>1. \A c \in Blocks : Changing(c) => c \in holds'[writer[c]]
    BY <1>2, <1>4, ChangingIsHeld DEF OneLockLess
  <2>2. \A u \in Threads : holds'[u] \subseteq holds[u]
    BY <1>4 DEF OneLockLess
  <2>3. \A u \in Threads : pc[u] = "info" => holds'[u] = holds[u]
    BY <1>2, <1>4 DEF OneLockLess
  <2> QED
    BY <1>2, <1>6, <2>1, <2>2, <2>3 DEF Structure, TypeOK, ClientsTellTruth
<1>13. RemoveAlone'
  BY <1>2 DEF Structure, RemoveAlone
<1>14. Coherent' /\ LogNotForgotten' /\ VersionsOrdered'
  BY <1>2, <1>6, <1>7, DataKept
<1> QED
  BY <1>5, <1>8, <1>9, <1>10, <1>11, <1>12, <1>13, <1>14 DEF Structure, CacheSound

\* set_blocks_info clones the data and hands the lock back.
LEMMA SetInfoStep ==
    ASSUME IInv, NEW t \in Threads, NEW b \in holds[t], SetInfo(t, b, hash[b]),
           \/ pc[t] = "idle" /\ writer[b] = NoThread /\ ~busy[hash[b]]
           \/ pc[t] = "info" /\ blk[t] = b
    PROVE  IInv'
<1> USE DEF IInv
<1>1. PICK e : e = hash[b]
  OBVIOUS
<1>2. /\ UNCHANGED <<hash, bnum, data, bclock, latest, disk>>
      /\ dirty' = [dirty EXCEPT ![e] = FALSE]
      /\ busy' = [busy EXCEPT ![e] = FALSE]
      /\ clone' = [clone EXCEPT ![e] = data[e]]
      /\ logged' = [logged EXCEPT ![b] = data[e]]
      /\ writer' = [writer EXCEPT ![b] = NoThread]
      /\ pc' = [pc EXCEPT ![t] = "idle"]
      /\ op' = [op EXCEPT ![t] = "none"]
      /\ blk' = [blk EXCEPT ![t] = NoBlock]
      /\ need' = [need EXCEPT ![t] = {}]
      /\ got' = [got EXCEPT ![t] = {}]
      /\ tgt' = [tgt EXCEPT ![t] = NoTarget]
      /\ Unlocked(t, b, e)
  BY <1>1 DEF SetInfo, EndCall
<1>3. /\ e \in Ents /\ b \in Blocks /\ bnum[e] = b /\ where[e] = "locked"
      /\ ~Overwritten(e) /\ e # NoEnt
  BY <1>1, HeldIsLocked, OverwrittenIsGot, CacheAssumption
<1>4. OneLockLess(t, b, e)
  BY <1>1, <1>2, UnlockedLocks
<1>5. /\ pc[t] \in {"idle", "info"} /\ op[t] = "none" /\ ~Changing(b)
      /\ got[t] \subseteq {e} /\ \A u \in Threads \ {t} : e \notin got[u]
  <2>1. CASE pc[t] = "idle" /\ writer[b] = NoThread /\ ~busy[e]
    BY <1>1, <2>1, GotIsBusy DEF Structure, CallsTellTruth, Changing
  <2>2. CASE pc[t] = "info" /\ blk[t] = b
    BY <1>1, <2>2, GotIsBusy DEF Structure, CallsTellTruth, ClientsTellTruth, Changing
  <2> QED
    BY <1>1, <2>1, <2>2
<1>6. data[e] = latest[b] /\ latest[b] \in Nat
  BY <1>1, <1>3, <1>5 DEF Coherent, Structure, TypeOK
<1>7. TypeOK'
  <2>1. /\ dirty' \in [Ents -> BOOLEAN] /\ busy' \in [Ents -> BOOLEAN]
        /\ clone' \in [Ents -> Int] /\ logged' \in [Blocks -> Int]
        /\ writer' \in [Blocks -> Threads \cup {NoThread}]
    BY <1>2, <1>3 DEF Structure, TypeOK
  <2>2. /\ op' \in [Threads -> Readers \cup Writers \cup {"none"}]
        /\ blk' \in [Threads -> Blocks \cup {NoBlock}] /\ pc' \in [Threads -> Pcs]
        /\ need' \in [Threads -> SUBSET Blocks] /\ got' \in [Threads -> SUBSET Ents]
        /\ tgt' \in [Threads -> [Blocks -> Ents \cup {NoEnt}]]
    BY <1>2 DEF Structure, TypeOK, Pcs, NoTarget
  <2> QED
    BY <1>2, <1>4, <2>1, <2>2 DEF Structure, TypeOK, OneLockLess, Pcs
<1>8. /\ \A x \in Ents : /\ dirty'[x] <=> x # e /\ dirty[x]
                         /\ busy'[x] <=> x # e /\ busy[x]
                         /\ clone'[x] = IF x = e THEN latest[b] ELSE clone[x]
      /\ \A c \in Blocks : /\ logged'[c] = IF c = b THEN latest[b] ELSE logged[c]
                           /\ writer'[c] = IF c = b THEN NoThread ELSE writer[c]
  BY <1>2, <1>3, <1>6 DEF Structure, TypeOK
<1>9. /\ pc'[t] = "idle" /\ op'[t] = "none" /\ need'[t] = {} /\ got'[t] = {}
      /\ tgt'[t] = NoTarget
      /\ \A u \in Threads \ {t} :
            /\ pc'[u] = pc[u] /\ op'[u] = op[u] /\ blk'[u] = blk[u]
            /\ need'[u] = need[u] /\ got'[u] = got[u] /\ tgt'[u] = tgt[u]
  BY <1>2 DEF Structure, TypeOK
<1>10. \A c \in Blocks : Changing(c)' <=> Changing(c)
  <2>1. ASSUME NEW c \in Blocks, c # b
        PROVE  Changing(c)' <=> Changing(c)
    <3>1. CASE writer[c] = t
      BY <1>5, <1>8, <1>9, <2>1, <3>1, Kinds DEF Changing
    <3>2. CASE writer[c] # t
      BY <1>8, <1>9, <2>1, <3>2 DEF Changing, Structure, TypeOK
    <3> QED
      BY <3>1, <3>2
  <2> QED
    BY <1>3, <1>5, <1>8, <2>1 DEF Changing
<1>11. \A x : Overwritten(x)' <=> Overwritten(x)
  <2>1. \A u \in Threads : pc'[u] = "install" <=> pc[u] = "install"
    BY <1>5, <1>9
  <2>2. \A u \in Threads : pc[u] = "install" => tgt'[u] = tgt[u] /\ need'[u] = need[u]
    BY <1>5, <1>9
  <2> QED
    BY <2>1, <2>2, OverwrittenKept
<1>12. BusyHasOneOwner'
  BY <1>5, <1>8, <1>9 DEF Structure, CacheSound, BusyHasOneOwner
<1>13. HashTellsTruth'
  BY <1>2, <1>5, <1>9, <1>12, HashKept DEF Filling
<1>14. LocksTellTruth'
  BY <1>2, <1>3, <1>4, <1>8
     DEF Structure, CacheSound, LocksTellTruth, NeedsFlush, OneLockLess
<1>15. CallsTellTruth'
  BY <1>5, <1>9 DEF Structure, CallsTellTruth, Filling, Flushes
<1>16. FillsTellTruth'
  <2>1. ASSUME NEW u \in Threads \ {t}, NEW x \in got[u]
        PROVE  where'[x] = where[x] /\ NeedsFlush(x)' = NeedsFlush(x)
    BY <1>4, <1>5, <1>8, <2>1 DEF OneLockLess, NeedsFlush, Structure, TypeOK
  <2> QED
    BY <1>2, <1>9, <2>1 DEF Structure, FillsTellTruth, Filling
<1>17. EntsTellTruth'
  <2>1. ASSUME NEW u \in Threads \ {t}, NEW x \in got[u]
        PROVE  where'[x] = where[x]
    BY <1>4, <1>5, <2>1 DEF OneLockLess, Structure, TypeOK
  <2> QED
    BY <1>2, <1>3, <1>8, <1>9, <2>1, Kinds DEF Structure, EntsTellTruth, NeedsFlush
<1>18. ClientsTellTruth'
  <2>1. \A c \in Blocks : Changing(c)' => c \in holds'[writer'[c]]
    <3>1. ASSUME NEW c \in Blocks, Changing(c)
          PROVE  c \in holds'[writer'[c]]
      BY <1>4, <1>5, <1>8, <3>1, ChangingIsHeld DEF OneLockLess
    <3> QED
      BY <1>10, <3>1
  <2>2. \A u \in Threads : holds'[u] \subseteq holds[u]
    BY <1>4 DEF OneLockLess
  <2>3. \A u \in Threads \ {t} : holds'[u] = holds[u]
    BY <1>4 DEF OneLockLess
  <2>4. \A u \in Threads \ {t} : (op[u] \in Writers \/ pc[u] = "info") => blk[u] # b
    <3>1. ASSUME NEW u \in Threads \ {t}, op[u] \in Writers \/ pc[u] = "info", blk[u] = b
          PROVE  FALSE
      <4>1. writer[b] = u
        BY <3>1 DEF Structure, ClientsTellTruth
      <4>2. CASE pc[t] = "info"
        BY <4>1, <4>2 DEF Structure, ClientsTellTruth
      <4>3. CASE pc[t] # "info"
        BY <4>1, <4>3, CacheAssumption
      <4> QED
        BY <4>2, <4>3
    <3> QED
      BY <3>1
  <2> QED
    BY <1>2, <1>3, <1>8, <1>9, <2>1, <2>2, <2>3, <2>4, Kinds
       DEF Structure, TypeOK, ClientsTellTruth
<1>19. RemoveAlone'
  BY <1>5, <1>9 DEF Structure, RemoveAlone
<1>20. Coherent'
  BY <1>1, <1>2, <1>3, <1>6, <1>8, <1>10, <1>11 DEF Coherent, Structure, TypeOK, NoClone
<1>21. LogNotForgotten'
  BY <1>1, <1>2, <1>3, <1>6, <1>8 DEF LogNotForgotten, Structure, TypeOK, NoClone
<1>22. VersionsOrdered'
  BY <1>1, <1>2, <1>3, <1>6, <1>8 DEF VersionsOrdered, Structure, TypeOK, NoClone
<1> QED
  BY <1>7, <1>12, <1>13, <1>14, <1>15, <1>16, <1>17, <1>18, <1>19, <1>20, <1>21, <1>22
     DEF Structure, CacheSound

LEMMA SetInfoStepInv ==
    ASSUME IInv, NEW t \in Threads,
           SetInfoDone(t) \/ \E b \in Blocks : set_blocks_info(t, b)
    PROVE  IInv'
<1> USE DEF IInv
<1>1. CASE SetInfoDone(t)
  BY <1>1, SetInfoStep DEF SetInfoDone, Structure, ClientsTellTruth
<1>2. ASSUME NEW b \in Blocks, set_blocks_info(t, b)
      PROVE  IInv'
  <2>1. PICK e : e = hash[b]
    OBVIOUS
  <2>2. /\ pc[t] = "idle" /\ b \in holds[t] /\ writer[b] = NoThread /\ ~busy[e] /\ LOCK(t)
    BY <1>2, <2>1 DEF set_blocks_info
  <2>3. CASE SetInfo(t, b, e)
    BY <2>1, <2>2, <2>3, SetInfoStep
  <2>4. CASE /\ UNCHANGED <<hash, bnum, where, dirty, lock, clone, data, bclock, op>>
             /\ UNCHANGED <<need, tgt, holds, latest, disk, logged>>
             /\ busy' = [busy EXCEPT ![e] = TRUE]
             /\ writer' = [writer EXCEPT ![b] = t]
             /\ got' = [got EXCEPT ![t] = {e}]
             /\ blk' = [blk EXCEPT ![t] = b]
             /\ pc' = [pc EXCEPT ![t] = "info"]
    <3>1. /\ e \in Ents /\ bnum[e] = b /\ where[e] = "locked" /\ op[t] = "none"
          /\ got[t] = {} /\ \A u \in Threads : e \notin got[u]
      BY <2>1, <2>2, HeldIsLocked, GotIsBusy DEF Structure, CallsTellTruth
    <3>2. TypeOK'
      BY <2>4, <3>1 DEF Structure, TypeOK
    <3>3. /\ pc'[t] = "info" /\ blk'[t] = b /\ got'[t] = {e}
          /\ \A u \in Threads \ {t} : pc'[u] = pc[u] /\ blk'[u] = blk[u] /\ got'[u] = got[u]
          /\ \A x \in Ents : busy'[x] <=> x = e \/ busy[x]
          /\ \A c \in Blocks : writer'[c] = IF c = b THEN t ELSE writer[c]
      BY <2>4, <3>1 DEF Structure, TypeOK
    <3>4. \A c \in Blocks : Changing(c)' <=> Changing(c)
      <4>1. ASSUME NEW c \in Blocks, c # b, writer[c] = t
            PROVE  Changing(c)' <=> Changing(c)
        BY <2>2, <2>4, <3>1, <3>3, <4>1, Kinds DEF Changing
      <4>2. ASSUME NEW c \in Blocks, c # b, writer[c] # t
            PROVE  Changing(c)' <=> Changing(c)
        BY <2>4, <3>3, <4>2 DEF Changing, Structure, TypeOK
      <4>3. ~Changing(b)' /\ ~Changing(b)
        BY <2>2, <3>3, CacheAssumption DEF Changing
      <4> QED
        BY <4>1, <4>2, <4>3
    <3>5. \A x : Overwritten(x)' <=> Overwritten(x)
      <4>1. \A u \in Threads : pc'[u] = "install" <=> pc[u] = "install"
        BY <2>2, <3>3
      <4> QED
        BY <2>4, <4>1, OverwrittenKept
    <3>6. BusyHasOneOwner'
      BY <3>1, <3>3 DEF Structure, CacheSound, BusyHasOneOwner
    <3>7. HashTellsTruth'
      BY <2>2, <2>4, <3>3, <3>6, HashKept DEF Filling
    <3>8. LocksTellTruth'
      BY <2>4, HoldersKept DEF Structure, CacheSound, LocksTellTruth, NeedsFlush
    <3>9. CallsTellTruth'
      BY <2>2, <2>4, <3>1, <3>3 DEF Structure, CallsTellTruth, Filling, Flushes
    <3>10. FillsTellTruth'
      BY <2>4, <3>3 DEF Structure, FillsTellTruth, Filling, NeedsFlush
    <3>11. EntsTellTruth'
      BY <2>4, <3>1, <3>3 DEF Structure, EntsTellTruth, NeedsFlush
    <3>12. ClientsTellTruth'
      <4>1. \A c \in Blocks : Changing(c)' => c \in holds'[writer'[c]]
        BY <2>4, <3>3, <3>4, ChangingIsHeld, <2>2
      <4> QED
        BY <2>1, <2>2, <2>4, <3>1, <3>3, <4>1, Kinds, CacheAssumption
           DEF Structure, TypeOK, ClientsTellTruth
    <3>13. RemoveAlone'
      BY <2>2, <2>4, <3>3, NobodyRemoves DEF RemoveAlone
    <3>14. Coherent' /\ LogNotForgotten' /\ VersionsOrdered'
      BY <2>4, <3>4, <3>5, DataKept
    <3> QED
      BY <3>2, <3>6, <3>7, <3>8, <3>9, <3>10, <3>11, <3>12, <3>13, <3>14
         DEF Structure, CacheSound
  <2> QED
    BY <1>2, <2>1, <2>3, <2>4 DEF set_blocks_info, diskVars
<1> QED
  BY <1>1, <1>2

-----------------------------------------------------------------------------
(***************************************************************************)
(* remove_cached_device_blocks.                                            *)
(***************************************************************************)
LEMMA RemoveStepInv ==
    ASSUME IInv, NEW t \in Threads, remove_cached_device_blocks(t)
    PROVE  IInv'
<1> USE DEF IInv
<1>1. /\ UNCHANGED <<hash, bnum, where, dirty, lock, clone, data, op, blk, need, tgt>>
      /\ UNCHANGED <<holds, writer, latest, disk, logged>>
      /\ \A u \in Threads : pc[u] = "idle" /\ holds[u] = {}
      /\ busy' = [e \in Ents |-> where[e] # "unused"]
      /\ got' = [got EXCEPT ![t] = {e \in Ents : where[e] # "unused"}]
      /\ pc' = [pc EXCEPT ![t] = "remove"]
      /\ bclock' = t
  BY DEF remove_cached_device_blocks, clientVars, diskVars
<1>2. TypeOK'
  <2>1. /\ busy' \in [Ents -> BOOLEAN] /\ got' \in [Threads -> SUBSET Ents]
        /\ pc' \in [Threads -> Pcs]
    BY <1>1 DEF Structure, TypeOK, Pcs
  <2> QED
    BY <1>1, <2>1 DEF Structure, TypeOK, Pcs
<1>3. /\ pc'[t] = "remove" /\ got'[t] = {e \in Ents : where[e] # "unused"}
      /\ \A u \in Threads \ {t} : pc'[u] = "idle" /\ got'[u] = {}
      /\ \A u \in Threads : op'[u] = "none" /\ tgt'[u] = NoTarget
      /\ \A e \in Ents : busy'[e] <=> where[e] # "unused"
  BY <1>1 DEF Structure, TypeOK, CallsTellTruth, Filling
<1>4. \A c \in Blocks : Changing(c)' <=> Changing(c)
  BY <1>1, <1>3 DEF Changing, Structure, TypeOK
<1>5. \A e : Overwritten(e)' <=> Overwritten(e)
  BY <1>1, <1>3 DEF Overwritten
<1>6. BusyHasOneOwner'
  BY <1>3 DEF BusyHasOneOwner
<1>7. HashTellsTruth'
  BY <1>1, <1>6, HashKept DEF Filling
<1>8. LocksTellTruth'
  BY <1>1, HoldersKept DEF Structure, CacheSound, LocksTellTruth, NeedsFlush
<1>9. CallsTellTruth'
  BY <1>1, <1>3 DEF Structure, CallsTellTruth, Filling, Flushes
<1>10. FillsTellTruth'
  BY <1>1, <1>3 DEF FillsTellTruth, Filling
<1>11. EntsTellTruth'
  BY <1>1, <1>3 DEF Structure, EntsTellTruth, NeedsFlush
<1>12. ClientsTellTruth'
  BY <1>1, <1>3, <1>4 DEF Structure, ClientsTellTruth
<1>13. RemoveAlone'
  BY <1>1, <1>3 DEF RemoveAlone
<1>14. Coherent' /\ LogNotForgotten' /\ VersionsOrdered'
  BY <1>1, <1>4, <1>5, DataKept
<1> QED
  BY <1>2, <1>6, <1>7, <1>8, <1>9, <1>10, <1>11, <1>12, <1>13, <1>14
     DEF Structure, CacheSound

LEMMA RemoveDoneStepInv ==
    ASSUME IInv, NEW t \in Threads, RemoveDone(t)
    PROVE  IInv'
<1> USE DEF IInv
<1>1. /\ UNCHANGED <<dirty, lock, clone, holds, writer, latest, disk, logged>>
      /\ pc[t] = "remove" /\ Flushed(t)
      /\ hash' = NoTarget
      /\ bnum' = [e \in Ents |-> NoBlock]
      /\ where' = [e \in Ents |-> "unused"]
      /\ busy' = [e \in Ents |-> FALSE]
      /\ data' = [e \in Ents |-> Torn]
      /\ bclock' = NoThread
      /\ pc' = [pc EXCEPT ![t] = "idle"]
      /\ op' = [op EXCEPT ![t] = "none"]
      /\ blk' = [blk EXCEPT ![t] = NoBlock]
      /\ need' = [need EXCEPT ![t] = {}]
      /\ got' = [got EXCEPT ![t] = {}]
      /\ tgt' = [tgt EXCEPT ![t] = NoTarget]
  BY DEF RemoveDone, EndCall, clientVars, diskVars
<1>2. /\ got[t] = {e \in Ents : where[e] # "unused"}
      /\ \A u \in Threads : holds[u] = {} /\ (u # t => pc[u] \in {"idle", "lookup"})
  BY <1>1 DEF Structure, RemoveAlone
<1>3. \A e \in Ents : lock[e] = 0 /\ ~NeedsFlush(e)
  <2>1. ASSUME NEW e \in Ents
        PROVE  lock[e] = 0
    <3>1. Holders(bnum[e]) = {}
      BY <1>2 DEF Holders
    <3> QED
      BY <3>1, HoldersFinite DEF Structure, CacheSound, LocksTellTruth
  <2> QED
    BY <1>1, <1>2, <2>1 DEF Flushed, NeedsFlush, Structure, CacheSound, LocksTellTruth
<1>4. \A b \in Blocks : disk[b] = latest[b] /\ logged[b] = NoClone
  <2>1. ASSUME NEW b \in Blocks
        PROVE  disk[b] = latest[b] /\ logged[b] = NoClone
    <3>1. CASE hash[b] = NoEnt
      BY <3>1 DEF Coherent, LogNotForgotten
    <3>2. CASE hash[b] # NoEnt
      <4>1. hash[b] \in Ents /\ bnum[hash[b]] = b
        <5>1. \A u \in Threads : pc[u] \notin Filling
          BY <1>1, <1>2 DEF Filling
        <5> QED
          BY <3>2, <5>1, FoundEarly DEF Structure, TypeOK
      <4>2. ~Changing(b)
        BY <1>2, ChangingIsHeld
      <4> QED
        BY <1>3, <3>2, <4>1, <4>2 DEF Coherent, LogNotForgotten, NeedsFlush
    <3> QED
      BY <3>1, <3>2
  <2> QED
    BY <2>1
<1>5. TypeOK'
  <2>1. /\ hash' \in [Blocks -> Ents \cup {NoEnt}]
        /\ bnum' \in [Ents -> Blocks \cup {NoBlock}]
        /\ where' \in [Ents -> {"unused", "normal", "locked", "taken"}]
        /\ busy' \in [Ents -> BOOLEAN] /\ data' \in [Ents -> Int]
        /\ bclock' \in Threads \cup {NoThread}
    BY <1>1 DEF Torn, NoTarget
  <2>2. /\ op' \in [Threads -> Readers \cup Writers \cup {"none"}]
        /\ blk' \in [Threads -> Blocks \cup {NoBlock}] /\ pc' \in [Threads -> Pcs]
        /\ need' \in [Threads -> SUBSET Blocks] /\ got' \in [Threads -> SUBSET Ents]
        /\ tgt' \in [Threads -> [Blocks -> Ents \cup {NoEnt}]]
    BY <1>1 DEF Structure, TypeOK, Pcs, NoTarget
  <2> QED
    BY <1>1, <2>1, <2>2 DEF Structure, TypeOK, Pcs
<1>6. /\ pc'[t] = "idle" /\ op'[t] = "none" /\ need'[t] = {} /\ got'[t] = {}
      /\ tgt'[t] = NoTarget
      /\ \A u \in Threads \ {t} :
            /\ pc'[u] = pc[u] /\ op'[u] = op[u] /\ blk'[u] = blk[u]
            /\ need'[u] = need[u] /\ got'[u] = got[u] /\ tgt'[u] = tgt[u]
  BY <1>1 DEF Structure, TypeOK
<1>7. \A c \in Blocks : ~Changing(c)'
  <2>1. ASSUME NEW c \in Blocks, Changing(c)'
        PROVE  FALSE
    <3>1. ~Changing(c)
      BY <1>2, ChangingIsHeld
    <3>2. op[t] = "none"
      BY <1>1 DEF Structure, CallsTellTruth
    <3> QED
      BY <1>1, <1>6, <2>1, <3>1, <3>2, Kinds DEF Changing, Structure, TypeOK
  <2> QED
    BY <2>1
<1>8. /\ \A e \in Ents : where'[e] = "unused" /\ bnum'[e] = NoBlock /\ ~busy'[e]
      /\ \A b \in Blocks : hash'[b] = NoEnt
      /\ \A u \in Threads : got'[u] = {} /\ pc'[u] \in {"idle", "lookup"}
  BY <1>1, <1>2, <1>6 DEF NoTarget, Structure, CallsTellTruth
<1>9. BusyHasOneOwner' /\ HashTellsTruth'
  BY <1>8 DEF BusyHasOneOwner, HashTellsTruth
<1>10. LocksTellTruth' /\ EntsTellTruth'
  BY <1>1, <1>3, <1>8 DEF LocksTellTruth, EntsTellTruth, NeedsFlush
<1>11. CallsTellTruth'
  BY <1>6, <1>8 DEF Structure, CallsTellTruth, Filling, Flushes
<1>12. FillsTellTruth' /\ RemoveAlone'
  BY <1>8 DEF FillsTellTruth, RemoveAlone, Filling
<1>13. ClientsTellTruth'
  BY <1>1, <1>2, <1>6, <1>7, <1>8, Kinds DEF Structure, ClientsTellTruth
<1>14. Coherent' /\ LogNotForgotten' /\ VersionsOrdered'
  BY <1>1, <1>4, <1>8 DEF Coherent, LogNotForgotten, VersionsOrdered, Structure, TypeOK
<1> QED
  BY <1>5, <1>9, <1>10, <1>11, <1>12, <1>13, <1>14 DEF Structure, CacheSound


\* With NO_WRITES the disk's contents become the newest ones.
LEMMA DiscardStepInv ==
    ASSUME IInv, NEW t \in Threads, DiscardDeviceBlocks(t)
    PROVE  IInv'
<1> USE DEF IInv
<1>1. /\ UNCHANGED <<busy, lock, clone, bclock, pc, op, blk, need, got, tgt, holds,
                     writer, disk, logged>>
      /\ \A u \in Threads : pc[u] = "idle" /\ holds[u] = {}
      /\ \A e \in Ents : clone[e] = NoClone
      /\ hash' = NoTarget
      /\ bnum' = [e \in Ents |-> NoBlock]
      /\ where' = [e \in Ents |-> "unused"]
      /\ dirty' = [e \in Ents |-> FALSE]
      /\ data' = [e \in Ents |-> Torn]
      /\ latest' = disk
  BY DEF DiscardDeviceBlocks, callVars, diskVars
<1>2. \A u \in Threads : got[u] = {} /\ tgt[u] = NoTarget /\ op[u] = "none"
  BY <1>1 DEF Structure, CallsTellTruth, Filling
<1>3. \A e \in Ents : lock[e] = 0 /\ ~busy[e]
  <2>1. ASSUME NEW e \in Ents
        PROVE  lock[e] = 0
    <3>1. Holders(bnum[e]) = {}
      BY <1>1 DEF Holders
    <3> QED
      BY <3>1, HoldersFinite DEF Structure, CacheSound, LocksTellTruth
  <2> QED
    BY <1>2, <2>1 DEF Structure, CacheSound, BusyHasOneOwner
<1>4. \A b \in Blocks : logged[b] = NoClone
  <2>1. ASSUME NEW b \in Blocks, logged[b] # NoClone
        PROVE  FALSE
    <3>1. hash[b] # NoEnt /\ clone[hash[b]] # NoClone
      BY <2>1 DEF LogNotForgotten
    <3> QED
      BY <1>1, <3>1 DEF Structure, TypeOK
  <2> QED
    BY <2>1
<1>5. TypeOK'
  <2>1. /\ hash' \in [Blocks -> Ents \cup {NoEnt}]
        /\ bnum' \in [Ents -> Blocks \cup {NoBlock}]
        /\ where' \in [Ents -> {"unused", "normal", "locked", "taken"}]
        /\ dirty' \in [Ents -> BOOLEAN] /\ data' \in [Ents -> Int]
    BY <1>1 DEF Torn, NoTarget
  <2>2. latest' \in [Blocks -> Nat]
    BY <1>1 DEF Structure, TypeOK, VersionsOrdered
  <2> QED
    BY <1>1, <2>1, <2>2 DEF Structure, TypeOK
<1>6. \A c \in Blocks : ~Changing(c)'
  <2>1. \A c \in Blocks : ~Changing(c)
    BY <1>1, ChangingIsHeld
  <2> QED
    BY <1>1, <2>1 DEF Changing
<1>7. /\ \A e \in Ents : where'[e] = "unused" /\ bnum'[e] = NoBlock /\ ~dirty'[e]
      /\ \A b \in Blocks : hash'[b] = NoEnt
  BY <1>1 DEF NoTarget
<1>8. BusyHasOneOwner' /\ HashTellsTruth'
  BY <1>1, <1>2, <1>3, <1>7 DEF BusyHasOneOwner, HashTellsTruth
<1>9. LocksTellTruth' /\ EntsTellTruth'
  BY <1>1, <1>2, <1>3, <1>7 DEF LocksTellTruth, EntsTellTruth, NeedsFlush
<1>10. CallsTellTruth' /\ FillsTellTruth' /\ RemoveAlone'
  BY <1>1, <1>2 DEF Structure, CallsTellTruth, FillsTellTruth, RemoveAlone, Filling
<1>11. ClientsTellTruth'
  BY <1>1, <1>2, <1>6, Kinds DEF ClientsTellTruth
<1>12. Coherent' /\ LogNotForgotten' /\ VersionsOrdered'
  BY <1>1, <1>4, <1>7 DEF Coherent, LogNotForgotten, VersionsOrdered, Structure, TypeOK
<1> QED
  BY <1>5, <1>8, <1>9, <1>10, <1>11, <1>12 DEF Structure, CacheSound

-----------------------------------------------------------------------------
(***************************************************************************)
(* cache_block_io: get_ents.                                               *)
(***************************************************************************)
\* The entries get_ents marks are idle and unlocked, and the blocks it needs
\* include the one asked for.
LEMMA GetEntsFacts ==
    ASSUME IInv, NEW t \in Threads, Missing(t) \/ Retrying(t)
    PROVE  /\ Needed(t) \in SUBSET Blocks /\ blk[t] \in Needed(t) /\ blk[t] \in Blocks
           /\ op[t] \in Writers => Needed(t) = {blk[t]}
           /\ op[t] \in Readers \cup Writers /\ pc[t] \in {"lookup", "getents"}
           /\ \A e \in got[t] : e \in Ents /\ where[e] \notin {"unused", "locked"}
           /\ \A e \in Avail : /\ e \in Ents /\ where[e] = "normal"
                               /\ \A u \in Threads : e \notin got[u]
           /\ \A F \in Fresh(t) : \A e \in F :
                 /\ e \in Ents /\ where[e] = "unused"
                 /\ \A u \in Threads : e \notin got[u]
<1> USE DEF IInv
<1>1. blk[t] \in Blocks /\ op[t] \in Readers \cup Writers /\ pc[t] \in {"lookup", "getents"}
  BY DEF Missing, Retrying, Structure, CallsTellTruth
<1>2. /\ Needed(t) \in SUBSET Blocks /\ blk[t] \in Needed(t)
      /\ op[t] \in Writers => Needed(t) = {blk[t]}
  <2>1. CASE Retrying(t)
    BY <2>1 DEF Retrying, Needed, Structure, CallsTellTruth, TypeOK
  <2>2. CASE ~Retrying(t)
    <3>1. hash[blk[t]] = NoEnt /\ Needed(t) = Wanted(t)
      BY <2>2 DEF Needed, Missing
    <3>2. /\ Wanted(t) \subseteq Blocks /\ blk[t] \in Wanted(t)
          /\ op[t] \in Writers => Wanted(t) = {blk[t]}
      BY <1>1, <3>1, CacheAssumption, Kinds DEF Wanted, Blocks
    <3> QED
      BY <3>1, <3>2
  <2> QED
    BY <2>1, <2>2
<1>4. \A e \in got[t] : e \in Ents /\ where[e] \notin {"unused", "locked"}
  BY <1>1 DEF Structure, CallsTellTruth, EntsTellTruth, TypeOK
<1>5. \A e \in Avail : /\ e \in Ents /\ where[e] = "normal"
                       /\ \A u \in Threads : e \notin got[u]
  BY GotIsBusy DEF Avail, On
<1>6. \A F \in Fresh(t) : \A e \in F : /\ e \in Ents /\ where[e] = "unused"
                                       /\ \A u \in Threads : e \notin got[u]
  BY GotIsBusy DEF Fresh, On
<1> QED
  BY <1>1, <1>2, <1>4, <1>5, <1>6

\* get_ents marks idle entries busy and goes on waiting, or panics.
LEMMA MarkStep ==
    ASSUME IInv, NEW t \in Threads, Missing(t) \/ Retrying(t), LOCK(t),
           NEW A \in SUBSET Ents, NEW N \in SUBSET Blocks, NEW place \in {"getents", "panic"},
           \A e \in A, u \in Threads : e \notin got[u],
           blk[t] \in N, op[t] \in Writers => N = {blk[t]},
           where' \in [Ents -> {"unused", "normal", "locked", "taken"}],
           \A e \in A : where'[e] \notin {"unused", "locked"},
           \A e \in Ents : where'[e] = where[e] \/ (where[e] = "unused" /\ where'[e] = "taken"),
           busy' = [e \in Ents |-> busy[e] \/ e \in A],
           got' = [got EXCEPT ![t] = @ \cup A], need' = [need EXCEPT ![t] = N],
           pc' = [pc EXCEPT ![t] = place], bclock' \in {bclock, t},
           UNCHANGED <<hash, bnum, dirty, lock, clone, data, op, blk, tgt>>,
           UNCHANGED <<holds, writer, latest, disk, logged>>
    PROVE  IInv'
<1> USE DEF IInv
<1>1. /\ op[t] \in Readers \cup Writers /\ pc[t] \in {"lookup", "getents"} /\ blk[t] \in Blocks
      /\ \A e \in got[t] : e \in Ents /\ where[e] \notin {"unused", "locked"}
  BY GetEntsFacts
<1>2. TypeOK'
  <2>1. /\ busy' \in [Ents -> BOOLEAN] /\ got' \in [Threads -> SUBSET Ents]
        /\ pc' \in [Threads -> Pcs] /\ need' \in [Threads -> SUBSET Blocks]
        /\ bclock' \in Threads \cup {NoThread}
    BY DEF Structure, TypeOK, Pcs
  <2> QED
    BY <2>1 DEF Structure, TypeOK, Pcs
<1>3. /\ pc'[t] = place /\ got'[t] = got[t] \cup A /\ need'[t] = N
      /\ \A u \in Threads \ {t} : pc'[u] = pc[u] /\ got'[u] = got[u] /\ need'[u] = need[u]
      /\ \A e \in Ents : busy'[e] <=> busy[e] \/ e \in A
  BY DEF Structure, TypeOK
<1>4. \A c \in Blocks : Changing(c)' <=> Changing(c)
  BY <1>1, <1>3 DEF Changing, Structure, TypeOK
<1>5. \A e : Overwritten(e)' <=> Overwritten(e)
  <2>1. \A u \in Threads : pc'[u] = "install" <=> pc[u] = "install"
    BY <1>1, <1>3
  <2>2. \A u \in Threads : pc[u] = "install" => tgt'[u] = tgt[u] /\ need'[u] = need[u]
    BY <1>1, <1>3
  <2> QED
    BY <2>1, <2>2, OverwrittenKept
<1>6. BusyHasOneOwner'
  BY <1>3 DEF Structure, CacheSound, BusyHasOneOwner
<1>7. HashTellsTruth'
  BY <1>1, <1>3, <1>6, HashKept DEF Filling
<1>8. LocksTellTruth'
  BY HoldersKept DEF Structure, CacheSound, LocksTellTruth, NeedsFlush
<1>9. CallsTellTruth'
  BY <1>1, <1>3 DEF Structure, CallsTellTruth, Filling, Flushes
<1>10. FillsTellTruth'
  <2>1. \A u \in Threads : pc'[u] \in Filling => u # t
    BY <1>3 DEF Filling
  <2>2. \A e \in Ents : where[e] = "taken" => where'[e] = "taken"
    OBVIOUS
  <2> QED
    BY <1>3, <2>1, <2>2 DEF Structure, TypeOK, FillsTellTruth, NeedsFlush
<1>11. EntsTellTruth'
  <2>1. ASSUME NEW u \in Threads, NEW e \in Ents, e \in got'[u]
        PROVE  where'[e] # "unused" /\ (pc'[u] = "getents" => where'[e] # "locked")
    <3>1. CASE u = t
      BY <1>1, <1>3, <2>1, <3>1
    <3>2. CASE u # t
      BY <1>3, <2>1, <3>2 DEF Structure, EntsTellTruth
    <3> QED
      BY <3>1, <3>2
  <2> QED
    BY <2>1 DEF Structure, EntsTellTruth, NeedsFlush
<1>12. ClientsTellTruth'
  BY <1>1, <1>3, <1>4 DEF Structure, ClientsTellTruth
<1>13. RemoveAlone'
  BY <1>1, <1>3, NobodyRemoves DEF RemoveAlone
<1>14. Coherent' /\ LogNotForgotten' /\ VersionsOrdered'
  BY <1>4, <1>5, DataKept
<1> QED
  BY <1>2, <1>6, <1>7, <1>8, <1>9, <1>10, <1>11, <1>12, <1>13, <1>14
     DEF Structure, CacheSound

LEMMA GetEntsShortStepInv ==
    ASSUME IInv, NEW t \in Threads, NEW F \in Fresh(t), GetEntsShort(t, F)
    PROVE  IInv'
<1> USE DEF IInv
<1> DEFINE A == F \cup Avail
<1>1. /\ Missing(t) \/ Retrying(t)
      /\ LOCK(t)
      /\ UNCHANGED <<hash, bnum, dirty, lock, clone, data, bclock, op, blk, tgt>>
      /\ UNCHANGED <<holds, writer, latest, disk, logged>>
      /\ busy' = [e \in Ents |-> busy[e] \/ e \in A]
      /\ where' = [e \in Ents |-> IF e \in F THEN "taken" ELSE where[e]]
      /\ got' = [got EXCEPT ![t] = @ \cup A]
      /\ need' = [need EXCEPT ![t] = Needed(t)]
      /\ pc' = [pc EXCEPT ![t] = "getents"]
  <2>1. got[t] \cup F \cup Avail = got[t] \cup A
    OBVIOUS
  <2> QED
    BY <2>1 DEF GetEntsShort, clientVars, diskVars, Structure, TypeOK
<1>2. /\ Needed(t) \in SUBSET Blocks /\ blk[t] \in Needed(t)
      /\ op[t] \in Writers => Needed(t) = {blk[t]}
      /\ \A e \in Avail : /\ e \in Ents /\ where[e] = "normal"
                          /\ \A u \in Threads : e \notin got[u]
      /\ \A e \in F : /\ e \in Ents /\ where[e] = "unused"
                      /\ \A u \in Threads : e \notin got[u]
  BY <1>1, GetEntsFacts
<1>3. A \in SUBSET Ents /\ \A e \in A, u \in Threads : e \notin got[u]
  BY <1>2
<1>4. /\ where' \in [Ents -> {"unused", "normal", "locked", "taken"}]
      /\ \A e \in A : where'[e] \notin {"unused", "locked"}
      /\ \A e \in Ents : where'[e] = where[e] \/ (where[e] = "unused" /\ where'[e] = "taken")
  BY <1>1, <1>2 DEF Structure, TypeOK
<1> HIDE DEF A
<1> QED
  BY <1>1, <1>2, <1>3, <1>4, MarkStep

LEMMA GetEntsTimeoutStepInv ==
    ASSUME IInv, NEW t \in Threads, GetEntsTimeout(t)
    PROVE  IInv'
<1> USE DEF IInv
<1>1. /\ Retrying(t) /\ LOCK(t) /\ pc' = [pc EXCEPT ![t] = "panic"]
      /\ UNCHANGED <<hash, bnum, where, dirty, busy, lock, clone, data, bclock, op, blk>>
      /\ UNCHANGED <<need, got, tgt, holds, writer, latest, disk, logged>>
  BY DEF GetEntsTimeout, entVars, clientVars, diskVars
<1>2. /\ need[t] \in SUBSET Blocks /\ blk[t] \in need[t]
      /\ op[t] \in Writers => need[t] = {blk[t]}
  BY <1>1, GetEntsFacts DEF Needed
<1>3. PICK A \in SUBSET Ents : A = {}
  OBVIOUS
<1>4. /\ busy' = [e \in Ents |-> busy[e] \/ e \in A]
      /\ got' = [got EXCEPT ![t] = @ \cup A] /\ need' = [need EXCEPT ![t] = need[t]]
      /\ where' \in [Ents -> {"unused", "normal", "locked", "taken"}]
  BY <1>1, <1>3 DEF Structure, TypeOK
<1>5. /\ \A e \in A, u \in Threads : e \notin got[u]
      /\ \A e \in A : where'[e] \notin {"unused", "locked"}
  BY <1>3
<1> QED
  BY <1>1, <1>2, <1>4, <1>5, MarkStep

LEMMA InsertPanicStepInv ==
    ASSUME IInv, NEW t \in Threads, NEW P, InsertPanic(t, P)
    PROVE  IInv'
<1> USE DEF IInv
<1>1. /\ Retrying(t) /\ LOCK(t) /\ P \subseteq Avail
      /\ UNCHANGED <<hash, bnum, where, dirty, lock, clone, data, op, blk, need, tgt>>
      /\ UNCHANGED <<holds, writer, latest, disk, logged>>
      /\ busy' = [e \in Ents |-> busy[e] \/ e \in P]
      /\ got' = [got EXCEPT ![t] = @ \cup P]
      /\ pc' = [pc EXCEPT ![t] = "panic"] /\ bclock' = t
  BY DEF InsertPanic, Collected, clientVars, diskVars
<1>2. /\ need[t] \in SUBSET Blocks /\ blk[t] \in need[t]
      /\ op[t] \in Writers => need[t] = {blk[t]}
      /\ \A e \in Avail : /\ e \in Ents /\ where[e] = "normal"
                          /\ \A u \in Threads : e \notin got[u]
  BY <1>1, GetEntsFacts DEF Needed
<1>3. need' = [need EXCEPT ![t] = need[t]]
  BY <1>1 DEF Structure, TypeOK
<1>4. /\ P \in SUBSET Ents /\ \A e \in P, u \in Threads : e \notin got[u]
      /\ where' \in [Ents -> {"unused", "normal", "locked", "taken"}]
      /\ \A e \in P : where'[e] \notin {"unused", "locked"}
  BY <1>1, <1>2 DEF Structure, TypeOK
<1> QED
  BY <1>1, <1>2, <1>3, <1>4, MarkStep

\* The needed blocks enter the hash table; the entries leave the lists.
LEMMA StartIOStepInv ==
    ASSUME IInv, NEW t \in Threads, NEW F \in Fresh(t), NEW P, NEW X, NEW f,
           StartIO(t, F, P, X, f)
    PROVE  IInv'
<1> USE DEF IInv
<1> DEFINE all == got[t] \cup F \cup P \cup X
<1>1. /\ Missing(t) \/ Retrying(t)
      /\ LOCK(t) /\ P \subseteq Avail /\ X \subseteq Avail
      /\ f \in Assigned(t, all)
      /\ \A b \in Needed(t) : hash[b] = NoEnt
      /\ UNCHANGED <<bnum, dirty, lock, clone, data, op, blk>>
      /\ UNCHANGED <<holds, writer, latest, disk, logged>>
      /\ hash' = [b \in Blocks |-> IF b \in Needed(t) THEN f[b] ELSE hash[b]]
      /\ busy' = [e \in Ents |-> busy[e] \/ e \in all]
      /\ where' = [e \in Ents |-> IF e \in all THEN "taken" ELSE where[e]]
      /\ need' = [need EXCEPT ![t] = Needed(t)]
      /\ got' = [got EXCEPT ![t] = all]
      /\ tgt' = [tgt EXCEPT ![t] =
                   [b \in Blocks |-> IF b \in Needed(t) THEN f[b] ELSE NoEnt]]
      /\ pc' = [pc EXCEPT ![t] = "io"]
      /\ bclock' \in {NoThread, t}
  BY DEF StartIO, Collected, clientVars, diskVars
<1>0. /\ UNCHANGED <<bnum, dirty, lock, clone, data, op, blk>>
      /\ UNCHANGED <<holds, writer, latest, disk, logged>>
  BY <1>1
<1>2. /\ Needed(t) \in SUBSET Blocks /\ blk[t] \in Needed(t) /\ blk[t] \in Blocks
      /\ op[t] \in Writers => Needed(t) = {blk[t]}
      /\ op[t] \in Readers \cup Writers /\ pc[t] \in {"lookup", "getents"}
      /\ \A e \in got[t] : e \in Ents /\ where[e] \notin {"unused", "locked"}
      /\ \A e \in Avail : /\ e \in Ents /\ where[e] = "normal"
                          /\ \A u \in Threads : e \notin got[u]
      /\ \A e \in F : /\ e \in Ents /\ where[e] = "unused"
                      /\ \A u \in Threads : e \notin got[u]
  BY <1>1, GetEntsFacts
<1>3. /\ all \in SUBSET Ents /\ got[t] \subseteq all
      /\ \A e \in all : where[e] # "locked"
      /\ \A e \in all, u \in Threads \ {t} : e \notin got[u]
  BY <1>1, <1>2, GotIsBusy
<1>4. PICK N : N = Needed(t)
  OBVIOUS
<1>5. /\ f \in [N -> all]
      /\ \A b, c \in N : f[b] = f[c] => b = c
  <2>1. \A b, c \in N : b < c => f[b] # f[c]
    BY <1>1, <1>4, Zenon DEF Assigned
  <2>2. f \in [N -> all]
    BY <1>1, <1>4 DEF Assigned
  <2> QED
    BY <1>2, <1>4, <2>1, <2>2 DEF Blocks
<1> HIDE DEF all
<1>6. /\ hash' \in [Blocks -> Ents \cup {NoEnt}]
      /\ where' \in [Ents -> {"unused", "normal", "locked", "taken"}]
      /\ busy' \in [Ents -> BOOLEAN] /\ got' \in [Threads -> SUBSET Ents]
      /\ pc' \in [Threads -> Pcs] /\ need' \in [Threads -> SUBSET Blocks]
      /\ tgt' \in [Threads -> [Blocks -> Ents \cup {NoEnt}]]
      /\ bclock' \in Threads \cup {NoThread}
  <2>1. \A b \in N : f[b] \in Ents
    BY <1>3, <1>5
  <2>2. [b \in Blocks |-> IF b \in N THEN f[b] ELSE NoEnt] \in [Blocks -> Ents \cup {NoEnt}]
    BY <2>1
  <2> QED
    BY <1>1, <1>2, <1>3, <1>4, <2>1, <2>2 DEF Structure, TypeOK, Pcs
<1>7. TypeOK'
  BY <1>1, <1>6 DEF Structure, TypeOK, Pcs
<1>8. /\ \A b \in Blocks : hash'[b] = IF b \in N THEN f[b] ELSE hash[b]
      /\ \A e \in Ents : busy'[e] <=> busy[e] \/ e \in all
      /\ \A e \in Ents : where'[e] = IF e \in all THEN "taken" ELSE where[e]
      /\ need'[t] = N /\ got'[t] = all /\ pc'[t] = "io"
      /\ \A b \in N : tgt'[t][b] = f[b] /\ f[b] \in all /\ f[b] \in Ents /\ hash[b] = NoEnt
      /\ \A u \in Threads \ {t} : /\ pc'[u] = pc[u] /\ got'[u] = got[u]
                                  /\ need'[u] = need[u] /\ tgt'[u] = tgt[u]
  <2>1. \A b \in N : f[b] \in all /\ f[b] \in Ents /\ hash[b] = NoEnt
    BY <1>1, <1>3, <1>4, <1>5
  <2>2. tgt'[t] = [b \in Blocks |-> IF b \in N THEN f[b] ELSE NoEnt]
    BY <1>1, <1>4 DEF Structure, TypeOK
  <2>3. \A b \in N : tgt'[t][b] = f[b]
    BY <1>2, <1>4, <2>2
  <2>4. /\ \A b \in Blocks : hash'[b] = IF b \in N THEN f[b] ELSE hash[b]
        /\ \A e \in Ents : busy'[e] <=> busy[e] \/ e \in all
        /\ \A e \in Ents : where'[e] = IF e \in all THEN "taken" ELSE where[e]
    BY <1>1, <1>4
  <2>5. need'[t] = N /\ got'[t] = all /\ pc'[t] = "io"
    BY <1>1, <1>4 DEF Structure, TypeOK
  <2>6. \A u \in Threads \ {t} : /\ pc'[u] = pc[u] /\ got'[u] = got[u]
                                 /\ need'[u] = need[u] /\ tgt'[u] = tgt[u]
    BY <1>1 DEF Structure, TypeOK
  <2> QED
    BY <2>1, <2>3, <2>4, <2>5, <2>6
<1>9. \A c \in Blocks : Changing(c)' <=> Changing(c)
  BY <1>0, <1>2, <1>8 DEF Changing, Structure, TypeOK
<1>10. \A e : Overwritten(e)' <=> Overwritten(e)
  <2>1. \A u \in Threads : pc'[u] = "install" <=> pc[u] = "install"
    BY <1>2, <1>8
  <2>2. \A u \in Threads : pc[u] = "install" => tgt'[u] = tgt[u] /\ need'[u] = need[u]
    BY <1>2, <1>8
  <2> QED
    BY <2>1, <2>2, OverwrittenKept
<1>11. BusyHasOneOwner'
  BY <1>3, <1>8 DEF Structure, CacheSound, BusyHasOneOwner
<1>12. \A e \in Ents, b \in N : bnum[e] # b
  BY <1>2, <1>4, <1>8, Kinds, CacheAssumption DEF Structure, CacheSound, HashTellsTruth
<1>13. HashTellsTruth'
  <2>1. \A e \in Ents : bnum[e] # NoBlock => hash'[bnum[e]] = e
    BY <1>8, <1>12 DEF Structure, TypeOK, CacheSound, HashTellsTruth
  <2>2. ASSUME NEW b \in Blocks, hash'[b] # NoEnt, bnum[hash'[b]] # b
        PROVE  /\ busy'[hash'[b]]
               /\ \E u \in Threads : b \in need'[u] /\ tgt'[u][b] = hash'[b]
    <3>1. CASE b \in N
      BY <1>8, <3>1
    <3>2. CASE b \notin N
      <4>1. PICK u \in Threads : /\ pc[u] \in Filling /\ b \in need[u]
                                 /\ tgt[u][b] = hash[b] /\ hash[b] \in Ents /\ busy[hash[b]]
        BY <1>8, <2>2, <3>2, FoundEarly
      <4>2. u # t
        BY <1>2, <4>1 DEF Filling
      <4> QED
        BY <1>8, <3>2, <4>1, <4>2
    <3> QED
      BY <3>1, <3>2
  <2> QED
    BY <1>0, <2>1, <2>2 DEF HashTellsTruth
<1>14. LocksTellTruth'
  BY <1>0, <1>3, <1>8, HoldersKept DEF Structure, CacheSound, LocksTellTruth, NeedsFlush
<1>15. CallsTellTruth'
  BY <1>0, <1>2, <1>4, <1>8, Kinds DEF Structure, CallsTellTruth, Filling, Flushes
<1>16. FillsTellTruth'
  <2>1. ASSUME NEW u \in Threads \ {t}, pc[u] \in Filling
        PROVE  /\ \A b \in need[u] : b \notin N
               /\ \A e \in got[u] : e \in Ents /\ where'[e] = where[e]
    BY <1>3, <1>8, <2>1, OnItsWay, CacheAssumption DEF Structure, TypeOK
  <2>2. ASSUME NEW u \in Threads \ {t}, pc[u] \in Filling
        PROVE  \A b \in need[u] : hash'[b] = hash[b]
    BY <1>8, <2>1, <2>2 DEF Structure, TypeOK
  <2>3. \A b \in N : b \in Blocks
    BY <1>2, <1>4
  <2>4. ASSUME NEW u \in Threads, pc'[u] \in Filling
        PROVE  /\ \A b \in need'[u] : /\ tgt'[u][b] \in got'[u] /\ hash'[b] = tgt'[u][b]
                                      /\ bnum'[tgt'[u][b]] # b
               /\ \A b, c \in need'[u] : tgt'[u][b] = tgt'[u][c] => b = c
               /\ \A e \in got'[u] : where'[e] = "taken"
               /\ pc'[u] # "io" => \A e \in got'[u] : ~NeedsFlush(e)'
    <3>1. CASE u = t
      BY <1>0, <1>3, <1>5, <1>8, <1>12, <2>3, <3>1
    <3>2. CASE u # t
      BY <1>0, <1>8, <2>1, <2>2, <2>4, <3>2 DEF Structure, FillsTellTruth, NeedsFlush
    <3> QED
      BY <3>1, <3>2
  <2> QED
    BY <2>4 DEF FillsTellTruth
<1>17. EntsTellTruth'
  BY <1>0, <1>8 DEF Structure, EntsTellTruth, NeedsFlush
<1>18. ClientsTellTruth'
  <2>1. ASSUME NEW u \in Threads, NEW b \in holds[u]
        PROVE  b \in Blocks /\ hash'[b] = hash[b]
    BY <1>8, <2>1, HeldIsLocked, CacheAssumption
  <2>2. \A u \in Threads : pc'[u] = "info" => hash'[blk[u]] = hash[blk[u]] /\ u # t
    BY <1>8, <2>1 DEF Structure, ClientsTellTruth
  <2> QED
    BY <1>0, <1>8, <1>9, <2>1, <2>2 DEF Structure, ClientsTellTruth
<1>19. RemoveAlone'
  BY <1>1, <1>2, <1>8, NobodyRemoves DEF RemoveAlone
<1>20. Coherent'
  <2>1. \A b \in N : ~Overwritten(f[b])
    BY <1>2, <1>3, <1>8, OverwrittenIsGot
  <2>2. \A b \in N : /\ hash'[b] = f[b] /\ bnum'[f[b]] # b /\ ~Overwritten(f[b])'
                     /\ disk[b] = latest[b]
    BY <1>0, <1>2, <1>4, <1>8, <1>10, <1>12, <2>1 DEF Coherent
  <2> QED
    BY <1>0, <1>8, <1>9, <1>10, <2>2 DEF Coherent
<1>21. LogNotForgotten' /\ VersionsOrdered'
  <2>1. \A b \in N : hash'[b] = f[b] /\ bnum'[f[b]] # b /\ logged[b] = NoClone
    BY <1>0, <1>2, <1>4, <1>8, <1>12 DEF LogNotForgotten
  <2> QED
    BY <1>0, <1>8, <2>1 DEF LogNotForgotten, VersionsOrdered
<1> QED
  BY <1>7, <1>11, <1>13, <1>14, <1>15, <1>16, <1>17, <1>18, <1>19, <1>20, <1>21
     DEF Structure, CacheSound

-----------------------------------------------------------------------------
(***************************************************************************)
(* cache_block_io: the transfer.                                           *)
(***************************************************************************)
LEMMA ReadPhysFailsStepInv ==
    ASSUME IInv, NEW t \in Threads, ReadPhysFails(t)
    PROVE  IInv'
<1> USE DEF IInv
<1>1. /\ UNCHANGED <<hash, bnum, where, dirty, busy, lock, clone, data, bclock, op, blk>>
      /\ UNCHANGED <<need, got, tgt, holds, writer, latest, disk, logged>>
      /\ pc[t] = "io" /\ op[t] \in Readers /\ Flushed(t)
      /\ pc' = [pc EXCEPT ![t] = "failed"]
  BY DEF ReadPhysFails, entVars, clientVars, diskVars
<1>2. TypeOK'
  BY <1>1 DEF Structure, TypeOK
<1>3. pc'[t] = "failed" /\ \A u \in Threads \ {t} : pc'[u] = pc[u]
  BY <1>1 DEF Structure, TypeOK
<1>4. \A c \in Blocks : Changing(c)' <=> Changing(c)
  BY <1>1, <1>3 DEF Changing, Structure, TypeOK
<1>5. \A e : Overwritten(e)' <=> Overwritten(e)
  <2>1. \A u \in Threads : pc'[u] = "install" <=> pc[u] = "install"
    BY <1>1, <1>3
  <2> QED
    BY <1>1, <2>1, OverwrittenKept
<1>6. BusyHasOneOwner' /\ HashTellsTruth'
  BY <1>1 DEF Structure, CacheSound, BusyHasOneOwner, HashTellsTruth
<1>7. LocksTellTruth'
  BY <1>1, HoldersKept DEF Structure, CacheSound, LocksTellTruth, NeedsFlush
<1>8. CallsTellTruth'
  BY <1>1, <1>3 DEF Structure, CallsTellTruth, Filling, Flushes
<1>9. FillsTellTruth'
  <2>1. \A e \in got[t] : where[e] = "taken"
    BY <1>1 DEF Structure, FillsTellTruth, Filling
  <2>2. \A e \in got[t] : ~NeedsFlush(e)
    BY <1>1, <2>1, NotLocked DEF Flushed, NeedsFlush, Structure, TypeOK
  <2> QED
    BY <1>1, <1>3, <2>2 DEF Structure, FillsTellTruth, Filling, NeedsFlush
<1>10. EntsTellTruth'
  BY <1>1, <1>3 DEF Structure, EntsTellTruth, NeedsFlush
<1>11. ClientsTellTruth'
  BY <1>1, <1>3, <1>4 DEF Structure, ClientsTellTruth
<1>12. RemoveAlone'
  BY <1>1, <1>3 DEF Structure, RemoveAlone
<1>13. Coherent' /\ LogNotForgotten' /\ VersionsOrdered'
  BY <1>1, <1>4, <1>5, DataKept
<1> QED
  BY <1>2, <1>6, <1>7, <1>8, <1>9, <1>10, <1>11, <1>12, <1>13 DEF Structure, CacheSound

\* read_into_ents puts every block into its own entry.
LEMMA ReadPhysStepInv ==
    ASSUME IInv, NEW t \in Threads, ReadPhys(t)
    PROVE  IInv'
<1> USE DEF IInv
<1>1. /\ UNCHANGED <<hash, bnum, where, dirty, busy, lock, clone, bclock, op, blk>>
      /\ UNCHANGED <<need, got, tgt, holds, writer, latest, disk, logged>>
      /\ pc[t] = "io" /\ op[t] \in Readers /\ Flushed(t)
      /\ data' = [e \in Ents |-> IF \E b \in need[t] : tgt[t][b] = e
                                 THEN disk[CHOOSE b \in need[t] : tgt[t][b] = e]
                                 ELSE data[e]]
      /\ pc' = [pc EXCEPT ![t] = "install"]
  BY DEF ReadPhys, clientVars, diskVars
<1>2. /\ \A b \in need[t] : /\ b \in Blocks /\ tgt[t][b] \in got[t] /\ tgt[t][b] \in Ents
                            /\ tgt[t][b] \in Targets(t)
      /\ \A b, c \in need[t] : tgt[t][b] = tgt[t][c] => b = c
      /\ \A e \in Targets(t) : \E b \in need[t] : tgt[t][b] = e
  BY <1>1, OnItsWay DEF Targets, Structure, FillsTellTruth, Filling
<1>3. /\ \A b \in need[t] : data'[tgt[t][b]] = disk[b]
      /\ \A e \in Ents \ Targets(t) : data'[e] = data[e]
  <2>1. ASSUME NEW b \in need[t]
        PROVE  data'[tgt[t][b]] = disk[b]
    <3>1. (CHOOSE c \in need[t] : tgt[t][c] = tgt[t][b]) = b
      BY <1>2
    <3> QED
      BY <1>1, <1>2, <3>1
  <2>2. ASSUME NEW e \in Ents \ Targets(t)
        PROVE  data'[e] = data[e]
    <3>1. ~\E b \in need[t] : tgt[t][b] = e
      BY <1>2
    <3> QED
      BY <1>1, <3>1
  <2> QED
    BY <2>1, <2>2
<1>4. TypeOK'
  <2>1. ASSUME NEW e \in Ents
        PROVE  data'[e] \in Int
    BY <1>2, <1>3 DEF Structure, TypeOK
  <2>2. data' \in [Ents -> Int]
    <3>1. data' = [e \in Ents |-> data'[e]]
      BY <1>1, Zenon
    <3> QED
      BY <2>1, <3>1, Zenon
  <2>3. pc' \in [Threads -> Pcs]
    BY <1>1 DEF Structure, TypeOK, Pcs
  <2> QED
    BY <1>1, <2>2, <2>3 DEF Structure, TypeOK, Pcs
<1>5. pc'[t] = "install" /\ \A u \in Threads \ {t} : pc'[u] = pc[u]
  BY <1>1 DEF Structure, TypeOK
<1>6. /\ UNCHANGED <<hash, bnum, where, dirty, busy, lock, clone, bclock, op, blk>>
      /\ UNCHANGED <<need, got, tgt, holds, writer, latest, disk, logged>>
  BY <1>1
<1>7. \A c \in Blocks : Changing(c)' <=> Changing(c)
  BY <1>1, <1>5, <1>6 DEF Changing, Structure, TypeOK
<1>8. \A e : Overwritten(e)' <=> Overwritten(e) \/ e \in Targets(t)
  <2>1. \A u \in Threads : \A e : (e \in Targets(u))' <=> e \in Targets(u)
    BY <1>6 DEF Targets
  <2>2. \A e : Overwritten(e)' <=> \E u \in Threads : pc'[u] = "install" /\ (e \in Targets(u))'
    BY DEF Overwritten
  <2> QED
    BY <1>1, <1>5, <2>1, <2>2 DEF Overwritten
<1>9. BusyHasOneOwner' /\ HashTellsTruth'
  BY <1>6 DEF Structure, CacheSound, BusyHasOneOwner, HashTellsTruth
<1>10. LocksTellTruth'
  BY <1>6, HoldersKept DEF Structure, CacheSound, LocksTellTruth, NeedsFlush
<1>11. CallsTellTruth'
  BY <1>1, <1>5, <1>6 DEF Structure, CallsTellTruth, Filling, Flushes
<1>12. FillsTellTruth'
  <2>1. \A e \in got[t] : where[e] = "taken"
    BY <1>1 DEF Structure, FillsTellTruth, Filling
  <2>2. \A e \in got[t] : ~NeedsFlush(e)
    BY <1>1, <2>1, NotLocked DEF Flushed, NeedsFlush, Structure, TypeOK
  <2> QED
    BY <1>1, <1>5, <1>6, <2>2 DEF Structure, FillsTellTruth, Filling, NeedsFlush
<1>13. EntsTellTruth'
  BY <1>5, <1>6 DEF Structure, EntsTellTruth, NeedsFlush
<1>14. ClientsTellTruth'
  BY <1>5, <1>6, <1>7 DEF Structure, ClientsTellTruth
<1>15. RemoveAlone'
  BY <1>1, <1>5, <1>6 DEF Structure, RemoveAlone
<1>16. Coherent'
  <2>1. ASSUME NEW b \in Blocks, hash[b] # NoEnt, bnum[hash[b]] # b, hash[b] \in Targets(t)
        PROVE  data'[hash[b]] = latest[b]
    <3>1. PICK u \in Threads : /\ pc[u] \in Filling /\ b \in need[u]
                               /\ tgt[u][b] = hash[b] /\ hash[b] \in got[u]
      BY <2>1, FoundEarly
    <3>2. u = t
      BY <1>2, <2>1, <3>1, GotIsBusy
    <3> QED
      BY <1>3, <2>1, <3>1, <3>2 DEF Coherent
  <2>2. \A b \in Blocks : hash[b] # NoEnt => hash[b] \in Ents
    BY DEF Structure, TypeOK
  <2> QED
    BY <1>3, <1>6, <1>7, <1>8, <2>1, <2>2 DEF Coherent
<1>17. LogNotForgotten' /\ VersionsOrdered'
  BY <1>6 DEF LogNotForgotten, VersionsOrdered
<1> QED
  BY <1>4, <1>9, <1>10, <1>11, <1>12, <1>13, <1>14, <1>15, <1>16, <1>17
     DEF Structure, CacheSound

\* What is known when cache_block_io has the lock again: everything is
\* flushed, and nobody else is after the old or the new blocks.
ReadyToInstall(t) ==
    /\ \A e \in got[t] : /\ e \in Ents /\ lock[e] = 0 /\ ~NeedsFlush(e)
                         /\ \A u \in Threads \ {t} : e \notin got[u]
    /\ Targets(t) \subseteq got[t]
    /\ \A b \in need[t] :
          /\ b \in Blocks /\ tgt[t][b] \in Targets(t) /\ hash[b] = tgt[t][b]
          /\ b \notin OldNumbers(t) /\ disk[b] = latest[b] /\ logged[b] = NoClone
          /\ \A u \in Threads : b \notin holds[u]
          /\ \A u \in Threads \ {t} : pc[u] \in Filling => b \notin need[u]
    /\ \A b \in Blocks : b \in OldNumbers(t) =>
          /\ hash[b] \in Targets(t) /\ disk[b] = latest[b] /\ logged[b] = NoClone
          /\ \A u \in Threads : b \notin holds[u]
          /\ \A u \in Threads \ {t} : pc[u] \in Filling => b \notin need[u]
    /\ \A b \in Blocks : hash[b] \in Targets(t) => b \in OldNumbers(t) \cup need[t]
    /\ \A e \in Ents \ Targets(t) : bnum[e] # NoBlock => bnum[e] \notin OldNumbers(t)

LEMMA FillReady ==
    ASSUME IInv, NEW t \in Threads, pc[t] \in Filling, pc[t] = "io" => Flushed(t)
    PROVE  ReadyToInstall(t)
<1> USE DEF IInv
<1>1. \A e \in got[t] : /\ e \in Ents /\ lock[e] = 0 /\ ~NeedsFlush(e)
                        /\ where[e] = "taken"
                        /\ \A u \in Threads \ {t} : e \notin got[u]
  <2>1. ASSUME NEW e \in got[t]
        PROVE  /\ e \in Ents /\ lock[e] = 0 /\ where[e] = "taken"
               /\ \A u \in Threads \ {t} : e \notin got[u]
    BY GotIsBusy, NotLocked DEF Structure, FillsTellTruth
  <2>2. \A e \in got[t] : ~NeedsFlush(e)
    BY <2>1 DEF Structure, FillsTellTruth, Flushed, NeedsFlush
  <2> QED
    BY <2>1, <2>2
<1>2. \A b \in need[t] : /\ b \in Blocks /\ tgt[t][b] \in got[t] /\ tgt[t][b] \in Targets(t)
                         /\ hash[b] = tgt[t][b] /\ bnum[tgt[t][b]] # b
  BY OnItsWay DEF Targets
<1>3. Targets(t) \subseteq got[t]
  BY <1>2 DEF Targets
<1>4. \A b \in OldNumbers(t) : \E e \in Targets(t) : bnum[e] = b
  BY DEF OldNumbers
<1>5. \A e \in Targets(t) : bnum[e] \in OldNumbers(t)
  BY DEF OldNumbers
<1>6. ASSUME NEW b \in need[t]
      PROVE  /\ b \notin OldNumbers(t) /\ disk[b] = latest[b] /\ logged[b] = NoClone
             /\ \A u \in Threads : b \notin holds[u]
             /\ \A u \in Threads \ {t} : pc[u] \in Filling => b \notin need[u]
  <2>1. \A u \in Threads : b \notin holds[u] /\ (pc[u] \in Filling /\ b \in need[u] => u = t)
    BY NeededOnce
  <2>2. \A e \in Ents : bnum[e] # b
    BY NeededOnce
  <2>3. b \notin OldNumbers(t)
    BY <1>1, <1>3, <1>4, <2>2
  <2>4. disk[b] = latest[b] /\ logged[b] = NoClone
    BY <1>2 DEF Coherent, LogNotForgotten
  <2> QED
    BY <2>1, <2>3, <2>4
<1>7. ASSUME NEW b \in Blocks, b \in OldNumbers(t)
      PROVE  /\ hash[b] \in Targets(t) /\ disk[b] = latest[b] /\ logged[b] = NoClone
             /\ \A u \in Threads : b \notin holds[u]
             /\ \A u \in Threads \ {t} : pc[u] \in Filling => b \notin need[u]
  <2>1. PICK e \in Targets(t) : bnum[e] = b
    BY <1>4, <1>7
  <2>2. e \in Ents /\ hash[b] = e /\ where[e] = "taken" /\ e # NoEnt /\ ~NeedsFlush(e)
    BY <1>1, <1>3, <2>1, Kinds, CacheAssumption DEF Structure, CacheSound, HashTellsTruth
  <2>3. ~Changing(b)
    BY <2>2, ChangingIsHeld
  <2>4. disk[b] = latest[b] /\ logged[b] = NoClone
    BY <2>1, <2>2, <2>3 DEF Coherent, LogNotForgotten, NeedsFlush
  <2>5. \A u \in Threads : b \notin holds[u]
    BY <2>1, <2>2, NotLocked
  <2>6. \A u \in Threads : pc[u] \in Filling => b \notin need[u]
    BY <2>1, <2>2, NeededOnce
  <2> QED
    BY <2>1, <2>2, <2>4, <2>5, <2>6
<1>8. ASSUME NEW b \in Blocks, hash[b] \in Targets(t)
      PROVE  b \in OldNumbers(t) \cup need[t]
  <2>1. CASE bnum[hash[b]] = b
    BY <1>5, <1>8, <2>1
  <2>2. CASE bnum[hash[b]] # b
    <3>1. hash[b] \in got[t] /\ hash[b] # NoEnt
      BY <1>1, <1>3, <1>8, CacheAssumption
    <3>2. PICK u \in Threads : b \in need[u] /\ hash[b] \in got[u]
      BY <2>2, <3>1, FoundEarly
    <3> QED
      BY <1>1, <3>1, <3>2
  <2> QED
    BY <2>1, <2>2
<1>9. ASSUME NEW e \in Ents \ Targets(t), bnum[e] # NoBlock
      PROVE  bnum[e] \notin OldNumbers(t)
  BY <1>1, <1>3, <1>4, <1>9 DEF Structure, CacheSound, HashTellsTruth
<1> QED
  BY <1>1, <1>2, <1>3, <1>6, <1>7, <1>8, <1>9 DEF ReadyToInstall

\* The call of t is over, and nobody else's changes.
CallOver(t) ==
    /\ pc'[t] = "idle" /\ op'[t] = "none" /\ need'[t] = {} /\ got'[t] = {}
    /\ tgt'[t] = NoTarget
    /\ \A u \in Threads \ {t} :
          /\ pc'[u] = pc[u] /\ op'[u] = op[u] /\ blk'[u] = blk[u]
          /\ need'[u] = need[u] /\ got'[u] = got[u] /\ tgt'[u] = tgt[u]

CallsTyped ==
    /\ pc \in [Threads -> Pcs] /\ op \in [Threads -> Readers \cup Writers \cup {"none"}]
    /\ blk \in [Threads -> Blocks \cup {NoBlock}]
    /\ need \in [Threads -> SUBSET Blocks] /\ got \in [Threads -> SUBSET Ents]
    /\ tgt \in [Threads -> [Blocks -> Ents \cup {NoEnt}]]

LEMMA EndCallFacts ==
    ASSUME TypeOK, NEW t \in Threads, EndCall(t)
    PROVE  CallOver(t) /\ CallsTyped'
<1>1. CallOver(t)
  BY DEF EndCall, CallOver, TypeOK
<1>2. CallsTyped'
  BY DEF EndCall, TypeOK, Pcs, NoTarget, CallsTyped
<1> QED
  BY <1>1, <1>2

\* What the caller of cache_block_io gets: the lock on b, or new contents.
ClientServed(t, b) ==
    /\ holds' \in [Threads -> SUBSET Blocks] /\ latest' \in [Blocks -> Nat]
    /\ writer' \in [Blocks -> Threads \cup {NoThread}]
    /\ \A u \in Threads : holds'[u] = IF u = t /\ op[t] \in Lockers
                                      THEN holds[u] \cup {b} ELSE holds[u]
    /\ \A c \in Blocks : latest'[c] = IF c = b /\ op[t] \in Writers
                                      THEN latest[c] + 1 ELSE latest[c]

OneLockMore(t, b) ==
    /\ \A c : c # b => Holders(c)' = Holders(c)
    /\ Cardinality(Holders(b)) \in Nat
    /\ Cardinality({u \in Threads : b \in holds'[u]})
         = IF op[t] \in Lockers THEN Cardinality(Holders(b)) + 1 ELSE Cardinality(Holders(b))

LEMMA SucceedFacts ==
    ASSUME IInv, NEW t \in Threads, pc[t] \in Filling \cup {"lookup"}, Succeed(t)
    PROVE  /\ CallOver(t) /\ CallsTyped' /\ ClientServed(t, blk[t]) /\ OneLockMore(t, blk[t])
           /\ \A c \in Blocks : Changing(c)' <=> Changing(c)
           /\ \A c \in Blocks : Changing(c)' => c \in holds'[writer'[c]]
           /\ \A u \in Threads : op'[u] \in Writers =>
                 blk'[u] \in Blocks /\ writer'[blk'[u]] = u
           /\ \A u \in Threads : op'[u] \in Lockers => blk'[u] \notin holds'[u]
           /\ \A u \in Threads : pc'[u] = "info" =>
                 /\ u # t /\ blk[u] \in holds[u]
                 /\ blk'[u] \in holds'[u] /\ writer'[blk'[u]] = u
<1> USE DEF IInv
<1>1. PICK b : b = blk[t]
  OBVIOUS
<1>2. /\ EndCall(t)
      /\ holds' = [holds EXCEPT ![t] = IF op[t] \in Lockers THEN @ \cup {b} ELSE @]
      /\ writer' = [writer EXCEPT ![b] = IF op[t] \in Writers THEN NoThread ELSE @]
      /\ latest' = [latest EXCEPT ![b] = IF op[t] \in Writers THEN @ + 1 ELSE @]
  BY <1>1 DEF Succeed
<1>3. b \in Blocks /\ op[t] \in Readers \cup Writers
  BY <1>1 DEF Structure, CallsTellTruth
<1>4. CallOver(t) /\ CallsTyped'
  BY <1>2, EndCallFacts DEF Structure
<1>5. /\ holds' \in [Threads -> SUBSET Blocks]
      /\ writer' \in [Blocks -> Threads \cup {NoThread}]
  BY <1>2, <1>3 DEF Structure, TypeOK
<1>6. latest' \in [Blocks -> Nat]
  BY <1>2, <1>3 DEF Structure, TypeOK
<1>7. /\ \A u \in Threads : holds'[u] = IF u = t /\ op[t] \in Lockers
                                        THEN holds[u] \cup {b} ELSE holds[u]
      /\ \A c \in Blocks : latest'[c] = IF c = b /\ op[t] \in Writers
                                        THEN latest[c] + 1 ELSE latest[c]
      /\ \A c \in Blocks : writer'[c] = IF c = b /\ op[t] \in Writers
                                        THEN NoThread ELSE writer[c]
  BY <1>2, <1>3 DEF Structure, TypeOK
<1>8. \A c \in Blocks : Changing(c)' <=> Changing(c)
  <2>1. ASSUME NEW c \in Blocks, writer[c] = t
        PROVE  Changing(c)' <=> Changing(c)
    <3>1. CASE c = b /\ op[t] \in Writers
      BY <1>1, <1>7, <2>1, <3>1 DEF Changing
    <3>2. CASE ~(c = b /\ op[t] \in Writers)
      <4>1. writer'[c] = t /\ op'[t] = "none" /\ pc'[t] = "idle" /\ pc[t] # "info"
        BY <1>4, <1>7, <2>1, <3>2 DEF CallOver, Filling
      <4> QED
        BY <1>1, <2>1, <3>2, <4>1, Kinds DEF Changing
    <3> QED
      BY <3>1, <3>2
  <2>2. ASSUME NEW c \in Blocks, writer[c] # t
        PROVE  Changing(c)' <=> Changing(c)
    <3>1. writer'[c] = writer[c]
      BY <1>1, <1>7, <2>2 DEF Structure, ClientsTellTruth
    <3>2. CASE writer[c] = NoThread
      BY <3>1, <3>2 DEF Changing
    <3>3. CASE writer[c] # NoThread
      <4>1. writer[c] \in Threads \ {t}
        BY <2>2, <3>3 DEF Structure, TypeOK
      <4> QED
        BY <1>4, <3>1, <4>1 DEF Changing, CallOver
    <3> QED
      BY <3>2, <3>3
  <2> QED
    BY <2>1, <2>2
<1>9. /\ \A c : c # b => Holders(c)' = Holders(c)
      /\ Cardinality(Holders(b)) \in Nat
      /\ Cardinality({u \in Threads : b \in holds'[u]})
           = IF op[t] \in Lockers THEN Cardinality(Holders(b)) + 1
             ELSE Cardinality(Holders(b))
  <2>1. Cardinality(Holders(b)) \in Nat /\ Holders(b)' = {u \in Threads : b \in holds'[u]}
    BY HoldersFinite DEF Holders
  <2>2. CASE op[t] \in Lockers
    <3>1. b \notin holds[t]
      BY <1>1, <2>2 DEF Structure, ClientsTellTruth
    <3>2. holds' = [holds EXCEPT ![t] = @ \cup {b}]
      BY <1>2, <2>2
    <3> QED
      BY <1>3, <2>1, <2>2, <3>1, <3>2, HoldersAdd DEF Structure
  <2>3. CASE op[t] \notin Lockers
    <3>1. holds' = holds
      BY <1>2, <2>3 DEF Structure, TypeOK
    <3> QED
      BY <2>1, <2>3, <3>1, HoldersKept
  <2> QED
    BY <2>2, <2>3
<1>10. ASSUME NEW u \in Threads, op'[u] \in Writers
       PROVE  blk'[u] \in Blocks /\ writer'[blk'[u]] = u
  <2>1. u # t /\ blk'[u] = blk[u] /\ op'[u] = op[u]
    BY <1>4, <1>10, Kinds DEF CallOver
  <2>2. blk[u] \in Blocks /\ writer[blk[u]] = u
    BY <1>10, <2>1 DEF Structure, ClientsTellTruth
  <2>3. ~(blk[u] = b /\ op[t] \in Writers)
    BY <1>1, <2>1, <2>2 DEF Structure, ClientsTellTruth
  <2> QED
    BY <1>7, <2>1, <2>2, <2>3
<1>11. ASSUME NEW u \in Threads, pc'[u] = "info"
       PROVE  /\ u # t /\ blk[u] \in holds[u]
              /\ blk'[u] \in holds'[u] /\ writer'[blk'[u]] = u
  <2>1. u # t /\ pc[u] = "info" /\ blk'[u] = blk[u]
    BY <1>4, <1>11 DEF CallOver
  <2>2. blk[u] \in Blocks /\ writer[blk[u]] = u /\ blk[u] \in holds[u]
    BY <2>1 DEF Structure, ClientsTellTruth, TypeOK
  <2>3. ~(blk[u] = b /\ op[t] \in Writers)
    BY <1>1, <2>1, <2>2 DEF Structure, ClientsTellTruth
  <2> QED
    BY <1>7, <2>1, <2>2, <2>3
<1>12. ASSUME NEW c \in Blocks, Changing(c)'
       PROVE  c \in holds'[writer'[c]]
  <2>1. Changing(c)
    BY <1>8, <1>12
  <2>2. writer'[c] = writer[c]
    BY <1>7, <1>12 DEF Changing
  <2>3. writer[c] \in Threads /\ c \in holds[writer[c]]
    BY <2>1, ChangingIsHeld
  <2>4. \A u \in Threads : holds[u] \subseteq holds'[u]
    BY <1>7
  <2> QED
    BY <2>2, <2>3, <2>4
<1>13. ASSUME NEW u \in Threads, op'[u] \in Lockers
       PROVE  blk'[u] \notin holds'[u]
  <2>1. u # t /\ op[u] \in Lockers /\ blk'[u] = blk[u]
    BY <1>4, <1>13, Kinds DEF CallOver
  <2>2. holds'[u] = holds[u]
    BY <1>7, <2>1
  <2> QED
    BY <2>1, <2>2 DEF Structure, ClientsTellTruth
<1>14. ClientServed(t, b) /\ OneLockMore(t, b)
  BY <1>5, <1>6, <1>7, <1>9 DEF ClientServed, OneLockMore
<1> QED
  BY <1>1, <1>4, <1>8, <1>10, <1>11, <1>12, <1>13, <1>14

-----------------------------------------------------------------------------
LEMMA HitStepInv ==
    ASSUME IInv, NEW t \in Threads, Hit(t)
    PROVE  IInv'
<1> USE DEF IInv
<1>1. PICK b : b = blk[t]
  OBVIOUS
<1>2. PICK e : e = hash[b]
  OBVIOUS
<1>3. /\ UNCHANGED <<hash, bnum, busy, clone, bclock, disk, logged>>
      /\ pc[t] = "lookup" /\ LOCK(t) /\ e # NoEnt /\ ~busy[e] /\ Succeed(t)
      /\ lock' = [lock EXCEPT ![e] = IF op[t] \in Lockers THEN @ + 1 ELSE @]
      /\ where' = [where EXCEPT ![e] = IF lock'[e] > 0 THEN "locked" ELSE "normal"]
      /\ dirty' = [dirty EXCEPT ![e] = @ \/ op[t] \in Writers]
      /\ data' = [data EXCEPT ![e] = IF op[t] \in Writers THEN latest[b] + 1 ELSE @]
  BY <1>1, <1>2 DEF Hit, diskVars
<1>4. b \in Blocks /\ op[t] \in Readers \cup Writers /\ got[t] = {}
  BY <1>1, <1>3 DEF Structure, CallsTellTruth
<1>5. /\ e \in Ents /\ bnum[e] = b /\ bnum[e] # NoBlock
      /\ \A u \in Threads : e \notin got[u]
      /\ \A x \in Ents : bnum[x] = b => x = e
  BY <1>2, <1>3, <1>4, FoundIdle, GotIsBusy, Kinds
     DEF Structure, CacheSound, HashTellsTruth
<1>6. /\ CallOver(t) /\ CallsTyped'
      /\ ClientServed(t, b) /\ OneLockMore(t, b)
      /\ \A c \in Blocks : Changing(c)' <=> Changing(c)
  BY <1>1, <1>3, SucceedFacts
<1>7. /\ Cardinality(Holders(b)) \in Nat
      /\ Cardinality(Holders(b)') = IF op[t] \in Lockers THEN Cardinality(Holders(b)) + 1
                                    ELSE Cardinality(Holders(b))
  BY <1>6 DEF Holders, OneLockMore
<1>8. /\ \A x \in Ents : x # e => /\ lock'[x] = lock[x] /\ where'[x] = where[x]
                                  /\ dirty'[x] = dirty[x] /\ data'[x] = data[x]
      /\ lock'[e] = IF op[t] \in Lockers THEN lock[e] + 1 ELSE lock[e]
      /\ where'[e] = IF lock'[e] > 0 THEN "locked" ELSE "normal"
      /\ dirty'[e] <=> dirty[e] \/ op[t] \in Writers
      /\ data'[e] = IF op[t] \in Writers THEN latest[b] + 1 ELSE data[e]
  BY <1>3, <1>5 DEF Structure, TypeOK
<1>9. TypeOK'
  <2>1. lock' \in [Ents -> Nat] /\ data' \in [Ents -> Int]
    BY <1>3, <1>4, <1>5 DEF Structure, TypeOK
  <2>2. /\ where' \in [Ents -> {"unused", "normal", "locked", "taken"}]
        /\ dirty' \in [Ents -> BOOLEAN]
    BY <1>3, <1>5 DEF Structure, TypeOK
  <2> QED
    BY <1>3, <1>6, <2>1, <2>2 DEF Structure, TypeOK, CallsTyped, ClientServed, Pcs
<1>10. \A x : Overwritten(x)' <=> Overwritten(x)
  <2>1. \A u \in Threads : pc'[u] = "install" <=> pc[u] = "install"
    BY <1>3, <1>6 DEF CallOver
  <2>2. \A u \in Threads : pc[u] = "install" => tgt'[u] = tgt[u] /\ need'[u] = need[u]
    BY <1>3, <1>6 DEF CallOver
  <2> QED
    BY <2>1, <2>2, OverwrittenKept
<1>11. UNCHANGED <<hash, bnum, busy, clone, bclock, disk, logged>>
  BY <1>3
<1>12. BusyHasOneOwner'
  BY <1>4, <1>6, <1>11 DEF Structure, CacheSound, BusyHasOneOwner, CallOver
<1>13. HashTellsTruth'
  <2>1. \A u \in Threads : pc[u] \in Filling =>
            need'[u] = need[u] /\ tgt'[u] = tgt[u] /\ got'[u] = got[u]
    BY <1>3, <1>6 DEF Filling, CallOver
  <2> QED
    BY <1>11, <1>12, <2>1, HashKept
<1>14. LocksTellTruth'
  <2>1. lock[e] = Cardinality(Holders(b))
    BY <1>5 DEF Structure, CacheSound, LocksTellTruth
  <2>2. lock'[e] = Cardinality(Holders(bnum[e])') /\ (where'[e] = "locked" <=> lock'[e] > 0)
    BY <1>5, <1>7, <1>8, <1>11, <2>1
  <2>3. \A x \in Ents \ {e} : Holders(bnum[x])' = Holders(bnum[x])
    BY <1>5, <1>6, <1>11 DEF OneLockMore
  <2> QED
    BY <1>5, <1>8, <1>11, <2>2, <2>3 DEF Structure, CacheSound, LocksTellTruth, NeedsFlush
<1>15. CallsTellTruth'
  BY <1>6 DEF Structure, CallsTellTruth, Filling, Flushes, CallOver
<1>16. FillsTellTruth'
  <2>1. \A u \in Threads : pc'[u] \in Filling => u # t
    BY <1>6 DEF CallOver, Filling
  <2>2. ASSUME NEW u \in Threads, NEW x \in got[u]
        PROVE  where'[x] = where[x] /\ (NeedsFlush(x)' <=> NeedsFlush(x))
    BY <1>5, <1>8, <1>11, <2>2 DEF NeedsFlush, Structure, TypeOK
  <2> QED
    BY <1>6, <1>11, <2>1, <2>2 DEF Structure, FillsTellTruth, CallOver
<1>17. EntsTellTruth'
  BY <1>5, <1>6, <1>8, <1>11 DEF Structure, EntsTellTruth, NeedsFlush, CallOver
<1>18. ClientsTellTruth'
  <2>1. /\ \A u \in Threads : op'[u] \in Writers => blk'[u] \in Blocks /\ writer'[blk'[u]] = u
        /\ \A u \in Threads : op'[u] \in Lockers => blk'[u] \notin holds'[u]
        /\ \A c \in Blocks : Changing(c)' => c \in holds'[writer'[c]]
    BY <1>3, SucceedFacts
  <2>2. \A u \in Threads : pc'[u] = "info" => /\ u # t /\ blk'[u] \in holds'[u]
                                              /\ writer'[blk'[u]] = u
    BY <1>3, SucceedFacts
  <2>3. \A u \in Threads : pc'[u] = "info" => got'[u] = {hash'[blk'[u]]}
    BY <1>6, <1>11, <2>2 DEF Structure, ClientsTellTruth, CallOver
  <2>4. \A u \in Threads : holds'[u] \subseteq holds[u] \cup {b}
    BY <1>6 DEF ClientServed
  <2>5. \A u \in Threads : \A c \in holds'[u] : hash'[c] # NoEnt /\ bnum'[hash'[c]] = c
    BY <1>2, <1>3, <1>5, <1>11, <2>4 DEF Structure, ClientsTellTruth
  <2> QED
    BY <2>1, <2>2, <2>3, <2>5 DEF ClientsTellTruth
<1>19. RemoveAlone'
  BY <1>3, <1>6, NobodyRemoves DEF RemoveAlone, CallOver
<1>20. Coherent'
  <2>1. ASSUME NEW c \in Blocks, c # b, hash[c] # NoEnt
        PROVE  /\ latest'[c] = latest[c]
               /\ bnum[hash[c]] = c => data'[hash[c]] = data[hash[c]] /\ dirty'[hash[c]] = dirty[hash[c]]
               /\ Overwritten(hash[c]) => data'[hash[c]] = data[hash[c]]
    BY <1>5, <1>6, <1>8, <2>1, OverwrittenIsGot DEF Structure, TypeOK, ClientServed
  <2>2. ASSUME NEW c \in Blocks, c # b, hash[c] = NoEnt
        PROVE  latest'[c] = latest[c]
    BY <1>6, <2>2 DEF ClientServed
  <2>3. op[t] \in Writers => data'[e] = latest'[b] /\ dirty'[e]
    BY <1>4, <1>6, <1>8 DEF ClientServed
  <2>4. op[t] \notin Writers => latest'[b] = latest[b] /\ data'[e] = data[e] /\ (dirty'[e] <=> dirty[e])
    BY <1>4, <1>6, <1>8 DEF ClientServed
  <2> QED
    BY <1>2, <1>3, <1>5, <1>6, <1>10, <1>11, <2>1, <2>2, <2>3, <2>4 DEF Coherent
<1>21. LogNotForgotten'
  BY <1>11 DEF LogNotForgotten
<1>22. VersionsOrdered'
  <2>1. \A c \in Blocks : disk[c] \in Int /\ latest[c] \in Int
    BY DEF Structure, TypeOK
  <2>2. \A c \in Blocks : latest'[c] \in Int /\ latest'[c] >= latest[c]
    BY <1>6, <2>1 DEF ClientServed
  <2>3. \A c \in Blocks : hash[c] # NoEnt => clone[hash[c]] \in Int
    BY DEF Structure, TypeOK
  <2> QED
    BY <1>11, <2>1, <2>2, <2>3 DEF VersionsOrdered
<1> QED
  BY <1>9, <1>12, <1>13, <1>14, <1>15, <1>16, <1>17, <1>18, <1>19, <1>20, <1>21, <1>22
     DEF Structure, CacheSound

\* The entries of one call leave it; those of the others stay as they are.
LEMMA LeaveOwners ==
    ASSUME Structure, NEW t \in Threads, CallOver(t),
           busy' = [e \in Ents |-> busy[e] /\ e \notin got[t]]
    PROVE  BusyHasOneOwner'
<1>1. \A e \in Ents : busy'[e] <=> busy[e] /\ e \notin got[t]
  OBVIOUS
<1>2. \A u \in Threads : got'[u] = IF u = t THEN {} ELSE got[u]
  BY DEF CallOver
<1>3. \A e \in Ents : busy'[e] <=> \E u \in Threads : e \in got'[u]
  BY <1>1, <1>2 DEF Structure, CacheSound, BusyHasOneOwner
<1> QED
  BY <1>2, <1>3 DEF Structure, CacheSound, BusyHasOneOwner

\* An entry that two threads do not share is overwritten by none of the others.
LEMMA LeaveOverwritten ==
    ASSUME Structure, NEW t \in Threads, pc[t] \in Filling, CallOver(t),
           Targets(t) \subseteq got[t]
    PROVE  \A e : Overwritten(e)' <=> Overwritten(e) /\ e \notin Targets(t)
<1>1. ASSUME NEW e
      PROVE  Overwritten(e)' <=> \E u \in Threads \ {t} : pc[u] = "install" /\ e \in Targets(u)
  <2>1. \A u \in Threads \ {t} : (e \in Targets(u))' <=> e \in Targets(u)
    <3>1. ASSUME NEW u \in Threads \ {t}
          PROVE  (e \in Targets(u))' <=> e \in Targets(u)
      <4>1. (e \in Targets(u))' <=> \E b \in need'[u] : e = tgt'[u][b]
        BY DEF Targets
      <4>2. e \in Targets(u) <=> \E b \in need[u] : e = tgt[u][b]
        BY DEF Targets
      <4>3. need'[u] = need[u] /\ tgt'[u] = tgt[u]
        BY DEF CallOver
      <4> QED
        BY <4>1, <4>2, <4>3
    <3> QED
      BY <3>1
  <2>2. Overwritten(e)' <=> \E u \in Threads : pc'[u] = "install" /\ (e \in Targets(u))'
    BY DEF Overwritten
  <2> QED
    BY <2>1, <2>2 DEF CallOver
<1>2. ASSUME NEW e, NEW u \in Threads \ {t}, pc[u] = "install", e \in Targets(u)
      PROVE  e \notin Targets(t)
  <2>1. PICK b \in need[u] : e = tgt[u][b]
    BY <1>2 DEF Targets
  <2>2. e \in got[u]
    BY <1>2, <2>1, OnItsWay DEF Filling
  <2> QED
    BY <2>2, GotIsBusy
<1> QED
  BY <1>1, <1>2 DEF Overwritten

LEMMA InstallStepInv ==
    ASSUME IInv, NEW t \in Threads, Install(t)
    PROVE  IInv'
<1> USE DEF IInv
<1>1. PICK b0 : b0 = blk[t]
  OBVIOUS
<1>2. PICK e0 : e0 = tgt[t][b0]
  OBVIOUS
<1>3. /\ pc[t] = "install" \/ (pc[t] = "io" /\ op[t] \in Writers /\ Flushed(t))
      /\ LOCK(t)
      /\ Succeed(t)
      /\ UNCHANGED <<disk, logged>>
      /\ bclock' = NoThread
  BY DEF Install, diskVars
<1>4. /\ hash' = [b \in Blocks |-> IF b \in OldNumbers(t) THEN NoEnt ELSE hash[b]]
      /\ bnum' = [e \in Ents |-> IF e \in Targets(t)
                                 THEN CHOOSE b \in need[t] : tgt[t][b] = e
                                 ELSE bnum[e]]
      /\ busy' = [e \in Ents |-> busy[e] /\ e \notin got[t]]
      /\ dirty' = [dirty EXCEPT ![e0] = op[t] \in Writers]
      /\ clone' = [clone EXCEPT ![e0] = NoClone]
      /\ lock' = [lock EXCEPT ![e0] = IF op[t] \in Lockers THEN 1 ELSE 0]
      /\ data' = [data EXCEPT ![e0] = IF op[t] \in Writers THEN latest[b0] + 1 ELSE @]
      /\ where' = [e \in Ents |-> IF e = e0 /\ op[t] \in Lockers THEN "locked"
                                  ELSE IF e \in got[t] THEN "normal" ELSE where[e]]
  BY <1>1, <1>2 DEF Install
<1>5. /\ pc[t] \in Filling /\ op[t] \in Readers \cup Writers /\ b0 \in need[t]
      /\ op[t] \in Writers => need[t] = {b0}
      /\ op[t] \in Writers \/ (op[t] \in Readers /\ pc[t] = "install")
  BY <1>1, <1>3 DEF Structure, CallsTellTruth, Filling
<1>6. ReadyToInstall(t)
  BY <1>3, <1>5, FillReady
<1>7. PICK T : T = Targets(t)
  OBVIOUS
<1>8. PICK O : O = OldNumbers(t)
  OBVIOUS
<1>9. PICK N : N = need[t]
  OBVIOUS
<1>10. /\ \A e \in got[t] : /\ e \in Ents /\ lock[e] = 0 /\ ~NeedsFlush(e)
                            /\ \A u \in Threads \ {t} : e \notin got[u]
       /\ T \subseteq got[t]
       /\ \A b \in N : b \in Blocks /\ tgt[t][b] \in T /\ hash[b] = tgt[t][b] /\ b \notin O
       /\ \A b \in Blocks : b \in O => hash[b] \in T
       /\ \A b \in Blocks : hash[b] \in T => b \in O \cup N
       /\ \A e \in Ents \ T : bnum[e] # NoBlock => bnum[e] \notin O
       /\ \A e \in T : \E b \in N : tgt[t][b] = e
       /\ \A b, c \in N : tgt[t][b] = tgt[t][c] => b = c
  <2>1. /\ \A e \in T : \E b \in N : tgt[t][b] = e
        /\ \A b, c \in N : tgt[t][b] = tgt[t][c] => b = c
    BY <1>5, <1>7, <1>9 DEF Targets, Structure, FillsTellTruth
  <2> QED
    BY <1>6, <1>7, <1>8, <1>9, <2>1 DEF ReadyToInstall
<1>11. \A b \in N \cup O : b \in Blocks =>
          /\ disk[b] = latest[b] /\ logged[b] = NoClone
          /\ \A u \in Threads : b \notin holds[u]
          /\ \A u \in Threads \ {t} : pc[u] \in Filling => b \notin need[u]
  BY <1>6, <1>8, <1>9 DEF ReadyToInstall
<1>12. e0 \in T /\ e0 \in Ents /\ b0 \in Blocks /\ b0 \in N
  BY <1>2, <1>5, <1>9, <1>10
<1>13. /\ \A b \in N : bnum'[tgt[t][b]] = b
       /\ \A e \in Ents \ T : bnum'[e] = bnum[e]
       /\ bnum'[e0] = b0
       /\ \A e \in T : e \in Ents /\ bnum'[e] \in N /\ tgt[t][bnum'[e]] = e
  <2>1. ASSUME NEW b \in N
        PROVE  bnum'[tgt[t][b]] = b
    <3>1. tgt[t][b] \in Ents /\ tgt[t][b] \in Targets(t)
      BY <1>7, <1>10
    <3>2. (CHOOSE c \in need[t] : tgt[t][c] = tgt[t][b]) = b
      BY <1>9, <1>10
    <3> QED
      BY <1>4, <3>1, <3>2
  <2>2. \A e \in Ents \ T : bnum'[e] = bnum[e]
    BY <1>4, <1>7
  <2> QED
    BY <1>2, <1>10, <1>12, <2>1, <2>2
<1>14. /\ \A b \in Blocks : hash'[b] = IF b \in O THEN NoEnt ELSE hash[b]
       /\ \A e \in Ents : busy'[e] <=> busy[e] /\ e \notin got[t]
       /\ \A e \in Ents : where'[e] = IF e = e0 /\ op[t] \in Lockers THEN "locked"
                                      ELSE IF e \in got[t] THEN "normal" ELSE where[e]
       /\ \A e \in Ents \ {e0} : /\ dirty'[e] = dirty[e] /\ clone'[e] = clone[e]
                                 /\ lock'[e] = lock[e] /\ data'[e] = data[e]
       /\ dirty'[e0] <=> op[t] \in Writers
       /\ clone'[e0] = NoClone
       /\ lock'[e0] = IF op[t] \in Lockers THEN 1 ELSE 0
       /\ data'[e0] = IF op[t] \in Writers THEN latest[b0] + 1 ELSE data[e0]
  BY <1>4, <1>8, <1>12 DEF Structure, TypeOK
<1>15. /\ CallOver(t) /\ CallsTyped' /\ ClientServed(t, b0) /\ OneLockMore(t, b0)
       /\ \A c \in Blocks : Changing(c)' <=> Changing(c)
  BY <1>1, <1>3, <1>5, SucceedFacts
<1>16. TypeOK'
  <2>1. /\ hash' \in [Blocks -> Ents \cup {NoEnt}]
        /\ where' \in [Ents -> {"unused", "normal", "locked", "taken"}]
        /\ dirty' \in [Ents -> BOOLEAN] /\ busy' \in [Ents -> BOOLEAN]
    BY <1>4, <1>12 DEF Structure, TypeOK
  <2>2. lock' \in [Ents -> Nat] /\ clone' \in [Ents -> Int] /\ data' \in [Ents -> Int]
    BY <1>4, <1>12 DEF Structure, TypeOK, NoClone
  <2>3. bnum' \in [Ents -> Blocks \cup {NoBlock}]
    <3>1. bnum' = [e \in Ents |-> bnum'[e]]
      BY <1>4
    <3>2. \A e \in Ents : bnum'[e] \in Blocks \cup {NoBlock}
      BY <1>10, <1>13 DEF Structure, TypeOK
    <3> QED
      BY <3>1, <3>2, Zenon
  <2> QED
    BY <1>3, <1>15, <2>1, <2>2, <2>3 DEF Structure, TypeOK, CallsTyped, ClientServed, Pcs
<1>17. BusyHasOneOwner'
  BY <1>4, <1>15, LeaveOwners
<1>18. \A e : Overwritten(e)' <=> Overwritten(e) /\ e \notin T
  BY <1>5, <1>7, <1>10, <1>15, LeaveOverwritten
<1>19. UNCHANGED <<disk, logged>>
  BY <1>3
<1>20. HashTellsTruth'
  <2>1. ASSUME NEW e \in Ents, bnum'[e] # NoBlock
        PROVE  hash'[bnum'[e]] = e
    <3>1. CASE e \in T
      BY <1>10, <1>13, <1>14, <3>1
    <3>2. CASE e \notin T
      <4>1. bnum[e] \in Blocks /\ bnum[e] \notin O /\ bnum'[e] = bnum[e]
        BY <1>10, <1>13, <2>1, <3>2 DEF Structure, TypeOK
      <4> QED
        BY <1>14, <2>1, <4>1 DEF Structure, CacheSound, HashTellsTruth
    <3> QED
      BY <3>1, <3>2
  <2>2. ASSUME NEW b \in Blocks, hash'[b] # NoEnt, bnum'[hash'[b]] # b
        PROVE  busy'[hash'[b]] /\ \E u \in Threads : b \in need'[u] /\ tgt'[u][b] = hash'[b]
    <3>1. b \notin O /\ hash'[b] = hash[b] /\ hash[b] # NoEnt
      BY <1>14, <2>2
    <3>2. b \notin N /\ hash[b] \notin T
      BY <1>10, <1>13, <2>2, <3>1
    <3>3. hash[b] \in Ents /\ bnum[hash[b]] # b
      BY <1>13, <2>2, <3>1, <3>2 DEF Structure, TypeOK
    <3>4. PICK u \in Threads : /\ pc[u] \in Filling /\ b \in need[u]
                               /\ tgt[u][b] = hash[b] /\ hash[b] \in got[u] /\ busy[hash[b]]
      BY <3>1, <3>3, FoundEarly
    <3>5. u # t
      BY <1>9, <3>2, <3>4
    <3> QED
      BY <1>10, <1>14, <1>15, <3>1, <3>3, <3>4, <3>5 DEF CallOver
  <2> QED
    BY <2>1, <2>2 DEF HashTellsTruth
<1>21. LocksTellTruth'
  <2>1. Cardinality(Holders(b0)) = 0
    <3>1. Holders(b0) = {}
      BY <1>11, <1>12 DEF Holders
    <3> QED
      BY <3>1, HoldersFinite
  <2>2. Cardinality(Holders(bnum[e0])') = IF op[t] \in Lockers THEN 1 ELSE 0
    BY <1>13, <1>15, <2>1 DEF OneLockMore, Holders
  <2>3. ASSUME NEW e \in T, e # e0
        PROVE  Cardinality(Holders(bnum[e])') = 0 /\ bnum'[e] # NoBlock
    <3>1. PICK c : c = bnum'[e]
      OBVIOUS
    <3>2. c \in N /\ c # b0 /\ c \in Blocks
      BY <1>2, <1>10, <1>13, <2>3, <3>1
    <3>3. Holders(c) = {}
      BY <1>11, <3>2 DEF Holders
    <3>4. Holders(c)' = {}
      BY <1>15, <3>2, <3>3 DEF OneLockMore
    <3>5. Holders(bnum[e])' = {}
      BY <3>1, <3>4 DEF Holders
    <3> QED
      BY <3>1, <3>2, <3>5, FS_EmptySet, Kinds
  <2>4. ASSUME NEW e \in Ents, e \notin T
        PROVE  /\ bnum'[e] = bnum[e] /\ Holders(bnum[e])' = Holders(bnum[e])
               /\ e # e0 /\ dirty'[e] = dirty[e] /\ clone'[e] = clone[e]
    <3>1. bnum[e] # b0
      BY <1>2, <1>10, <1>12, <2>4, Kinds DEF Structure, CacheSound, HashTellsTruth
    <3> QED
      BY <1>12, <1>13, <1>14, <1>15, <2>4, <3>1 DEF OneLockMore, Holders
  <2>5. ASSUME NEW e \in Ents
        PROVE  lock'[e] = IF bnum'[e] = NoBlock THEN 0 ELSE Cardinality(Holders(bnum[e])')
    <3>1. CASE e = e0
      BY <1>12, <1>13, <1>14, <2>2, <3>1, Kinds
    <3>2. CASE e \in T /\ e # e0
      BY <1>10, <1>14, <2>3, <3>2
    <3>3. CASE e \notin T
      BY <1>14, <2>4, <3>3 DEF Structure, CacheSound, LocksTellTruth
    <3> QED
      BY <3>1, <3>2, <3>3
  <2>6. ASSUME NEW e \in Ents
        PROVE  /\ where'[e] = "locked" <=> lock'[e] > 0
               /\ where'[e] = "unused" => bnum'[e] = NoBlock /\ ~NeedsFlush(e)'
    <3>1. CASE e \in got[t]
      BY <1>10, <1>12, <1>14, <3>1
    <3>2. CASE e \notin got[t]
      BY <1>10, <1>12, <1>14, <2>4, <3>2
         DEF Structure, CacheSound, LocksTellTruth, NeedsFlush
    <3> QED
      BY <3>1, <3>2
  <2> QED
    BY <2>5, <2>6 DEF LocksTellTruth
<1>22. CallsTellTruth'
  BY <1>15 DEF Structure, CallsTellTruth, Filling, Flushes, CallOver
<1>23. \A u \in Threads \ {t}, x \in Ents : x \in got[u] =>
          /\ where'[x] = where[x] /\ (NeedsFlush(x)' <=> NeedsFlush(x))
          /\ bnum'[x] = bnum[x]
  <2>1. ASSUME NEW u \in Threads \ {t}, NEW x \in Ents, x \in got[u]
        PROVE  x \notin got[t] /\ x \notin T /\ x # e0
    BY <1>10, <1>12, <2>1
  <2> QED
    BY <1>13, <1>14, <2>1 DEF NeedsFlush
<1>24. FillsTellTruth'
  <2>1. \A u \in Threads : pc'[u] \in Filling => u # t
    BY <1>15 DEF CallOver, Filling
  <2>2. ASSUME NEW u \in Threads \ {t}, pc[u] \in Filling, NEW b \in need[u]
        PROVE  hash'[b] = hash[b] /\ tgt[u][b] \in Ents
    BY <1>11, <1>14, <2>2, OnItsWay
  <2>3. \A u \in Threads : got[u] \subseteq Ents
    BY DEF Structure, TypeOK
  <2> QED
    BY <1>15, <1>23, <2>1, <2>2, <2>3 DEF Structure, FillsTellTruth, CallOver
<1>25. EntsTellTruth'
  <2>1. \A e \in Ents : bnum'[e] = NoBlock => ~NeedsFlush(e)'
    BY <1>10, <1>12, <1>13, <1>14, Kinds DEF Structure, EntsTellTruth, NeedsFlush
  <2> QED
    BY <1>15, <1>23, <2>1 DEF Structure, EntsTellTruth, CallOver
<1>26. ASSUME NEW u \in Threads, NEW c \in holds[u]
       PROVE  hash'[c] = hash[c] /\ bnum'[hash[c]] = c /\ hash[c] # NoEnt
  <2>1. c \in Blocks /\ hash[c] \in Ents /\ bnum[hash[c]] = c /\ c \notin N \cup O
    BY <1>11, HeldIsLocked
  <2>2. hash[c] \notin T
    BY <1>10, <2>1
  <2> QED
    BY <1>13, <1>14, <2>1, <2>2, CacheAssumption
<1>27. ClientsTellTruth'
  <2>1. /\ \A u \in Threads : op'[u] \in Writers => blk'[u] \in Blocks /\ writer'[blk'[u]] = u
        /\ \A u \in Threads : op'[u] \in Lockers => blk'[u] \notin holds'[u]
        /\ \A c \in Blocks : Changing(c)' => c \in holds'[writer'[c]]
    BY <1>3, <1>5, SucceedFacts
  <2>2. \A u \in Threads : pc'[u] = "info" => /\ u # t /\ blk'[u] \in holds'[u]
                                              /\ blk[u] \in holds[u]
                                              /\ writer'[blk'[u]] = u
    BY <1>3, <1>5, SucceedFacts
  <2>3. \A u \in Threads : pc'[u] = "info" => got'[u] = {hash'[blk'[u]]}
    BY <1>15, <1>26, <2>2 DEF Structure, ClientsTellTruth, CallOver
  <2>4. \A u \in Threads : holds'[u] \subseteq holds[u] \cup {b0}
    BY <1>15 DEF ClientServed
  <2>5. hash'[b0] # NoEnt /\ bnum'[hash'[b0]] = b0
    BY <1>2, <1>10, <1>12, <1>13, <1>14, CacheAssumption
  <2>6. \A u \in Threads : \A c \in holds'[u] : hash'[c] # NoEnt /\ bnum'[hash'[c]] = c
    BY <1>26, <2>4, <2>5
  <2> QED
    BY <2>1, <2>2, <2>3, <2>6 DEF ClientsTellTruth
<1>28. RemoveAlone'
  BY <1>3, <1>5, <1>15, NobodyRemoves DEF RemoveAlone, CallOver, Filling
<1>29. \A c \in Blocks : c # b0 => latest'[c] = latest[c]
  BY <1>15 DEF ClientServed
<1>30. ASSUME NEW b \in N, NEW e, e = tgt[t][b]
       PROVE  /\ b \in Blocks /\ hash'[b] = e /\ bnum'[e] = b /\ ~Overwritten(e)' /\ e # NoEnt
              /\ data'[e] = latest'[b]
              /\ ~dirty'[e] => latest'[b] = disk[b]
              /\ clone'[e] = NoClone /\ logged[b] = NoClone
  <2>1. bnum[e] # b
    BY <1>5, <1>9, <1>30, OnItsWay
  <2>2. e = e0 <=> b = b0
    BY <1>2, <1>10, <1>12, <1>30
  <2>3. /\ b \in Blocks /\ hash'[b] = e /\ bnum'[e] = b /\ ~Overwritten(e)' /\ e \in T
        /\ hash[b] = e /\ e \in Ents /\ e # NoEnt /\ disk[b] = latest[b]
        /\ logged[b] = NoClone
    BY <1>10, <1>11, <1>13, <1>14, <1>18, <1>30, CacheAssumption
  <2>4. clone'[e] = NoClone
    BY <1>10, <1>14, <2>3 DEF NeedsFlush
  <2>5. data'[e] = latest'[b] /\ (~dirty'[e] => latest'[b] = disk[b])
    <3>1. CASE op[t] \in Writers
      <4>1. b = b0 /\ e = e0
        BY <1>5, <1>9, <2>2, <3>1
      <4> QED
        BY <1>12, <1>14, <1>15, <3>1, <4>1 DEF ClientServed
    <3>2. CASE op[t] \notin Writers
      <4>1. Overwritten(e)
        BY <1>5, <1>7, <2>3, <3>2 DEF Overwritten
      <4>2. data[e] = latest[b]
        BY <2>1, <2>3, <4>1 DEF Coherent
      <4>3. data'[e] = data[e] /\ latest'[b] = latest[b]
        BY <1>14, <1>15, <2>3, <3>2 DEF ClientServed
      <4> QED
        BY <2>3, <4>2, <4>3
    <3> QED
      BY <3>1, <3>2
  <2> QED
    BY <2>3, <2>4, <2>5
<1>31. ASSUME NEW b \in Blocks, b \in O
       PROVE  hash'[b] = NoEnt /\ disk[b] = latest'[b] /\ logged[b] = NoClone
  BY <1>10, <1>11, <1>12, <1>14, <1>29, <1>31
<1>32. ASSUME NEW b \in Blocks, b \notin O, b \notin N
       PROVE  /\ hash'[b] = hash[b] /\ latest'[b] = latest[b]
              /\ hash[b] # NoEnt =>
                    /\ bnum'[hash[b]] = bnum[hash[b]] /\ data'[hash[b]] = data[hash[b]]
                    /\ dirty'[hash[b]] = dirty[hash[b]] /\ clone'[hash[b]] = clone[hash[b]]
                    /\ Overwritten(hash[b])' <=> Overwritten(hash[b])
  <2>1. hash[b] \notin T
    BY <1>10, <1>32
  <2>2. hash[b] # NoEnt => hash[b] \in Ents
    BY DEF Structure, TypeOK
  <2> QED
    BY <1>12, <1>13, <1>14, <1>18, <1>29, <1>32, <2>1, <2>2
<1>33. Coherent'
  <2>1. \A b \in Blocks : Changing(b)' <=> Changing(b)
    BY <1>15
  <2>2. ASSUME NEW b \in Blocks, NEW e, e = hash'[b]
        PROVE  IF e # NoEnt /\ bnum'[e] = b
               THEN /\ ~Overwritten(e)' =>
                          data'[e] = latest'[b] \/ (data'[e] = Torn /\ Changing(b)')
                    /\ ~dirty'[e] /\ ~Changing(b)' =>
                          latest'[b] = IF clone'[e] # NoClone THEN clone'[e] ELSE disk'[b]
               ELSE /\ disk'[b] = latest'[b]
                    /\ e # NoEnt /\ Overwritten(e)' => data'[e] = latest'[b]
    <3>1. CASE b \in N
      <4>1. PICK x : x = tgt[t][b]
        OBVIOUS
      <4> QED
        BY <1>19, <1>30, <2>2, <3>1, <4>1
    <3>2. CASE b \in O
      BY <1>19, <1>31, <2>2, <3>2
    <3>3. CASE b \notin N /\ b \notin O
      BY <1>19, <1>32, <2>1, <2>2, <3>3 DEF Coherent
    <3> QED
      BY <3>1, <3>2, <3>3
  <2> QED
    BY <2>2 DEF Coherent
<1>34. LogNotForgotten'
  BY <1>19, <1>30, <1>31, <1>32 DEF LogNotForgotten
<1>35. VersionsOrdered'
  <2>1. \A b \in Blocks : disk[b] \in Int /\ latest[b] \in Int
    BY DEF Structure, TypeOK
  <2>2. \A b \in Blocks : latest'[b] \in Int /\ latest'[b] >= latest[b]
    BY <1>15, <2>1 DEF ClientServed
  <2> QED
    BY <1>19, <1>30, <1>31, <1>32, <2>1, <2>2 DEF VersionsOrdered
<1> QED
  BY <1>16, <1>17, <1>20, <1>21, <1>22, <1>24, <1>25, <1>27, <1>28, <1>33, <1>34, <1>35
     DEF Structure, CacheSound

LEMMA GiveUpStepInv ==
    ASSUME IInv, NEW t \in Threads, GiveUp(t)
    PROVE  IInv'
<1> USE DEF IInv
<1>1. PICK T : T = Targets(t)
  OBVIOUS
<1>2. PICK O : O = OldNumbers(t) \cup need[t]
  OBVIOUS
<1>3. /\ pc[t] = "failed" /\ LOCK(t) /\ EndCall(t)
      /\ UNCHANGED <<dirty, lock, clone, bclock, holds, writer, latest, disk, logged>>
      /\ hash' = [b \in Blocks |-> IF b \in O THEN NoEnt ELSE hash[b]]
      /\ bnum' = [e \in Ents |-> IF e \in T THEN NoBlock ELSE bnum[e]]
      /\ busy' = [e \in Ents |-> busy[e] /\ e \notin got[t]]
      /\ where' = [e \in Ents |-> IF e \in T THEN "unused"
                                  ELSE IF e \in got[t] THEN "normal" ELSE where[e]]
      /\ data' = [e \in Ents |-> IF e \in T THEN Torn ELSE data[e]]
  BY <1>1, <1>2 DEF GiveUp, clientVars, diskVars
<1>4. pc[t] \in Filling /\ op[t] \in Readers
  BY <1>3 DEF Structure, CallsTellTruth, Filling
<1>5. ReadyToInstall(t)
  BY <1>3, <1>4, FillReady
<1>6. /\ \A e \in got[t] : /\ e \in Ents /\ lock[e] = 0 /\ ~NeedsFlush(e)
                           /\ \A u \in Threads \ {t} : e \notin got[u]
      /\ T \subseteq got[t]
      /\ \A b \in Blocks : hash[b] \in T <=> b \in O
      /\ \A e \in Ents \ T : bnum[e] # NoBlock => bnum[e] \notin O
      /\ \A b \in O : b \in Blocks =>
            /\ disk[b] = latest[b] /\ logged[b] = NoClone
            /\ \A u \in Threads : b \notin holds[u]
            /\ \A u \in Threads \ {t} : pc[u] \in Filling => b \notin need[u]
  <2>1. \A e \in Ents : bnum[e] \notin need[t]
    BY <1>4, NeededOnce
  <2> QED
    BY <1>1, <1>2, <1>5, <2>1 DEF ReadyToInstall
<1>7. /\ \A b \in Blocks : hash'[b] = IF b \in O THEN NoEnt ELSE hash[b]
      /\ \A e \in Ents : bnum'[e] = IF e \in T THEN NoBlock ELSE bnum[e]
      /\ \A e \in Ents : where'[e] = IF e \in T THEN "unused"
                                     ELSE IF e \in got[t] THEN "normal" ELSE where[e]
      /\ \A e \in Ents \ T : data'[e] = data[e]
      /\ \A e \in Ents : busy'[e] <=> busy[e] /\ e \notin got[t]
  BY <1>3
<1>8. CallOver(t) /\ CallsTyped'
  BY <1>3, EndCallFacts DEF Structure
<1>9. UNCHANGED <<dirty, lock, clone, bclock, holds, writer, latest, disk, logged>>
  BY <1>3
<1>10. TypeOK'
  <2>1. /\ hash' \in [Blocks -> Ents \cup {NoEnt}]
        /\ bnum' \in [Ents -> Blocks \cup {NoBlock}]
        /\ where' \in [Ents -> {"unused", "normal", "locked", "taken"}]
        /\ busy' \in [Ents -> BOOLEAN] /\ data' \in [Ents -> Int]
    BY <1>3 DEF Structure, TypeOK, Torn
  <2> QED
    BY <1>8, <1>9, <2>1 DEF Structure, TypeOK, CallsTyped, Pcs
<1>11. BusyHasOneOwner'
  BY <1>3, <1>8, LeaveOwners
<1>12. \A e : Overwritten(e)' <=> Overwritten(e) /\ e \notin T
  BY <1>1, <1>4, <1>6, <1>8, LeaveOverwritten
<1>13. \A c \in Blocks : Changing(c)' <=> Changing(c)
  <2>1. ASSUME NEW c \in Blocks, writer[c] = t
        PROVE  Changing(c)' <=> Changing(c)
    BY <1>3, <1>4, <1>8, <1>9, <2>1, Kinds DEF Changing, CallOver
  <2>2. ASSUME NEW c \in Blocks, writer[c] # t
        PROVE  Changing(c)' <=> Changing(c)
    <3>1. CASE writer[c] = NoThread
      BY <1>9, <3>1 DEF Changing
    <3>2. CASE writer[c] # NoThread
      <4>1. writer[c] \in Threads \ {t}
        BY <2>2, <3>2 DEF Structure, TypeOK
      <4> QED
        BY <1>8, <1>9, <4>1 DEF Changing, CallOver
    <3> QED
      BY <3>1, <3>2
  <2> QED
    BY <2>1, <2>2
<1>14. HashTellsTruth'
  <2>1. ASSUME NEW e \in Ents, bnum'[e] # NoBlock
        PROVE  hash'[bnum'[e]] = e
    <3>1. e \notin T /\ bnum'[e] = bnum[e] /\ bnum[e] \in Blocks /\ bnum[e] \notin O
      BY <1>6, <1>7, <2>1 DEF Structure, TypeOK
    <3> QED
      BY <1>7, <2>1, <3>1 DEF Structure, CacheSound, HashTellsTruth
  <2>2. ASSUME NEW b \in Blocks, hash'[b] # NoEnt, bnum'[hash'[b]] # b
        PROVE  busy'[hash'[b]] /\ \E u \in Threads : b \in need'[u] /\ tgt'[u][b] = hash'[b]
    <3>1. b \notin O /\ hash'[b] = hash[b] /\ hash[b] # NoEnt /\ hash[b] \notin T
      BY <1>6, <1>7, <2>2
    <3>2. hash[b] \in Ents /\ bnum[hash[b]] # b
      BY <1>7, <2>2, <3>1 DEF Structure, TypeOK
    <3>3. PICK u \in Threads : /\ pc[u] \in Filling /\ b \in need[u]
                               /\ tgt[u][b] = hash[b] /\ hash[b] \in got[u] /\ busy[hash[b]]
      BY <3>1, <3>2, FoundEarly
    <3>4. u # t
      BY <1>2, <3>1, <3>3
    <3> QED
      BY <1>6, <1>7, <1>8, <3>1, <3>2, <3>3, <3>4 DEF CallOver
  <2> QED
    BY <2>1, <2>2 DEF HashTellsTruth
<1>15. LocksTellTruth'
  <2>1. \A e \in Ents \ T : bnum'[e] = bnum[e] /\ Holders(bnum[e])' = Holders(bnum[e])
    BY <1>7, <1>9 DEF Holders
  <2>2. \A e \in T : /\ bnum'[e] = NoBlock /\ lock'[e] = 0 /\ where'[e] = "unused"
                     /\ ~NeedsFlush(e)'
    BY <1>6, <1>7, <1>9 DEF NeedsFlush
  <2>3. \A e \in Ents \ T : where'[e] = where[e] \/ (where'[e] = "normal" /\ lock[e] = 0)
    BY <1>6, <1>7
  <2> QED
    BY <1>9, <2>1, <2>2, <2>3 DEF Structure, CacheSound, LocksTellTruth, NeedsFlush
<1>16. CallsTellTruth'
  BY <1>8 DEF Structure, CallsTellTruth, Filling, Flushes, CallOver
<1>17. \A u \in Threads \ {t}, x \in Ents : x \in got[u] =>
          /\ where'[x] = where[x] /\ (NeedsFlush(x)' <=> NeedsFlush(x))
          /\ bnum'[x] = bnum[x]
  BY <1>6, <1>7, <1>9 DEF NeedsFlush
<1>18. FillsTellTruth'
  <2>1. \A u \in Threads : pc'[u] \in Filling => u # t
    BY <1>8 DEF CallOver, Filling
  <2>2. ASSUME NEW u \in Threads \ {t}, pc[u] \in Filling, NEW b \in need[u]
        PROVE  hash'[b] = hash[b] /\ tgt[u][b] \in Ents
    BY <1>6, <1>7, <2>2, OnItsWay
  <2>3. \A u \in Threads : got[u] \subseteq Ents
    BY DEF Structure, TypeOK
  <2> QED
    BY <1>8, <1>17, <2>1, <2>2, <2>3 DEF Structure, FillsTellTruth, CallOver
<1>19. EntsTellTruth'
  <2>1. \A e \in Ents : bnum'[e] = NoBlock => ~NeedsFlush(e)'
    BY <1>6, <1>7, <1>9 DEF Structure, EntsTellTruth, NeedsFlush
  <2> QED
    BY <1>8, <1>17, <2>1 DEF Structure, EntsTellTruth, CallOver
<1>20. ASSUME NEW u \in Threads, NEW c \in holds[u]
       PROVE  c \in Blocks /\ hash'[c] = hash[c] /\ bnum'[hash[c]] = c /\ hash[c] # NoEnt
  <2>1. c \in Blocks /\ hash[c] \in Ents /\ bnum[hash[c]] = c /\ c \notin O
    BY <1>6, HeldIsLocked
  <2> QED
    BY <1>6, <1>7, <2>1, CacheAssumption
<1>21. ClientsTellTruth'
  <2>1. \A u \in Threads : op'[u] \in Writers \cup Lockers => u # t
    BY <1>8, Kinds DEF CallOver
  <2>2. \A u \in Threads : pc'[u] = "info" => u # t /\ blk[u] \in holds[u]
    BY <1>8 DEF Structure, ClientsTellTruth, CallOver
  <2> QED
    BY <1>8, <1>9, <1>13, <1>20, <2>1, <2>2 DEF Structure, ClientsTellTruth, CallOver
<1>22. RemoveAlone'
  BY <1>3, <1>8, NobodyRemoves DEF RemoveAlone, CallOver
<1>23. ASSUME NEW b \in Blocks, b \notin O
       PROVE  /\ hash'[b] = hash[b]
              /\ hash[b] # NoEnt =>
                    /\ bnum'[hash[b]] = bnum[hash[b]] /\ data'[hash[b]] = data[hash[b]]
                    /\ Overwritten(hash[b])' <=> Overwritten(hash[b])
  <2>1. hash[b] \notin T
    BY <1>6, <1>23
  <2>2. hash[b] # NoEnt => hash[b] \in Ents
    BY DEF Structure, TypeOK
  <2> QED
    BY <1>7, <1>12, <1>23, <2>1, <2>2
<1>24. \A b \in Blocks : b \in O =>
          hash'[b] = NoEnt /\ disk[b] = latest[b] /\ logged[b] = NoClone
  BY <1>6, <1>7
<1>25. Coherent'
  BY <1>9, <1>13, <1>23, <1>24 DEF Coherent
<1>26. LogNotForgotten' /\ VersionsOrdered'
  BY <1>9, <1>23, <1>24 DEF LogNotForgotten, VersionsOrdered
<1> QED
  BY <1>10, <1>11, <1>14, <1>15, <1>16, <1>18, <1>19, <1>21, <1>22, <1>25, <1>26
     DEF Structure, CacheSound

-----------------------------------------------------------------------------
LEMMA InitIInv == Init => IInv
<1> SUFFICES ASSUME Init PROVE IInv
  OBVIOUS
<1>1. TypeOK
  BY DEF Init, TypeOK, Torn, NoClone, NoTarget
<1>2. \A b : Cardinality(Holders(b)) = 0
  <2>1. \A b : Holders(b) = {}
    BY DEF Init, Holders
  <2> QED
    BY <2>1, FS_EmptySet
<1>3. CacheSound
  BY <1>2 DEF Init, CacheSound, HashTellsTruth, BusyHasOneOwner, LocksTellTruth, NeedsFlush
<1>4. CallsTellTruth /\ FillsTellTruth /\ EntsTellTruth /\ RemoveAlone
  BY DEF Init, CallsTellTruth, FillsTellTruth, EntsTellTruth, RemoveAlone, Filling,
         Flushes, NeedsFlush
<1>5. ClientsTellTruth
  BY Kinds DEF Init, ClientsTellTruth, Changing
<1>6. Coherent /\ LogNotForgotten /\ VersionsOrdered
  BY DEF Init, Coherent, LogNotForgotten, VersionsOrdered
<1> QED
  BY <1>1, <1>3, <1>4, <1>5, <1>6 DEF IInv, Structure

LEMMA StutterIInv == IInv /\ UNCHANGED vars => IInv'
<1> SUFFICES ASSUME IInv, UNCHANGED vars PROVE IInv'
  OBVIOUS
<1> USE DEF IInv
<1>1. /\ UNCHANGED <<hash, bnum, where, dirty, busy, lock, clone, data, bclock, pc, op>>
      /\ UNCHANGED <<blk, need, got, tgt, holds, writer, latest, disk, logged>>
  BY DEF vars, entVars, callVars, clientVars, diskVars
<1>2. TypeOK' /\ BusyHasOneOwner' /\ HashTellsTruth'
  BY <1>1 DEF Structure, TypeOK, CacheSound, BusyHasOneOwner, HashTellsTruth
<1>3. LocksTellTruth'
  BY <1>1, HoldersKept DEF Structure, CacheSound, LocksTellTruth, NeedsFlush
<1>4. CallsTellTruth' /\ FillsTellTruth' /\ EntsTellTruth' /\ RemoveAlone'
  BY <1>1 DEF Structure, CallsTellTruth, FillsTellTruth, EntsTellTruth, RemoveAlone,
              NeedsFlush
<1>5. \A c \in Blocks : Changing(c)' <=> Changing(c)
  BY <1>1 DEF Changing
<1>6. \A e : Overwritten(e)' <=> Overwritten(e)
  BY <1>1, OverwrittenKept
<1>7. ClientsTellTruth'
  BY <1>1, <1>5 DEF Structure, ClientsTellTruth
<1>8. Coherent' /\ LogNotForgotten' /\ VersionsOrdered'
  BY <1>1, <1>5, <1>6, DataKept
<1> QED
  BY <1>2, <1>3, <1>4, <1>7, <1>8 DEF Structure, CacheSound

LEMMA NextIInv == IInv /\ [Next]_vars => IInv'
<1> SUFFICES ASSUME IInv, [Next]_vars PROVE IInv'
  OBVIOUS
<1>1. ASSUME NEW t \in Threads, CallStep(t)
      PROVE  IInv'
  <2>1. CASE Hit(t)
    BY <2>1, HitStepInv
  <2>2. CASE GetEnts(t)
    BY <2>2, GetEntsShortStepInv, GetEntsTimeoutStepInv, InsertPanicStepInv,
       StartIOStepInv DEF GetEnts
  <2>3. CASE ReadPhys(t) \/ ReadPhysFails(t)
    BY <2>3, ReadPhysStepInv, ReadPhysFailsStepInv
  <2>4. CASE Install(t) \/ GiveUp(t)
    BY <2>4, InstallStepInv, GiveUpStepInv
  <2>5. CASE FlushDevice2(t) \/ FlushDeviceDone(t) \/ FlushDone(t)
    BY <2>5, FlushesStepInv
  <2>6. CASE RemoveDone(t) \/ SetInfoDone(t)
    BY <2>6, RemoveDoneStepInv, SetInfoStepInv
  <2>7. CASE \E e \in Ents : FlushClone(t, e) \/ FlushData(t, e)
    BY <2>7, FlushCloneStepInv, FlushDataStepInv
  <2> QED
    BY <1>1, <2>1, <2>2, <2>3, <2>4, <2>5, <2>6, <2>7 DEF CallStep
<1>2. ASSUME NEW t \in Threads, Client(t)
      PROVE  IInv'
  <2>1. CASE \E o \in Readers \cup Writers, b \in Blocks : Call(t, o, b)
    BY <2>1, CallStepInv
  <2>2. CASE flush_device(t) \/ remove_cached_device_blocks(t) \/ DiscardDeviceBlocks(t)
    BY <2>2, FlushesStepInv, RemoveStepInv, DiscardStepInv
  <2>3. CASE \E prefer \in BOOLEAN : force_cache_flush(t, prefer)
    BY <2>3, FlushesStepInv
  <2>4. ASSUME NEW b \in Blocks,
               \/ flush_blocks(t, b) \/ BeginModify(t, b) \/ EndModify(t, b)
               \/ mark_blocks_dirty(t, b) \/ release_block(t, b) \/ set_blocks_info(t, b)
        PROVE  IInv'
    BY <2>4, FlushesStepInv, BeginModifyStepInv, EndModifyStepInv, MarkDirtyStepInv,
       ReleaseStepInv, SetInfoStepInv
  <2> QED
    BY <1>2, <2>1, <2>2, <2>3, <2>4 DEF Client
<1> QED
  BY <1>1, <1>2, StutterIInv DEF Next

-----------------------------------------------------------------------------
(***************************************************************************)
(* The inductive invariant of the block cache holds in every reachable     *)
(* state.                                                                  *)
(***************************************************************************)
THEOREM CacheInvariant == Spec => []IInv
BY InitIInv, NextIInv, PTL DEF Spec

(***************************************************************************)
(* The hash table, CE_BUSY and the lock counts tell the truth at all times *)
(* (cache_block_io and everybody who drops bc.lock for a transfer).        *)
(***************************************************************************)
THEOREM CacheIsSound == Spec => []CacheSound
<1>1. IInv => CacheSound
  BY DEF IInv, Structure
<1> QED
  BY <1>1, CacheInvariant, PTL

(***************************************************************************)
(* No write is lost and no stale block is served, whatever is cached,      *)
(* evicted, cloned, flushed or read ahead at the same time.                *)
(***************************************************************************)
THEOREM CacheCoherent == Spec => []Coherent
<1>1. IInv => Coherent
  BY DEF IInv
<1> QED
  BY <1>1, CacheInvariant, PTL

(***************************************************************************)
(* The log's contents are kept until its callback is made                  *)
(* (set_blocks_info, flush_cache_ent).                                     *)
(***************************************************************************)
THEOREM CacheKeepsLog == Spec => []LogNotForgotten
<1>1. IInv => LogNotForgotten
  BY DEF IInv
<1> QED
  BY <1>1, CacheInvariant, PTL

-----------------------------------------------------------------------------
(***************************************************************************)
(* What a single step may do.                                              *)
(***************************************************************************)
\* Only flush_cache_ent writes to the disk.
LEMMA WhoWrites ==
    ASSUME Next, disk' # disk
    PROVE  \E t \in Threads, e \in Ents : FlushClone(t, e) \/ FlushData(t, e)
<1> SUFFICES ASSUME ~\E t \in Threads, e \in Ents : FlushClone(t, e) \/ FlushData(t, e)
             PROVE  disk' = disk
  OBVIOUS
<1>1. ASSUME NEW t \in Threads, CallStep(t)
      PROVE  disk' = disk
  <2>1. CASE Hit(t) \/ ReadPhys(t) \/ ReadPhysFails(t) \/ Install(t) \/ GiveUp(t)
    BY <2>1 DEF Hit, ReadPhys, ReadPhysFails, Install, GiveUp, diskVars
  <2>2. CASE GetEnts(t)
    <3>1. GetEntsTimeout(t) => disk' = disk
      BY DEF GetEntsTimeout, diskVars
    <3>2. \A F : GetEntsShort(t, F) => disk' = disk
      BY DEF GetEntsShort, diskVars
    <3>3. \A P : InsertPanic(t, P) => disk' = disk
      BY DEF InsertPanic, diskVars
    <3>4. \A F, P, X, f : StartIO(t, F, P, X, f) => disk' = disk
      BY DEF StartIO, diskVars
    <3> QED
      BY <2>2, <3>1, <3>2, <3>3, <3>4 DEF GetEnts
  <2>3. CASE \/ FlushDevice2(t) \/ FlushDeviceDone(t) \/ FlushDone(t)
             \/ RemoveDone(t) \/ SetInfoDone(t)
    BY <2>3 DEF FlushDevice2, FlushDeviceDone, FlushDone, StartFlush, RemoveDone,
                SetInfoDone, SetInfo, diskVars
  <2> QED
    BY <1>1, <2>1, <2>2, <2>3 DEF CallStep
<1>2. ASSUME NEW t \in Threads, Client(t)
      PROVE  disk' = disk
  BY <1>2 DEF Client, Call, flush_device, flush_blocks, force_cache_flush, StartFlush,
              remove_cached_device_blocks, BeginModify, EndModify, mark_blocks_dirty,
              release_block, set_blocks_info, SetInfo, DiscardDeviceBlocks, diskVars
<1> QED
  BY <1>1, <1>2 DEF Next

LEMMA DiskStep ==
    ASSUME IInv, Next
    PROVE  \A b \in Blocks : disk'[b] # disk[b] =>
              disk'[b] > disk[b] /\ (logged[b] # NoClone => disk'[b] = logged[b])
<1> SUFFICES ASSUME NEW b \in Blocks, disk'[b] # disk[b]
             PROVE  disk'[b] > disk[b] /\ (logged[b] # NoClone => disk'[b] = logged[b])
  OBVIOUS
<1> USE DEF IInv
<1>1. PICK t \in Threads, e \in Ents : FlushClone(t, e) \/ FlushData(t, e)
  BY WhoWrites
<1>2. e # NoEnt /\ disk[b] \in Int /\ latest[b] \in Int /\ clone[e] \in Int
  BY CacheAssumption DEF Structure, TypeOK
<1>3. CASE FlushClone(t, e)
  <2>1. clone[e] # NoClone /\ disk' = [disk EXCEPT ![bnum[e]] = clone[e]]
    BY <1>3 DEF FlushClone
  <2>2. bnum[e] = b /\ disk'[b] = clone[e]
    BY <2>1 DEF Structure, TypeOK
  <2>3. hash[b] = e
    BY <2>2, Kinds DEF Structure, CacheSound, HashTellsTruth
  <2> QED
    BY <1>2, <2>1, <2>2, <2>3 DEF VersionsOrdered, LogNotForgotten
<1>4. CASE FlushData(t, e)
  <2>1. clone[e] = NoClone /\ disk' = [disk EXCEPT ![bnum[e]] = data[e]]
    BY <1>4 DEF FlushData
  <2>2. hash[bnum[e]] = e /\ data[e] = latest[bnum[e]]
    BY <1>4, FlushDataStepInv
  <2>3. bnum[e] = b /\ disk'[b] = latest[b]
    BY <2>1, <2>2 DEF Structure, TypeOK
  <2> QED
    BY <1>2, <2>1, <2>2, <2>3 DEF VersionsOrdered, LogNotForgotten
<1> QED
  BY <1>1, <1>3, <1>4

(***************************************************************************)
(* The disk only moves forward, and what the log waits for is written      *)
(* before anything newer (flush_cache_ent).                                *)
(***************************************************************************)
THEOREM CacheWritesInOrder == Spec => DiskInOrder
<1>1. IInv /\ [Next]_vars => [\A b \in Blocks : disk'[b] # disk[b] =>
          /\ disk'[b] > disk[b]
          /\ logged[b] # NoClone => disk'[b] = logged[b]]_vars
  BY DiskStep
<1> QED
  BY <1>1, CacheInvariant, PTL DEF Spec, DiskInOrder

\* A step leaves the entry of a locked block where it is found.
LEMMA HeldStaysFound ==
    ASSUME IInv, Next, NEW u \in Threads, NEW b \in holds[u], b \in holds'[u]
    PROVE  hash'[b] = hash[b]
<1> USE DEF IInv
<1>1. b \in Blocks /\ hash[b] # NoEnt
  BY HeldIsLocked, CacheAssumption
<1>2. ASSUME NEW t \in Threads, CallStep(t)
      PROVE  hash'[b] = hash[b]
  <2>1. CASE Hit(t) \/ ReadPhys(t) \/ ReadPhysFails(t)
    BY <2>1 DEF Hit, ReadPhys, ReadPhysFails
  <2>2. CASE GetEnts(t)
    <3>1. ASSUME NEW F, NEW P, NEW X, NEW f, StartIO(t, F, P, X, f)
          PROVE  hash'[b] = hash[b]
      <4>1. /\ \A c \in Needed(t) : hash[c] = NoEnt
            /\ hash' = [c \in Blocks |-> IF c \in Needed(t) THEN f[c] ELSE hash[c]]
        BY <3>1 DEF StartIO
      <4> QED
        BY <1>1, <4>1
    <3>2. \/ hash' = hash
          \/ \E F, P, X, f : StartIO(t, F, P, X, f)
      BY <2>2, Zenon DEF GetEnts, GetEntsTimeout, GetEntsShort, InsertPanic
    <3> QED
      BY <3>1, <3>2
  <2>3. CASE Install(t)
    <3>1. ReadyToInstall(t)
      BY <2>3, FillReady DEF Install, Filling
    <3>2. b \notin OldNumbers(t)
      BY <1>1, <3>1 DEF ReadyToInstall
    <3>3. hash' = [c \in Blocks |-> IF c \in OldNumbers(t) THEN NoEnt ELSE hash[c]]
      BY <2>3 DEF Install
    <3> QED
      BY <1>1, <3>2, <3>3
  <2>4. CASE GiveUp(t)
    <3>1. ReadyToInstall(t)
      BY <2>4, FillReady DEF GiveUp, Filling
    <3>2. b \notin OldNumbers(t) \cup need[t]
      BY <1>1, <3>1 DEF ReadyToInstall
    <3>3. hash' = [c \in Blocks |-> IF c \in OldNumbers(t) \cup need[t] THEN NoEnt
                                                                     ELSE hash[c]]
      BY <2>4 DEF GiveUp
    <3> QED
      BY <1>1, <3>2, <3>3
  <2>5. CASE FlushDevice2(t) \/ FlushDeviceDone(t) \/ FlushDone(t) \/ SetInfoDone(t)
    BY <2>5 DEF FlushDevice2, FlushDeviceDone, FlushDone, StartFlush, SetInfoDone, SetInfo
  <2>6. CASE RemoveDone(t)
    BY <2>6 DEF RemoveDone, Structure, RemoveAlone
  <2>7. CASE \E e \in Ents : FlushClone(t, e) \/ FlushData(t, e)
    BY <2>7 DEF FlushClone, FlushData
  <2> QED
    BY <1>2, <2>1, <2>2, <2>3, <2>4, <2>5, <2>6, <2>7 DEF CallStep
<1>3. ASSUME NEW t \in Threads, Client(t)
      PROVE  hash'[b] = hash[b]
  <2>1. CASE DiscardDeviceBlocks(t)
    BY <2>1 DEF DiscardDeviceBlocks
  <2> QED
    BY <1>3, <2>1 DEF Client, Call, flush_device, flush_blocks, force_cache_flush,
              StartFlush, remove_cached_device_blocks, BeginModify, EndModify,
              mark_blocks_dirty, release_block, set_blocks_info, SetInfo
<1> QED
  BY <1>2, <1>3 DEF Next

(***************************************************************************)
(* The pointer get_block returned stays good until its block is released   *)
(* or handed to the log.                                                   *)
(***************************************************************************)
THEOREM CachePointerStaysGood == Spec => PointerStaysGood
<1>1. IInv /\ IInv' /\ [Next]_vars => [\A t \in Threads, b \in Blocks :
          b \in holds[t] /\ b \in holds'[t] =>
              hash'[b] = hash[b] /\ bnum'[hash[b]] = b]_vars
  <2> SUFFICES ASSUME IInv, IInv', Next, NEW t \in Threads, NEW b \in Blocks,
                      b \in holds[t], b \in holds'[t]
               PROVE  hash'[b] = hash[b] /\ bnum'[hash[b]] = b
    OBVIOUS
  <2>1. hash'[b] = hash[b]
    BY HeldStaysFound
  <2>2. bnum'[hash'[b]] = b
    BY DEF IInv, Structure, ClientsTellTruth
  <2> QED
    BY <2>1, <2>2
<1> QED
  BY <1>1, CacheInvariant, PTL DEF Spec, PointerStaysGood
=============================================================================
