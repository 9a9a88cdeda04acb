------------------------------- MODULE Volume -------------------------------
(***************************************************************************)
(* A myfs volume over its life: created (mount.c, bitmap.c, inode.c),      *)
(* mounted, used, unmounted, and cut off by a crash at any moment.         *)
(*                                                                         *)
(* The super block is read and written directly; all other blocks go       *)
(* through the block cache (module BlockCache), which may write a dirty    *)
(* block at any time and writes them all when the volume is unmounted.  A  *)
(* crash loses the cache and the memory.  What the device has room for is  *)
(* arbitrary: bitmap.c rounds the map's size and its check of the map      *)
(* down.                                                                   *)
(*                                                                         *)
(* Block 0 is the super block, blocks 1 to NumBitmapBlocks hold the block  *)
(* map; Root stands for the block of the inode table that has the root     *)
(* directory's inode, or nothing.  A block of the map holds the set of the *)
(* blocks it says are in use.  Files take and give back one block at a     *)
(* time (module DataStream).  The journal does nothing (journal.c).        *)
(*                                                                         *)
(* Creation happens in a process of its own (makefs.c), which ends when it *)
(* fails: the 0xff it wants in block 0 is then still in the cache, and the *)
(* device keeps what it had.  A mount that is refused, or that dies over a *)
(* root inode without its magic number, changes nothing on the device.     *)
(***************************************************************************)
EXTENDS Integers, FiniteSets

CONSTANTS NumBlocks,    \* dsb.num_blocks
          ByteBits,     \* bits in a byte
          BlockBytes,   \* bytes in a block
          WordBits,     \* bits sanity_check_bitmap looks at at a time
          InodeBlocks,  \* the blocks of the inode table
          FileBlocks,   \* bound: the blocks files may get
          NoSuper, NoMem

BitsPerBlock == ByteBits * BlockBytes

\* Not rounded up where NumBlocks is just past a multiple of BitsPerBlock: the
\* last blocks, fewer than a byte has bits, then have no bit in the map.
NumBitmapBlocks == ((NumBlocks \div ByteBits) + BlockBytes - 1) \div BlockBytes
HasBit == {i \in 0 .. NumBlocks - 1 : i < NumBitmapBlocks * BitsPerBlock}

\* The inode map, the inode table and the root directory follow the map.
InodeMapBlocks == ((InodeBlocks \div ByteBits) \div BlockBytes) + 1
InodesStart == NumBitmapBlocks + 1 + InodeMapBlocks
RootBlock == InodesStart + InodeBlocks

ASSUME VolumeAssumption ==
    /\ NumBlocks \in Nat /\ ByteBits \in Nat \ {0, 1} /\ BlockBytes \in Nat \ {0}
    /\ WordBits \in Nat \ {0} /\ InodeBlocks \in Nat \ {0}
    /\ RootBlock \in HasBit                \* myfs_create_fs fails on a smaller device
    /\ FileBlocks \subseteq RootBlock + 1 .. NumBlocks - 1

VARIABLES super,    \* the used_blocks of a super block on the device, or NoSuper
          disk,     \* the other blocks on the device
          dirty,    \* the blocks the cache has not written yet
          mem,      \* myfs_info: used_blocks and the block map, or NoMem
          phase,    \* what is going on
          kept,     \* history: the map at a completed unmount, or NoMem
          safe,     \* history: in use at an unmount and not freed since
          missed    \* history: in use at the last mount and not counted by it

vars == <<super, disk, dirty, mem, phase, kept, safe, missed>>

Root == NumBitmapBlocks + 1
RootDir == {0}
Blocks == 1 .. Root
BitsOf(b) == {i \in HasBit : i \div BitsPerBlock = b - 1}

Phases == {"down", "map", "inodes", "root", "created", "up", "unmounting",
           "overrun"}

\* A device nobody has made a volume on.
Init ==
    /\ super = NoSuper /\ disk = [b \in Blocks |-> {}]
    /\ dirty = [b \in {} |-> {}] /\ mem = NoMem
    /\ phase = "down" /\ kept = NoMem /\ safe = {} /\ missed = {}
-----------------------------------------------------------------------------
\* cached_write of some blocks.
Cached(writes) ==
    [b \in DOMAIN dirty \cup DOMAIN writes |->
        IF b \in DOMAIN writes THEN writes[b] ELSE dirty[b]]

\* A mistake: what is written back is always the beginning of the map.
WriteBackMut(bv, start, n) ==
    LET first == ((start \div ByteBits) \div BlockBytes) + 1
        len == ((n \div ByteBits) \div BlockBytes) + 1
    IN  Cached([b \in first .. first + len - 1 |->
                   {i \in BitsOf(b) : i - (first - 1) * BitsPerBlock \in bv}])

\* The bitmap blocks an allocation or a release of n blocks writes back: as
\* many as n bits fill, and one, from the one that has the first bit.
WriteBack(bv, start, n) ==
    LET first == ((start \div ByteBits) \div BlockBytes) + 1
        len == ((n \div ByteBits) \div BlockBytes) + 1
    IN  Cached([b \in first .. first + len - 1 |-> bv \cap BitsOf(b)])

\* GetFreeRangeOfBits on a volume being made returns the run after the last
\* one.
FirstFree == CHOOSE i \in 0 .. NumBlocks :
                 /\ i \notin mem.bv
                 /\ \A j \in 0 .. i - 1 : j \in mem.bv

write_super_block(used) == super' = used

Taken(start, n) ==
    [used |-> mem.used + n, bv |-> mem.bv \cup (start .. start + n - 1)]
-----------------------------------------------------------------------------
(***************************************************************************)
(* myfs_create_fs.                                                         *)
(***************************************************************************)
\* myfs_create_storage_map: the super block and the map are in use.
FreshMap == 0 .. NumBitmapBlocks

CreateMap ==
    /\ phase = "down"
    /\ mem' = [used |-> NumBitmapBlocks + 1, bv |-> FreshMap]
    /\ dirty' = Cached([b \in 1 .. NumBitmapBlocks |-> FreshMap \cap BitsOf(b)])
    /\ phase' = "map" /\ kept' = NoMem /\ safe' = {} /\ missed' = {}
    /\ UNCHANGED <<super, disk>>

\* myfs_create_inodes: the inode map, then the inode table, which are
\* cleared.  Each run is written back by itself.
CreateInodeMap ==
    LET start == FirstFree IN
    /\ phase = "map"
    /\ mem' = Taken(start, InodeMapBlocks)
    /\ dirty' = WriteBack(mem'.bv, start, InodeMapBlocks)
    /\ phase' = "inodes"
    /\ UNCHANGED <<super, disk, kept, safe, missed>>

CreateInodes ==
    LET start == FirstFree IN
    /\ phase = "inodes"
    /\ mem' = Taken(start, InodeBlocks)
    /\ dirty' = [b \in DOMAIN WriteBack(mem'.bv, start, InodeBlocks) \cup {Root} |->
                   IF b = Root THEN {} ELSE WriteBack(mem'.bv, start, InodeBlocks)[b]]
    /\ phase' = "root"
    /\ UNCHANGED <<super, disk, kept, safe, missed>>

\* myfs_create_root_dir takes a block, and write_super_block follows.
CreateRoot ==
    LET start == FirstFree IN
    /\ phase = "root"
    /\ mem' = Taken(start, 1)
    /\ dirty' = [b \in DOMAIN WriteBack(mem'.bv, start, 1) \cup {Root} |->
                   IF b = Root THEN RootDir ELSE WriteBack(mem'.bv, start, 1)[b]]
    /\ write_super_block(mem'.used)
    /\ phase' = "created"
    /\ UNCHANGED <<disk, kept, safe, missed>>

\* A step of creation fails, or the machine does: the process is gone.
Crash ==
    /\ phase \notin {"down", "overrun"}
    /\ mem' = NoMem /\ dirty' = [b \in {} |-> {}]
    /\ phase' = "down" /\ kept' = NoMem
    /\ UNCHANGED <<super, disk, safe, missed>>
-----------------------------------------------------------------------------
(***************************************************************************)
(* myfs_mount: the super block is sane, the maps are read, the count is    *)
(* made anew, and the root directory is there.                             *)
(***************************************************************************)
\* read_super_block finds one, and super_block_is_sane lets it pass.
SuperIsSane == super # NoSuper

\* The root directory's inode has its magic number (myfs_read_vnode).
RootIsThere == disk[Root] = RootDir

\* The map that myfs_init_storage_map reads.
OnDisk == UNION {disk[b] : b \in 1 .. NumBitmapBlocks}

\* sanity_check_bitmap looks at whole words only.
Unseen(bv) == {i \in bv : i >= (NumBlocks \div WordBits) * WordBits}
Recount(bv) == Cardinality(bv \ Unseen(bv))

\* A mistake: the super block's count is believed.
myfs_mountMut ==
    /\ phase = "down" /\ SuperIsSane /\ RootIsThere
    /\ mem' = [used |-> super, bv |-> OnDisk \cup {0}]
    /\ dirty' = IF 0 \in OnDisk THEN dirty ELSE WriteBack(OnDisk \cup {0}, 0, 1)
    /\ phase' = "up" /\ kept' = NoMem /\ missed' = {}
    /\ UNCHANGED <<super, disk, safe>>

\* A super block that is not in use is patched up.
myfs_mount ==
    LET bv == OnDisk \cup {0} IN
    /\ phase = "down" /\ SuperIsSane /\ RootIsThere
    /\ mem' = [used |-> Recount(bv), bv |-> bv]
    /\ dirty' = IF 0 \in OnDisk THEN dirty ELSE WriteBack(bv, 0, 1)
    /\ phase' = "up" /\ kept' = NoMem /\ missed' = Unseen(mem'.bv)
    /\ UNCHANGED <<super, disk, safe>>

(***************************************************************************)
(* A mounted volume.                                                       *)
(***************************************************************************)
myfs_allocate_blocks(i) ==
    /\ phase = "up" /\ i \in HasBit /\ i \notin mem.bv
    /\ 1 <= NumBlocks - mem.used
    /\ mem' = Taken(i, 1)
    /\ dirty' = WriteBack(mem'.bv, i, 1)
    /\ UNCHANGED <<super, disk, phase, kept, safe, missed>>

\* A block without a bit: the search reads past the end of the map, may find
\* the block free, sets the bit there, and writes memory that is not the
\* map's over the block after the map's last.
OverrunMap(i) ==
    /\ phase = "up" /\ i \notin HasBit
    /\ 1 <= NumBlocks - mem.used
    /\ phase' = "overrun"
    /\ UNCHANGED <<super, disk, dirty, mem, kept, safe, missed>>

\* The count goes down by the number of bitmap blocks written.
myfs_free_blocks(i) ==
    LET bv == mem.bv \ {i}
        len == ((1 \div ByteBits) \div BlockBytes) + 1 IN
    /\ phase = "up" /\ i \in mem.bv
    /\ mem' = [used |-> mem.used - len, bv |-> bv]
    /\ dirty' = WriteBack(bv, i, 1)
    /\ safe' = safe \ {i}
    /\ UNCHANGED <<super, disk, phase, kept, missed>>

\* A call that changes a file's size writes the super block at its end.
FileDone ==
    /\ phase = "up" /\ write_super_block(mem.used)
    /\ UNCHANGED <<disk, dirty, mem, phase, kept, safe, missed>>

\* The cache writes a block: to make room, for sys_sync, for an unmount.
WriteOut(b) ==
    /\ b \in DOMAIN dirty
    /\ disk' = [disk EXCEPT ![b] = dirty[b]]
    /\ dirty' = [c \in DOMAIN dirty \ {b} |-> dirty[c]]
    /\ UNCHANGED <<super, mem, phase, kept, safe, missed>>

\* myfs_unmount: the maps are let go, the cache writes what it has
\* (remove_cached_device_blocks), and the super block comes last.
UnmountBegin ==
    /\ phase \in {"created", "up"}
    /\ phase' = "unmounting"
    /\ UNCHANGED <<super, disk, dirty, mem, kept, safe, missed>>

\* A mistake: the cache's blocks are thrown away (NO_WRITES).
UnmountEndMut ==
    /\ phase = "unmounting"
    /\ write_super_block(mem.used)
    /\ dirty' = [b \in {} |-> {}]
    /\ kept' = mem /\ safe' = mem.bv /\ mem' = NoMem
    /\ phase' = "down"
    /\ UNCHANGED <<disk, missed>>

UnmountEnd ==
    /\ phase = "unmounting" /\ DOMAIN dirty = {}
    /\ write_super_block(mem.used)
    /\ kept' = mem /\ safe' = mem.bv /\ mem' = NoMem
    /\ phase' = "down"
    /\ UNCHANGED <<disk, dirty, missed>>
-----------------------------------------------------------------------------
Next ==
    \/ CreateMap \/ CreateInodeMap \/ CreateInodes \/ CreateRoot \/ Crash
    \/ myfs_mount \/ UnmountBegin \/ UnmountEnd \/ FileDone
    \/ \E i \in FileBlocks :
          myfs_allocate_blocks(i) \/ OverrunMap(i) \/ myfs_free_blocks(i)
    \/ \E b \in Blocks : WriteOut(b)

Spec == Init /\ [][Next]_vars
-----------------------------------------------------------------------------
TypeOK ==
    /\ super \in Int \cup {NoSuper} /\ phase \in Phases
    /\ disk \in [Blocks -> SUBSET HasBit]
    /\ DOMAIN dirty \subseteq Blocks
    /\ dirty \in [DOMAIN dirty -> SUBSET HasBit]
    /\ phase # "down" => mem \in [used : Int, bv : SUBSET HasBit]
    /\ phase = "down" => DOMAIN dirty = {}
    /\ safe \subseteq HasBit /\ missed \subseteq HasBit

\* What the next mount of a volume finds is what the last unmount let go:
\* after a completed unmount the device has a super block with the right
\* count, the whole block map and the root directory (the order that the
\* comment on myfs_unmount calls very important).
MountFindsAll ==
    phase = "down" /\ kept # NoMem =>
    /\ super = kept.used
    /\ OnDisk = kept.bv
    /\ RootIsThere

\* A mounted volume's used_blocks is the number of blocks its map has in use,
\* whatever a crash left in the super block and in the map and however many
\* come and go, but for those in the last partial word that were in use at
\* the mount (sanity_check_bitmap).
UsedExact ==
    phase = "up" => mem.used + Cardinality(missed) = Cardinality(mem.bv)

\* After the check at a mount used_blocks is right: "super block sez %ld used
\* blocks but it's really %ld" (sanity_check_bitmap).
UsedIsReal == phase = "up" => mem.used = Cardinality(mem.bv)

\* Every block of the volume has its bit: the map has as many blocks as
\* "rounding up the number of blocks on the disk to the nearest multiple of 8
\* times the block size" gives (myfs_create_storage_map), and nobody writes
\* past its end.
MapLargeEnough == phase # "overrun"

\* A block in use at a completed unmount and not freed since is in use after
\* every later crash and mount: writing back one block of the map never
\* forgets what another one or an earlier session put there.
SafeOverCrashes ==
    /\ phase \in {"up", "unmounting"} => safe \subseteq mem.bv
    /\ phase = "down" => safe \subseteq OnDisk

(***************************************************************************)
(* The inductive invariant: what the cache shows of the map is the map in  *)
(* memory.  Only between two allocations of creation may one block be      *)
(* behind, the one the next block's bit is in: a run that crosses into it  *)
(* is not written back there.                                              *)
(***************************************************************************)
Shown(b) == IF b \in DOMAIN dirty THEN dirty[b] ELSE disk[b]

MapBlocks == 1 .. NumBitmapBlocks
Creating == {"map", "inodes", "root", "created"}
BlockOf(i) == (i \div BitsPerBlock) + 1

Behind == CASE phase = "inodes" -> {BlockOf(InodesStart)}
            [] phase = "root"   -> {BlockOf(RootBlock)}
            [] OTHER            -> {}

\* Creation takes the blocks in order.
InOrder ==
    /\ phase = "map" => mem.bv = FreshMap
    /\ phase = "inodes" => mem.bv = 0 .. InodesStart - 1
    /\ phase = "root" => mem.bv = 0 .. RootBlock - 1

MapShown ==
    /\ \A b \in MapBlocks :
          /\ disk[b] \subseteq BitsOf(b)
          /\ Shown(b) \subseteq BitsOf(b)
          /\ phase # "down" /\ b \notin Behind => Shown(b) = mem.bv \cap BitsOf(b)
    /\ phase \in {"created", "up", "unmounting"} => Shown(Root) = RootDir

SafeShown ==
    /\ phase \in Creating => safe = {}
    /\ \A b \in MapBlocks : /\ safe \cap BitsOf(b) \subseteq disk[b]
                            /\ safe \cap BitsOf(b) \subseteq Shown(b)

IInv ==
    /\ TypeOK /\ InOrder /\ MapShown /\ SafeShown
    /\ MountFindsAll /\ UsedExact /\ SafeOverCrashes
=============================================================================
