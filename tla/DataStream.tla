----------------------------- MODULE DataStream -----------------------------
(***************************************************************************)
(* How myfs keeps the contents of its files: dstream.c over the block map  *)
(* (bitmap.c) and the inode map (inode.c).                                 *)
(*                                                                         *)
(* A file is named by its inode number.  Its inode is in core (mi) while   *)
(* its vnode is, and in the inode table on disk (ondisk), where            *)
(* update_inode puts it; the indirect block of a file is a block of the    *)
(* disk.  Blocks are allocated and freed one at a time, as dstream.c does. *)
(* myfs is not meant for several threads (README), so that a call is one   *)
(* step.  Left out: what the files contain, directories, the locks of the  *)
(* block cache and the double indirect block, which grow_dstream never     *)
(* allocates.                                                              *)
(***************************************************************************)
EXTENDS BitVector, Sequences

CONSTANTS bsize, NUM_DIRECT_BLOCKS,
          max_index,     \* addresses in an indirect block
          num_blocks, num_inodes,
          Reserved,      \* super block, maps, inode table and root directory
          ReservedInodes,
          WriteEnds,     \* pos + len of the writes
          Sizes          \* the sizes files are set to

Blocks == 0 .. num_blocks - 1
Inodes == 0 .. num_inodes - 1
Files == Inodes \ ReservedInodes

DIRECT_SIZE == NUM_DIRECT_BLOCKS * bsize
INDIRECT_SIZE == max_index * bsize
MAX_INDIRECT_RANGE == DIRECT_SIZE + INDIRECT_SIZE
MAX_DOUBLE_INDIRECT_RANGE == MAX_INDIRECT_RANGE + max_index * INDIRECT_SIZE

ASSUME StreamAssumption ==
    /\ bsize \in Nat /\ bsize > 1 /\ NUM_DIRECT_BLOCKS \in Nat /\ max_index \in Nat
    /\ num_blocks \in Nat /\ num_inodes \in Nat
    /\ 0 \in Reserved /\ Reserved \subseteq Blocks
    /\ 0 \in ReservedInodes /\ ReservedInodes \subseteq Inodes
    /\ WriteEnds \subseteq Nat \ {0} /\ Sizes \subseteq Nat

VARIABLES
    bbm, used_blocks,   \* the block map and the super block's count
    inode_map,
    mi, ondisk,         \* the inodes in core and on disk
    indirects,          \* the addresses in each indirect block
    dead,               \* the process has stopped
    miscut              \* some file was cut where shrink_dstream is wrong

vars == <<bbm, used_blocks, inode_map, mi, ondisk, indirects, dead, miscut>>

NoAddrs == [i \in 0 .. max_index - 1 |-> 0]

Blank == [size |-> 0, indirect |-> 0,
          direct |-> [i \in 0 .. NUM_DIRECT_BLOCKS - 1 |-> 0]]

Init ==
    /\ bbm = NewBV(num_blocks, Reserved)
    /\ used_blocks = Cardinality(Reserved)
    /\ inode_map = NewBV(num_inodes, ReservedInodes)
    /\ mi = [f \in Files |-> Blank]
    /\ ondisk = [f \in Files |-> Blank]
    /\ indirects = [b \in Blocks |-> NoAddrs]
    /\ dead = FALSE
    /\ miscut = FALSE

Live(f) == f \in inode_map.bits
-----------------------------------------------------------------------------
(***************************************************************************)
(* The part of the state a call on file f works on.                        *)
(***************************************************************************)
View(f) == [bbm |-> bbm, used |-> used_blocks, ino |-> mi[f],
            tab |-> indirects, err |-> FALSE]

\* The contents of a block no inode leads to are forgotten: get_empty_block
\* clears a block before it becomes an indirect block again.
Reachable(tab) ==
    [b \in Blocks |->
        IF \E g \in Files : b \in {mi'[g].indirect, ondisk'[g].indirect} \ {0}
        THEN tab[b] ELSE NoAddrs]

Store(f, s, core, disk) ==
    /\ bbm' = s.bbm
    /\ used_blocks' = s.used
    /\ mi' = [mi EXCEPT ![f] = core]
    /\ ondisk' = [ondisk EXCEPT ![f] = disk]
    /\ indirects' = Reachable(s.tab)

\* r is what the block map gave.
Allocated(s, r) ==
    IF r.start = -1
    THEN [addr |-> -1, s |-> [s EXCEPT !.bbm = r.bv, !.err = TRUE]]
    ELSE [addr |-> r.start, s |-> [s EXCEPT !.bbm = r.bv, !.used = @ + 1]]

(***************************************************************************)
(* myfs_allocate_blocks of one block, EXACT_ALLOCATION.                    *)
(***************************************************************************)
AllocateBlock(s) ==
    IF s.used >= num_blocks THEN [addr |-> -1, s |-> [s EXCEPT !.err = TRUE]]
    ELSE Allocated(s, GetFreeRangeOfBits(s.bbm, 1))

\* myfs_free_blocks, one block after the other.
FreeBlock(s, b) ==
    [s EXCEPT !.bbm = [UnSetRangeBV(@, b, 1) EXCEPT !.is_full = FALSE],
              !.used = @ - 1]

FreeBlocks(s, bs) ==
    LET freed[k \in 0 .. Len(bs)] ==
            IF k = 0 THEN s ELSE FreeBlock(freed[k - 1], bs[k])
    IN  freed[Len(bs)]
-----------------------------------------------------------------------------
RoundUp(n) == ((n + bsize - 1) \div bsize) * bsize

\* A new block a at the end of the direct range, at the end of the indirect
\* range, and as the indirect block, cleared by get_empty_block.
AppendDirect(s, a) ==
    IF a.addr = -1 THEN a.s
    ELSE [a.s EXCEPT !.ino.direct[s.ino.size \div bsize] = a.addr,
                     !.ino.size = @ + bsize]

AppendIndirect(s, a) ==
    IF a.addr = -1 THEN a.s
    ELSE [a.s EXCEPT !.tab[s.ino.indirect][(s.ino.size - DIRECT_SIZE) \div bsize]
                         = a.addr,
                     !.ino.size = @ + bsize]

AttachIndirect(a) ==
    IF a.addr = -1 THEN a.s
    ELSE [a.s EXCEPT !.ino.indirect = a.addr, !.tab[a.addr] = NoAddrs]

\* A mistake: every call that grows the indirect range takes a new block for it.
WithIndirectMut(s) == AttachIndirect(AllocateBlock(s))

WithIndirect(s) ==
    IF s.ino.indirect # 0 THEN s ELSE AttachIndirect(AllocateBlock(s))

GrowIndirect(s) ==
    IF s.err THEN s ELSE AppendIndirect(s, AllocateBlock(s))

GrowBlock(s) ==
    IF s.err THEN s
    ELSE IF s.ino.size < DIRECT_SIZE THEN AppendDirect(s, AllocateBlock(s))
    ELSE IF s.ino.size < MAX_INDIRECT_RANGE THEN GrowIndirect(WithIndirect(s))
    ELSE [s EXCEPT !.err = TRUE]      \* E2BIG

\* The size is set in the end, if all blocks could be had.
Sized(s, new_size) == IF s.err THEN s ELSE [s EXCEPT !.ino.size = new_size]

(***************************************************************************)
(* grow_dstream: block after block.  When one cannot be had the file stays *)
(* as long as it got.                                                      *)
(***************************************************************************)
grow_dstream(s, new_size) ==
    LET cur == RoundUp(s.ino.size)
        n == (RoundUp(new_size) - cur) \div bsize
        grown[k \in 0 .. n] == IF k = 0 THEN [s EXCEPT !.ino.size = cur]
                               ELSE GrowBlock(grown[k - 1])
    IN  IF new_size > MAX_DOUBLE_INDIRECT_RANGE THEN [s EXCEPT !.err = TRUE]
        ELSE Sized(grown[n], new_size)

\* "grow_dstream: direct[%d] == %ld, not zero!"
GrowDies(ino, new_size) ==
    LET cur == RoundUp(ino.size) IN
    /\ new_size <= MAX_DOUBLE_INDIRECT_RANGE
    /\ RoundUp(new_size) # cur /\ cur < DIRECT_SIZE
    /\ ino.direct[cur \div bsize] # 0
-----------------------------------------------------------------------------
\* The addresses from index i on, up to the first that is zero.
From(addrs, i) ==
    LET last == Max(DOMAIN addrs \cup {-1})
        stop == Min({k \in i .. last : addrs[k] = 0} \cup {last + 1})
    IN  [k \in 1 .. stop - i |-> addrs[i + k - 1]]

\* A mistake: rounding down.
ShrunkSizeMut(new_size) == (new_size \div bsize) * bsize

\* The new size in whole blocks, as shrink_dstream computes it.
ShrunkSize(new_size) == ((new_size - 1 + bsize - 1) \div bsize) * bsize

\* Mistakes: the inode keeps the address of the indirect block or of the
\* direct blocks that were freed.
ShrinkIndirectMut(s, size) ==
    LET first == IF size > DIRECT_SIZE THEN (size - DIRECT_SIZE) \div bsize ELSE 0
        freed == FreeBlocks(s, From(s.tab[s.ino.indirect], first))
    IN  IF size >= MAX_INDIRECT_RANGE \/ s.ino.indirect = 0 THEN s
        ELSE IF first # 0 THEN freed ELSE FreeBlock(freed, s.ino.indirect)

ShrinkDirectMut(s, size) ==
    IF size >= DIRECT_SIZE THEN s
    ELSE FreeBlocks(s, From(s.ino.direct, size \div bsize))

(***************************************************************************)
(* shrink_dstream: the indirect range, the indirect block if nothing is    *)
(* left in it, the direct range.  Addresses in the indirect block stay.    *)
(***************************************************************************)
ShrinkIndirect(s, size) ==
    LET first == IF size > DIRECT_SIZE THEN (size - DIRECT_SIZE) \div bsize ELSE 0
        freed == FreeBlocks(s, From(s.tab[s.ino.indirect], first))
    IN  IF size >= MAX_INDIRECT_RANGE \/ s.ino.indirect = 0 THEN s
        ELSE IF first # 0 THEN freed
        ELSE [FreeBlock(freed, s.ino.indirect) EXCEPT !.ino.indirect = 0]

ShrinkDirect(s, size) ==
    LET first == size \div bsize
        bs == From(s.ino.direct, first)
    IN  IF size >= DIRECT_SIZE THEN s
        ELSE [FreeBlocks(s, bs) EXCEPT !.ino.direct =
                 [i \in DOMAIN @ |-> IF i \in first .. first + Len(bs) - 1
                                     THEN 0 ELSE @[i]]]

shrink_dstream(s, new_size) ==
    LET size == ShrunkSize(new_size)
        shrunk == IF size = RoundUp(s.ino.size) THEN s
                  ELSE ShrinkDirect(ShrinkIndirect(s, size), size)
    IN  [shrunk EXCEPT !.ino.size = new_size]
-----------------------------------------------------------------------------
\* update_inode, if the call succeeded.
UpdateInode(f, s) == Store(f, s, s.ino, IF s.err THEN ondisk[f] ELSE s.ino)

\* myfs_write_data_stream up to position end.
Write(f, end) ==
    /\ ~dead /\ Live(f)
    /\ end > mi[f].size => ~GrowDies(mi[f], end)
    /\ LET s == IF end > mi[f].size THEN grow_dstream(View(f), end) ELSE View(f)
       IN  UpdateInode(f, s)
    /\ UNCHANGED <<inode_map, dead, miscut>>

(***************************************************************************)
(* The cuts of a file that shrink_dstream gets wrong.  One byte past a     *)
(* block boundary the block of that byte goes, for the size is rounded as  *)
(* (new_size - 1 + bsize - 1); inside the indirect range the addresses of  *)
(* the blocks that are freed stay in the indirect block.  Once a file was  *)
(* cut so, the properties below promise nothing more: blocks can then be   *)
(* freed twice (OneUsePerBlock is refuted) and addresses be left behind.   *)
(***************************************************************************)
Miscut(size, new_size) ==
    /\ new_size < size
    /\ \/ new_size % bsize = 1
       \/ new_size > DIRECT_SIZE /\ RoundUp(new_size) # RoundUp(size)

\* A mistake: the inode is not written back after shrinking.
SetFileSizeMut(f, new_size) ==
    /\ ~dead /\ Live(f) /\ new_size < mi[f].size
    /\ LET s == shrink_dstream(View(f), new_size)
       IN  Store(f, s, s.ino, ondisk[f])
    /\ miscut' = (miscut \/ Miscut(mi[f].size, new_size))
    /\ UNCHANGED <<inode_map, dead>>

\* myfs_wstat with WSTAT_SIZE: myfs_set_file_size.
SetFileSize(f, new_size) ==
    /\ ~dead /\ Live(f) /\ new_size # mi[f].size
    /\ new_size > mi[f].size => ~GrowDies(mi[f], new_size)
    /\ LET s == IF new_size < mi[f].size THEN shrink_dstream(View(f), new_size)
                ELSE grow_dstream(View(f), new_size)
       IN  UpdateInode(f, s)
    /\ miscut' = (miscut \/ Miscut(mi[f].size, new_size))
    /\ UNCHANGED <<inode_map, dead>>

\* make_file: myfs_allocate_inode and update_inode.
Create ==
    LET r == GetFreeRangeOfBits(inode_map, 1) IN
    /\ ~dead /\ r.start # -1
    /\ inode_map' = r.bv
    /\ mi' = [mi EXCEPT ![r.start] = Blank]
    /\ ondisk' = [ondisk EXCEPT ![r.start] = Blank]
    /\ UNCHANGED <<bbm, used_blocks, indirects, dead, miscut>>

\* No inode left: make_file returns the positive ENOSPC, myfs_create tests
\* "ret < 0" and goes on with a pointer that was never set.
CreateDies ==
    LET r == GetFreeRangeOfBits(inode_map, 1) IN
    /\ ~dead /\ r.start = -1
    /\ inode_map' = r.bv
    /\ dead' = TRUE
    /\ UNCHANGED <<bbm, used_blocks, mi, ondisk, indirects, miscut>>

\* myfs_remove_vnode.  The inode on disk is not read before the next create
\* writes it.
Remove(f) ==
    /\ ~dead /\ Live(f)
    /\ Store(f, shrink_dstream(View(f), 0), Blank, Blank)
    /\ inode_map' = UnSetBV(inode_map, f)
    /\ UNCHANGED <<dead, miscut>>

\* The vnode leaves the core (myfs_release_vnode) and is read again.
Reload(f) ==
    /\ ~dead /\ Live(f)
    /\ Store(f, View(f), ondisk[f], ondisk[f])
    /\ UNCHANGED <<inode_map, dead, miscut>>

Next ==
    \/ Create \/ CreateDies
    \/ \E f \in Files :
         \/ Remove(f) \/ Reload(f)
         \/ \E n \in WriteEnds : Write(f, n)
         \/ \E n \in Sizes : SetFileSize(f, n)

Spec == Init /\ [][Next]_vars
-----------------------------------------------------------------------------
\* file_pos_to_disk_addr for block i of a file.
AddrOf(ino, i) ==
    IF i < NUM_DIRECT_BLOCKS THEN ino.direct[i]
    ELSE indirects[ino.indirect][i - NUM_DIRECT_BLOCKS]

NumBlocksOf(ino) == RoundUp(ino.size) \div bsize

\* The places a disk block is used for: data of a file, or (-1) its indirect
\* block.
Uses(f) ==
    {<<f, i>> : i \in 0 .. NumBlocksOf(mi[f]) - 1}
        \cup (IF mi[f].indirect # 0 THEN {<<f, -1>>} ELSE {})

AllUses == UNION {Uses(f) : f \in Files}

BlockOf(u) == IF u[2] = -1 THEN mi[u[1]].indirect
                                   ELSE AddrOf(mi[u[1]], u[2])

(***************************************************************************)
(* No disk block serves two purposes: two files, two places of one file,   *)
(* or a file and the super block, maps or inodes.  myfs_free_blocks and    *)
(* real_allocate_blocks hand blocks around on that footing.                *)
(***************************************************************************)
OneUsePerBlock ==
    /\ \A u, v \in AllUses : BlockOf(u) = BlockOf(v) => u = v
    /\ \A u \in AllUses : BlockOf(u) \notin Reserved

(***************************************************************************)
(* The new file size is rounded "up ... to the next block boundary"        *)
(* (shrink_dstream, dstream.c:362): every byte below the size of a file    *)
(* has a block, and a read or write inside the file never ends at address  *)
(* 0, which is the super block.                                            *)
(***************************************************************************)
RoundedUp == \A f \in Files :
    \A i \in 0 .. NumBlocksOf(mi[f]) - 1 : AddrOf(mi[f], i) # 0

(***************************************************************************)
(* No disk block serves two purposes, whatever was written, cut, removed   *)
(* and read again and wherever the disk filled up, as long as no file was  *)
(* cut to a size that shrink_dstream gets wrong.                           *)
(***************************************************************************)
NoSharedBlock == ~miscut => OneUsePerBlock

(***************************************************************************)
(* The map covers the files, also after a call that ran out of space half  *)
(* way and after the inode was read again: a block that a file uses is set *)
(* in the map, and the super block's count is the number of bits set       *)
(* (real_allocate_blocks, myfs_free_blocks), as long as no file was cut to *)
(* a size that shrink_dstream gets wrong.  The converse does not hold: a   *)
(* write that fails half way keeps blocks that the inode on disk does not  *)
(* have, and they are lost when the inode is read again.                   *)
(***************************************************************************)
MapCovers == ~miscut =>
    /\ \A u \in AllUses : BlockOf(u) \in bbm.bits
    /\ used_blocks = Cardinality(bbm.bits)

\* The cut of this step took the block of the last byte of f.
LastByteCut(f) ==
    miscut' /\ mi'[f].size < mi[f].size /\ mi'[f].size % bsize = 1

(***************************************************************************)
(* Every byte below the size of a file has a block, over growth that stops *)
(* half way, reloads and cuts of every size, up to and with the first cut  *)
(* that shrink_dstream gets wrong.  Of that one the property says what it  *)
(* may cost: "round up the new file size to the next block boundary"       *)
(* (dstream.c:362) loses one byte past a boundary the block of the last    *)
(* byte, and no other; a read there goes to block 0, the super block.      *)
(***************************************************************************)
EveryByteMapped == [][~miscut => \A f \in Files :
    \A i \in 0 .. NumBlocksOf(mi'[f]) - 1 :
        AddrOf(mi[f], i)' = 0 => LastByteCut(f) /\ i = NumBlocksOf(mi'[f]) - 1]_vars

(***************************************************************************)
(* "returns: the number of the first free bit or -1 on failure":           *)
(* GetFreeRangeOfBits finds a free block whenever there is one, and what   *)
(* it finds is free, wherever the frees and failures have left the hint    *)
(* and the flag.                                                           *)
(***************************************************************************)
SearchFinds ==
    LET r == GetFreeRangeOfBits(bbm, 1) IN
    IF bbm.bits = Blocks THEN r.start = -1 ELSE r.start \in FreeRanges(bbm, 1)

(***************************************************************************)
(* No call runs into the assertion of grow_dstream that the next direct    *)
(* address is zero: what shrinking gave up was cleared, in core and on     *)
(* disk, as long as no file was cut to a size that shrink_dstream gets     *)
(* wrong.                                                                  *)
(***************************************************************************)
GrowNeverDies == ~miscut => \A f \in Files : \A n \in WriteEnds \cup Sizes :
    Live(f) /\ n > mi[f].size => ~GrowDies(mi[f], n)

(***************************************************************************)
(* What stays in a file stays where it is: growing, a failed write, a cut  *)
(* that shrink_dstream gets right and a reload of the inode never move a   *)
(* block that is inside the file before and after.                         *)
(***************************************************************************)
BlocksStay == [][~miscut' => \A f \in Files : Live(f) /\ Live(f)' =>
    \A i \in 0 .. Min({NumBlocksOf(mi[f]), NumBlocksOf(mi'[f])}) - 1 :
        AddrOf(mi[f], i)' = AddrOf(mi[f], i)]_vars
=============================================================================
