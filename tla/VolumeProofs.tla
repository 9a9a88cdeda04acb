---------------------------- MODULE VolumeProofs ----------------------------
(***************************************************************************)
(* A volume's block map survives unmounts, mounts and crashes, and its     *)
(* used_blocks is exact but for the last partial word, for every size of   *)
(* volume, block and inode table: also where the map has too few blocks,   *)
(* as long as nobody has written past its end.                             *)
(***************************************************************************)
EXTENDS Volume, FiniteSetTheorems, TLAPS

-----------------------------------------------------------------------------
(***************************************************************************)
(* Which block of the map a bit is in.                                     *)
(***************************************************************************)
LEMMA DivDiv ==
    ASSUME NEW a \in Nat, NEW b \in Nat \ {0}, NEW c \in Nat \ {0}
    PROVE  (a \div b) \div c = a \div (b * c)
OBVIOUS

\* A sum's quotient is that of its parts, or one more.
LEMMA DivSum ==
    ASSUME NEW a \in Nat, NEW b \in Nat, NEW d \in Nat \ {0}
    PROVE  /\ a \div d \in Nat /\ b \div d \in Nat /\ (a + b) \div d \in Nat
           /\ (a \div d) + (b \div d) <= (a + b) \div d
           /\ (a + b) \div d <= (a \div d) + (b \div d) + 1
OBVIOUS

LEMMA DivMono ==
    ASSUME NEW a \in Nat, NEW b \in Nat, NEW d \in Nat \ {0}, a <= b
    PROVE  a \div d <= b \div d
OBVIOUS

LEMMA DivBelow ==
    ASSUME NEW a \in Nat, NEW q \in Nat, NEW d \in Nat \ {0}, a < q * d
    PROVE  a \div d < q
OBVIOUS

LEMMA DivSmall ==
    ASSUME NEW d \in Nat \ {0}, d > 1
    PROVE  1 \div d = 0
OBVIOUS

LEMMA Sizes ==
    /\ NumBlocks \in Nat /\ InodeBlocks \in Nat \ {0}
    /\ BitsPerBlock \in Nat \ {0, 1} /\ NumBitmapBlocks \in Nat
    /\ InodeMapBlocks \in Nat \ {0}
    /\ InodesStart \in Nat /\ InodesStart = NumBitmapBlocks + 1 + InodeMapBlocks
    /\ RootBlock \in Nat /\ RootBlock = InodesStart + InodeBlocks
    /\ RootBlock < NumBlocks /\ RootBlock < NumBitmapBlocks * BitsPerBlock
    /\ NumBitmapBlocks * BitsPerBlock \in Nat
<1>1. BitsPerBlock \in Nat \ {0, 1}
  BY VolumeAssumption DEF BitsPerBlock
<1>2. NumBitmapBlocks \in Nat
  <2>1. NumBlocks \div ByteBits \in Nat
    BY VolumeAssumption, DivSum
  <2>2. (NumBlocks \div ByteBits) + BlockBytes - 1 \in Nat
    BY <2>1, VolumeAssumption
  <2> QED
    BY <2>2, VolumeAssumption, DivSum DEF NumBitmapBlocks
<1>3. InodeMapBlocks \in Nat \ {0}
  <2>1. InodeBlocks \div ByteBits \in Nat
    BY VolumeAssumption, DivSum
  <2>2. (InodeBlocks \div ByteBits) \div BlockBytes \in Nat
    BY <2>1, VolumeAssumption, DivSum
  <2> QED
    BY <2>2 DEF InodeMapBlocks
<1>4. RootBlock < NumBlocks /\ RootBlock < NumBitmapBlocks * BitsPerBlock
  BY VolumeAssumption DEF HasBit
<1> QED
  BY <1>1, <1>2, <1>3, <1>4, VolumeAssumption DEF RootBlock, InodesStart

\* The blocks with a bit are the first ones, at least up to the root
\* directory's.
LEMMA BitsExist ==
    /\ HasBit \subseteq 0 .. NumBlocks - 1
    /\ \A i \in Nat : i <= RootBlock => i \in HasBit
    /\ 0 .. RootBlock \subseteq HasBit
    /\ IsFiniteSet(HasBit)
<1>1. HasBit \subseteq 0 .. NumBlocks - 1
  BY DEF HasBit
<1>2. \A i \in Nat : i <= RootBlock => i \in HasBit
  <2> DEFINE m == NumBitmapBlocks * BitsPerBlock
  <2>1. m \in Nat /\ RootBlock < m /\ RootBlock < NumBlocks /\ RootBlock \in Nat
        /\ NumBlocks \in Nat /\ HasBit = {i \in 0 .. NumBlocks - 1 : i < m}
    BY Sizes DEF HasBit
  <2> HIDE DEF m
  <2> QED
    BY <2>1
<1>3. IsFiniteSet(0 .. NumBlocks - 1)
  BY Sizes, FS_Interval
<1>4. IsFiniteSet(HasBit)
  BY <1>1, <1>3, FS_Subset
<1>5. 0 .. RootBlock \subseteq HasBit
  BY <1>2, Sizes
<1> QED
  BY <1>1, <1>2, <1>4, <1>5

\* A block with a bit has it in one block of the map.
LEMMA BitPlace ==
    ASSUME NEW i \in HasBit
    PROVE  /\ BlockOf(i) \in MapBlocks /\ i \in Nat
           /\ i \in BitsOf(BlockOf(i))
           /\ \A b \in MapBlocks : i \in BitsOf(b) <=> b = BlockOf(i)
<1>1. i \in Nat /\ i < NumBitmapBlocks * BitsPerBlock
  BY Sizes DEF HasBit
<1>2. i \div BitsPerBlock \in Nat
  BY <1>1, Sizes, DivSum
<1>3. i \div BitsPerBlock < NumBitmapBlocks
  BY <1>1, Sizes, DivBelow
<1>4. BlockOf(i) \in MapBlocks
  BY <1>2, <1>3, Sizes DEF BlockOf, MapBlocks
<1>5. \A b \in MapBlocks : i \in BitsOf(b) <=> b = BlockOf(i)
  BY <1>2, Sizes DEF BlockOf, MapBlocks, BitsOf
<1> QED
  BY <1>1, <1>4, <1>5

LEMMA BlockSum ==
    ASSUME NEW a \in Nat, NEW n \in Nat
    PROVE  /\ BlockOf(a) \in Nat /\ BlockOf(a + n) \in Nat /\ n \div BitsPerBlock \in Nat
           /\ BlockOf(a) + (n \div BitsPerBlock) <= BlockOf(a + n)
           /\ BlockOf(a + n) <= BlockOf(a) + (n \div BitsPerBlock) + 1
BY Sizes, DivSum DEF BlockOf

LEMMA BlockMono ==
    ASSUME NEW a \in Nat, NEW b \in Nat, a <= b
    PROVE  BlockOf(a) \in Nat /\ BlockOf(b) \in Nat /\ BlockOf(a) <= BlockOf(b)
<1>1. a \div BitsPerBlock \in Nat /\ b \div BitsPerBlock \in Nat
  BY Sizes, DivSum
<1>2. a \div BitsPerBlock <= b \div BitsPerBlock
  BY Sizes, DivMono
<1> QED
  BY <1>1, <1>2 DEF BlockOf

LEMMA RootBlocks == MapBlocks \subseteq Blocks /\ Root \in Blocks /\ Root \notin MapBlocks
BY Sizes DEF MapBlocks, Blocks, Root

\* The blocks an allocation or a release writes back.
LEMMA WriteBackIs ==
    ASSUME NEW bv, NEW s \in Nat, NEW n \in Nat
    PROVE  WriteBack(bv, s, n) =
             Cached([b \in BlockOf(s) .. BlockOf(s) + (n \div BitsPerBlock) |->
                       bv \cap BitsOf(b)])
<1>1. /\ (s \div ByteBits) \div BlockBytes = s \div BitsPerBlock
      /\ (n \div ByteBits) \div BlockBytes = n \div BitsPerBlock
  <2>1. ByteBits \in Nat \ {0} /\ BlockBytes \in Nat \ {0}
    BY VolumeAssumption
  <2> QED
    BY <2>1, DivDiv DEF BitsPerBlock
<1>2. s \div BitsPerBlock \in Nat /\ n \div BitsPerBlock \in Nat
  BY Sizes, DivSum
<1>3. BlockOf(s) + ((n \div BitsPerBlock) + 1) - 1 = BlockOf(s) + (n \div BitsPerBlock)
  BY <1>2 DEF BlockOf
<1> QED
  BY <1>1, <1>3 DEF WriteBack, BlockOf

\* For one block it is the block of the map that has its bit.
LEMMA OneWritten ==
    ASSUME TypeOK, NEW bv \in SUBSET HasBit, NEW i \in HasBit
    PROVE  /\ WriteBack(bv, i, 1)
                 \in [DOMAIN dirty \cup {BlockOf(i)} -> SUBSET HasBit]
           /\ WriteBack(bv, i, 1)[BlockOf(i)] = bv \cap BitsOf(BlockOf(i))
           /\ \A b \in DOMAIN dirty \ {BlockOf(i)} : WriteBack(bv, i, 1)[b] = dirty[b]
<1>1. i \in Nat /\ 1 \in Nat /\ 1 \div BitsPerBlock = 0 /\ BlockOf(i) \in Int
  BY Sizes, DivSmall, BitPlace DEF MapBlocks
<1>2. BlockOf(i) .. BlockOf(i) + (1 \div BitsPerBlock) = {BlockOf(i)}
  BY <1>1
<1>3. WriteBack(bv, i, 1) = Cached([b \in {BlockOf(i)} |-> bv \cap BitsOf(b)])
  BY <1>1, <1>2, WriteBackIs
<1> QED
  BY <1>3 DEF Cached, TypeOK

\* The map on the device, block by block.
LEMMA OnDiskIs ==
    ASSUME TypeOK, NEW bv \in SUBSET HasBit,
           \A b \in MapBlocks : disk[b] = bv \cap BitsOf(b)
    PROVE  OnDisk = bv
<1>1. \A i \in OnDisk : i \in bv
  BY DEF OnDisk, MapBlocks
<1>2. \A i \in bv : i \in OnDisk
  <2> SUFFICES ASSUME NEW i \in bv PROVE i \in OnDisk
    OBVIOUS
  <2>1. BlockOf(i) \in MapBlocks /\ i \in disk[BlockOf(i)]
    BY BitPlace
  <2> QED
    BY <2>1 DEF OnDisk, MapBlocks
<1> QED
  BY <1>1, <1>2

LEMMA OnDiskBits ==
    ASSUME TypeOK, \A b \in MapBlocks : disk[b] \subseteq BitsOf(b)
    PROVE  /\ OnDisk \subseteq HasBit
           /\ \A b \in MapBlocks : OnDisk \cap BitsOf(b) = disk[b]
<1>1. OnDisk \subseteq HasBit
  BY RootBlocks DEF OnDisk, TypeOK, MapBlocks
<1>2. ASSUME NEW b \in MapBlocks, NEW i \in OnDisk, i \in BitsOf(b)
      PROVE  i \in disk[b]
  <2>1. PICK c \in MapBlocks : i \in disk[c]
    BY DEF OnDisk, MapBlocks
  <2>2. i \in BitsOf(c) /\ i \in HasBit
    BY <2>1, <1>1
  <2>3. b = c
    BY <2>2, <1>2, BitPlace
  <2> QED
    BY <2>1, <2>3
<1>3. \A b \in MapBlocks : disk[b] \subseteq OnDisk
  BY DEF OnDisk, MapBlocks
<1> QED
  BY <1>1, <1>2, <1>3

\* While a volume is made the first free block follows those taken.
LEMMA FirstFreeIs ==
    ASSUME NEW k \in Nat, k + 1 <= NumBlocks, mem.bv = 0 .. k
    PROVE  FirstFree = k + 1
<1>1. /\ k + 1 \in 0 .. NumBlocks /\ k + 1 \notin mem.bv
      /\ \A j \in 0 .. (k + 1) - 1 : j \in mem.bv
  BY Sizes
<1>2. ASSUME NEW i \in 0 .. NumBlocks, i \notin mem.bv,
             \A j \in 0 .. i - 1 : j \in mem.bv
      PROVE  i = k + 1
  BY <1>2, Sizes
<1> QED
  BY <1>1, <1>2 DEF FirstFree

-----------------------------------------------------------------------------
(***************************************************************************)
(* Every step keeps the invariant.                                         *)
(***************************************************************************)
LEMMA InitIInv == Init => IInv
<1> SUFFICES ASSUME Init PROVE IInv
  OBVIOUS
<1>1. TypeOK
  BY DEF Init, TypeOK, Phases
<1>2. MapShown /\ SafeShown
  BY RootBlocks DEF Init, MapShown, SafeShown, Shown, Creating
<1>3. InOrder /\ MountFindsAll /\ UsedExact /\ SafeOverCrashes
  BY DEF Init, InOrder, MountFindsAll, UsedExact, SafeOverCrashes
<1> QED
  BY <1>1, <1>2, <1>3 DEF IInv

\* Of the map of a new volume all is dirty.
LEMMA CreateMapStep ==
    ASSUME IInv, CreateMap
    PROVE  IInv'
<1>1. /\ DOMAIN dirty = {} /\ DOMAIN dirty' = MapBlocks
      /\ \A b \in MapBlocks : dirty'[b] = FreshMap \cap BitsOf(b)
      /\ dirty' = [b \in MapBlocks |-> FreshMap \cap BitsOf(b)]
  BY DEF CreateMap, Cached, MapBlocks, IInv, TypeOK
<1>2. FreshMap \subseteq HasBit
  BY Sizes, BitsExist DEF FreshMap
<1>3. mem' = [used |-> NumBitmapBlocks + 1, bv |-> FreshMap] /\ NumBitmapBlocks + 1 \in Int
  BY Sizes DEF CreateMap
<1>4. TypeOK'
  <2>1. dirty' \in [DOMAIN dirty' -> SUBSET HasBit]
    BY <1>1, <1>2
  <2>2. mem' \in [used : Int, bv : SUBSET HasBit]
    BY <1>2, <1>3
  <2> QED
    BY <1>1, <2>1, <2>2, RootBlocks DEF CreateMap, IInv, TypeOK, Phases
<1>5. MapShown'
  <2>1. mem'.bv = FreshMap
    BY <1>3
  <2>2. \A b \in MapBlocks : Shown(b)' = FreshMap \cap BitsOf(b)
    BY <1>1 DEF Shown
  <2>3. disk' = disk /\ phase' = "map"
    BY DEF CreateMap
  <2> QED
    BY <2>1, <2>2, <2>3 DEF IInv, MapShown
<1>6. SafeShown'
  BY DEF CreateMap, SafeShown
<1>7. InOrder'
  BY <1>3 DEF CreateMap, InOrder
<1>8. (MountFindsAll /\ UsedExact /\ SafeOverCrashes)'
  BY DEF CreateMap, MountFindsAll, UsedExact, SafeOverCrashes
<1> QED
  BY <1>4, <1>5, <1>6, <1>7, <1>8 DEF IInv

\* A run of creation, from s to the block before e: all of the map is
\* written back but for the block that the run may cross into, which is the
\* one that has the next run's first bit.
LEMMA RunWritten ==
    ASSUME IInv, NEW s \in Nat, NEW n \in Nat \ {0}, NEW e \in Nat, s + n = e,
           e <= RootBlock, mem.bv = 0 .. s - 1, s > 0,
           mem \in [used : Int, bv : SUBSET HasBit]
    PROVE  /\ FirstFree = s
           /\ Taken(s, n) = [used |-> mem.used + n, bv |-> 0 .. e - 1]
           /\ Taken(s, n) \in [used : Int, bv : SUBSET HasBit]
           /\ LET W == WriteBack(0 .. e - 1, s, n) IN
              /\ W \in [DOMAIN W -> SUBSET HasBit]
              /\ DOMAIN W \subseteq DOMAIN dirty \cup MapBlocks
              /\ DOMAIN dirty \subseteq DOMAIN W
              /\ BlockOf(s) \in MapBlocks /\ BlockOf(s) \in DOMAIN W
              /\ W[BlockOf(s)] = (0 .. e - 1) \cap BitsOf(BlockOf(s))
              /\ \A b \in MapBlocks \ {BlockOf(e)} :
                    \/ b \in DOMAIN W /\ W[b] = (0 .. e - 1) \cap BitsOf(b)
                    \/ /\ mem.bv \cap BitsOf(b) = (0 .. e - 1) \cap BitsOf(b)
                       /\ b # BlockOf(s)
                       /\ b \in DOMAIN W <=> b \in DOMAIN dirty
                       /\ b \in DOMAIN W => W[b] = dirty[b]
              /\ \A b \in MapBlocks : b \in DOMAIN W =>
                    \/ W[b] = (0 .. e - 1) \cap BitsOf(b)
                    \/ b \in DOMAIN dirty /\ W[b] = dirty[b]
<1> DEFINE bv == 0 .. e - 1
           ws == BlockOf(s) .. BlockOf(s) + (n \div BitsPerBlock)
           W == WriteBack(bv, s, n)
<1>1. s \in HasBit /\ e \in HasBit /\ bv \in SUBSET HasBit
  BY BitsExist, Sizes
<1>2. FirstFree = s
  <2>1. s - 1 \in Nat /\ (s - 1) + 1 <= NumBlocks /\ (s - 1) + 1 = s
    BY Sizes
  <2> QED
    BY <2>1, FirstFreeIs
<1>3. Taken(s, n) = [used |-> mem.used + n, bv |-> bv]
  <2>1. mem.bv \cup (s .. s + n - 1) = bv
    OBVIOUS
  <2> QED
    BY <2>1 DEF Taken
<1>4. Taken(s, n) \in [used : Int, bv : SUBSET HasBit]
  BY <1>1, <1>3
<1>5. ws \subseteq MapBlocks /\ BlockOf(s) \in MapBlocks /\ BlockOf(s) \in ws
  <2>1. BlockOf(s) \in MapBlocks /\ BlockOf(e) \in MapBlocks
    BY <1>1, BitPlace
  <2>2. n \div BitsPerBlock \in Nat /\ BlockOf(s) + (n \div BitsPerBlock) <= BlockOf(e)
    BY BlockSum
  <2> QED
    BY <2>1, <2>2, Sizes DEF MapBlocks
<1>6. \A b \in MapBlocks \ (ws \cup {BlockOf(e)}) :
         bv \cap BitsOf(b) = mem.bv \cap BitsOf(b)
  <2> SUFFICES ASSUME NEW b \in MapBlocks, b \notin ws, NEW i \in s .. e - 1,
                      i \in BitsOf(b)
               PROVE  b = BlockOf(e)
    OBVIOUS
  <2>1. i \in HasBit /\ i \in Nat /\ s <= i /\ i <= e
    BY BitsExist, Sizes
  <2>2. b = BlockOf(i)
    BY <2>1, BitPlace
  <2>3. BlockOf(s) <= BlockOf(i) /\ BlockOf(i) <= BlockOf(e)
    BY <2>1, BlockMono
  <2>4. /\ n \div BitsPerBlock \in Nat /\ BlockOf(s) \in Nat /\ BlockOf(i) \in Nat
        /\ BlockOf(e) \in Nat
        /\ BlockOf(e) <= BlockOf(s) + (n \div BitsPerBlock) + 1
    BY <2>1, BlockSum
  <2> QED
    BY <2>2, <2>3, <2>4
<1>7. /\ W \in [DOMAIN dirty \cup ws -> SUBSET HasBit]
      /\ \A b \in ws : W[b] = bv \cap BitsOf(b)
      /\ \A b \in DOMAIN dirty \ ws : W[b] = dirty[b]
  <2>1. W = Cached([b \in ws |-> bv \cap BitsOf(b)])
    BY WriteBackIs
  <2> HIDE DEF ws, bv
  <2> QED
    BY <1>1, <2>1 DEF Cached, IInv, TypeOK
<1> HIDE DEF W, ws
<1>8. \A b \in MapBlocks \ {BlockOf(e)} :
         \/ b \in DOMAIN W /\ W[b] = bv \cap BitsOf(b)
         \/ /\ mem.bv \cap BitsOf(b) = bv \cap BitsOf(b)
            /\ b # BlockOf(s)
            /\ b \in DOMAIN W <=> b \in DOMAIN dirty
            /\ b \in DOMAIN W => W[b] = dirty[b]
  BY <1>5, <1>6, <1>7
<1>9. \A b \in MapBlocks : b \in DOMAIN W =>
         W[b] = bv \cap BitsOf(b) \/ (b \in DOMAIN dirty /\ W[b] = dirty[b])
  BY <1>7
<1>10. /\ W \in [DOMAIN W -> SUBSET HasBit] /\ DOMAIN dirty \subseteq DOMAIN W
       /\ DOMAIN W \subseteq DOMAIN dirty \cup MapBlocks
       /\ BlockOf(s) \in DOMAIN W /\ W[BlockOf(s)] = bv \cap BitsOf(BlockOf(s))
  BY <1>5, <1>7
<1> QED
  BY <1>2, <1>3, <1>4, <1>5, <1>8, <1>9, <1>10 DEF W

\* The inode map: it may leave the block behind that has the inode table's
\* first bit.
LEMMA CreateInodeMapStep ==
    ASSUME IInv, CreateInodeMap
    PROVE  IInv'
<1> DEFINE s == NumBitmapBlocks + 1
           e == InodesStart
           n == InodeMapBlocks
           W == WriteBack(0 .. e - 1, s, n)
<1>1. /\ s \in Nat /\ e \in Nat /\ s + n = e /\ e <= RootBlock /\ s > 0
      /\ n \in Nat \ {0}
  BY Sizes
<1>2. mem.bv = 0 .. s - 1 /\ mem \in [used : Int, bv : SUBSET HasBit]
  BY Sizes DEF CreateInodeMap, IInv, InOrder, TypeOK, FreshMap
<1>3. /\ FirstFree = s
      /\ Taken(s, n) = [used |-> mem.used + n, bv |-> 0 .. e - 1]
      /\ Taken(s, n) \in [used : Int, bv : SUBSET HasBit]
      /\ W \in [DOMAIN W -> SUBSET HasBit]
      /\ DOMAIN W \subseteq DOMAIN dirty \cup MapBlocks
      /\ \A b \in MapBlocks \ {BlockOf(e)} :
            \/ b \in DOMAIN W /\ W[b] = (0 .. e - 1) \cap BitsOf(b)
            \/ /\ mem.bv \cap BitsOf(b) = (0 .. e - 1) \cap BitsOf(b)
               /\ b \in DOMAIN W <=> b \in DOMAIN dirty
               /\ b \in DOMAIN W => W[b] = dirty[b]
      /\ \A b \in MapBlocks : b \in DOMAIN W =>
            W[b] = (0 .. e - 1) \cap BitsOf(b) \/ (b \in DOMAIN dirty /\ W[b] = dirty[b])
      /\ DOMAIN dirty \subseteq DOMAIN W
  <2> HIDE DEF s, e, n
  <2> QED
    BY <1>1, <1>2, RunWritten
<1>4. mem' = Taken(s, n) /\ mem'.bv = 0 .. e - 1
  BY <1>3 DEF CreateInodeMap
<1>5. dirty' = W /\ disk' = disk /\ phase = "map" /\ phase' = "inodes"
  BY <1>3, <1>4 DEF CreateInodeMap
<1> HIDE DEF W, s, n
<1>6. InOrder'
  BY <1>4, <1>5 DEF InOrder
<1>7. TypeOK'
  BY <1>3, <1>4, <1>5, RootBlocks DEF CreateInodeMap, IInv, TypeOK, Phases
<1> HIDE DEF e
<1>8. MapShown'
  <2>1. ASSUME NEW b \in MapBlocks, b # BlockOf(e)
        PROVE  Shown(b)' = (0 .. e - 1) \cap BitsOf(b)
    BY <2>1, <1>3, <1>5 DEF Shown, IInv, MapShown, Behind
  <2>2. \A b \in MapBlocks : Shown(b)' \subseteq BitsOf(b)
    BY <1>3, <1>5 DEF Shown, IInv, MapShown
  <2>3. Behind' = {BlockOf(e)}
    BY <1>5 DEF Behind, e
  <2> QED
    BY <2>1, <2>2, <2>3, <1>4, <1>5 DEF IInv, MapShown
<1>9. SafeShown'
  BY DEF CreateInodeMap, IInv, SafeShown, Creating
<1>10. (MountFindsAll /\ UsedExact /\ SafeOverCrashes)'
  BY DEF CreateInodeMap, MountFindsAll, UsedExact, SafeOverCrashes
<1> QED
  BY <1>6, <1>7, <1>8, <1>9, <1>10 DEF IInv

\* The inode table: it brings the block up to date that the inode map left
\* behind, and may leave another one.
LEMMA CreateInodesStep ==
    ASSUME IInv, CreateInodes
    PROVE  IInv'
<1> DEFINE s == InodesStart
           e == RootBlock
           n == InodeBlocks
           W == WriteBack(0 .. e - 1, s, n)
<1>1. /\ s \in Nat /\ e \in Nat /\ s + n = e /\ e <= RootBlock /\ s > 0 /\ n \in Nat \ {0}
  BY Sizes
<1>2. mem.bv = 0 .. s - 1 /\ mem \in [used : Int, bv : SUBSET HasBit]
  BY DEF CreateInodes, IInv, InOrder, TypeOK
<1>3. /\ FirstFree = s
      /\ Taken(s, n) = [used |-> mem.used + n, bv |-> 0 .. e - 1]
      /\ Taken(s, n) \in [used : Int, bv : SUBSET HasBit]
      /\ W \in [DOMAIN W -> SUBSET HasBit]
      /\ DOMAIN W \subseteq DOMAIN dirty \cup MapBlocks
      /\ BlockOf(s) \in DOMAIN W /\ W[BlockOf(s)] = (0 .. e - 1) \cap BitsOf(BlockOf(s))
      /\ \A b \in MapBlocks \ {BlockOf(e)} :
            \/ b \in DOMAIN W /\ W[b] = (0 .. e - 1) \cap BitsOf(b)
            \/ /\ mem.bv \cap BitsOf(b) = (0 .. e - 1) \cap BitsOf(b)
               /\ b # BlockOf(s)
               /\ b \in DOMAIN W <=> b \in DOMAIN dirty
               /\ b \in DOMAIN W => W[b] = dirty[b]
      /\ \A b \in MapBlocks : b \in DOMAIN W =>
            W[b] = (0 .. e - 1) \cap BitsOf(b) \/ (b \in DOMAIN dirty /\ W[b] = dirty[b])
      /\ DOMAIN dirty \subseteq DOMAIN W
  <2> HIDE DEF s, e, n
  <2> QED
    BY <1>1, <1>2, RunWritten
<1>4. mem' = Taken(s, n) /\ mem'.bv = 0 .. e - 1
  BY <1>3 DEF CreateInodes
<1>5. /\ dirty' = [b \in DOMAIN W \cup {Root} |-> IF b = Root THEN {} ELSE W[b]]
      /\ disk' = disk /\ phase = "inodes" /\ phase' = "root"
  BY <1>3, <1>4 DEF CreateInodes
<1> HIDE DEF W, n
<1>6. InOrder'
  BY <1>4, <1>5 DEF InOrder
<1>7. TypeOK'
  <2>1. dirty' \in [DOMAIN dirty' -> SUBSET HasBit] /\ DOMAIN dirty' \subseteq Blocks
    BY <1>3, <1>5, RootBlocks DEF IInv, TypeOK
  <2> QED
    BY <2>1, <1>3, <1>4, <1>5 DEF CreateInodes, IInv, TypeOK, Phases
<1>8. \A b \in MapBlocks : (b \in DOMAIN dirty' <=> b \in DOMAIN W)
                           /\ (b \in DOMAIN W => dirty'[b] = W[b])
  BY <1>5, RootBlocks
<1>9. Behind = {BlockOf(s)} /\ Behind' = {BlockOf(e)}
  BY <1>5 DEF Behind
<1> HIDE DEF e, s
<1>10. MapShown'
  <2>1. ASSUME NEW b \in MapBlocks, b # BlockOf(e)
        PROVE  Shown(b)' = (0 .. e - 1) \cap BitsOf(b)
    BY <2>1, <1>3, <1>5, <1>8, <1>9 DEF Shown, IInv, MapShown
  <2>2. \A b \in MapBlocks : Shown(b)' \subseteq BitsOf(b)
    BY <1>3, <1>5, <1>8 DEF Shown, IInv, MapShown
  <2> QED
    BY <2>1, <2>2, <1>4, <1>5, <1>9 DEF IInv, MapShown
<1>11. SafeShown'
  BY DEF CreateInodes, IInv, SafeShown, Creating
<1>12. (MountFindsAll /\ UsedExact /\ SafeOverCrashes)'
  BY DEF CreateInodes, MountFindsAll, UsedExact, SafeOverCrashes
<1> QED
  BY <1>6, <1>7, <1>10, <1>11, <1>12 DEF IInv

\* The root directory's block brings the last block of the map up to date.
LEMMA CreateRootStep ==
    ASSUME IInv, CreateRoot
    PROVE  IInv'
<1> DEFINE i == RootBlock
           bv == 0 .. i
           W == WriteBack(bv, i, 1)
<1>1. i \in HasBit /\ i \in Nat /\ bv \in SUBSET HasBit
  BY Sizes, BitsExist
<1>2. mem.bv = 0 .. i - 1 /\ mem.used \in Int
  BY DEF CreateRoot, IInv, InOrder, TypeOK
<1>3. FirstFree = i
  <2>1. i - 1 \in Nat /\ (i - 1) + 1 <= NumBlocks /\ (i - 1) + 1 = i
    BY <1>1, Sizes
  <2> QED
    BY <1>2, <2>1, FirstFreeIs
<1>4. mem'.bv = bv /\ mem' \in [used : Int, bv : SUBSET HasBit]
  <2>1. mem \in [used : Int, bv : SUBSET HasBit]
    BY DEF CreateRoot, IInv, TypeOK
  <2>2. mem' = [used |-> mem.used + 1, bv |-> mem.bv \cup (i .. i + 1 - 1)]
    BY <1>3 DEF CreateRoot, Taken
  <2>3. mem.bv \cup (i .. i + 1 - 1) = bv
    BY <1>1, <1>2
  <2> QED
    BY <2>2, <2>3, <1>1, <1>2
<1>5. BlockOf(i) \in MapBlocks
      /\ \A b \in MapBlocks \ {BlockOf(i)} : bv \cap BitsOf(b) = mem.bv \cap BitsOf(b)
  <2>1. bv = mem.bv \cup {i}
    BY <1>1, <1>2
  <2> QED
    BY <2>1, <1>1, BitPlace
<1>6. /\ W \in [DOMAIN dirty \cup {BlockOf(i)} -> SUBSET HasBit]
      /\ W[BlockOf(i)] = bv \cap BitsOf(BlockOf(i))
      /\ \A b \in DOMAIN dirty \ {BlockOf(i)} : W[b] = dirty[b]
  BY <1>1, OneWritten DEF IInv
<1>7. dirty' = [b \in DOMAIN W \cup {Root} |-> IF b = Root THEN RootDir ELSE W[b]]
  BY <1>3, <1>4 DEF CreateRoot
<1> HIDE DEF W, bv, i
<1>8. /\ dirty' \in [DOMAIN dirty \cup {BlockOf(i), Root} -> SUBSET HasBit]
      /\ dirty'[Root] = RootDir /\ dirty'[BlockOf(i)] = bv \cap BitsOf(BlockOf(i))
      /\ \A b \in DOMAIN dirty \ {BlockOf(i), Root} : dirty'[b] = dirty[b]
  <2>1. BlockOf(i) # Root /\ RootDir \subseteq HasBit
    BY <1>5, RootBlocks, Sizes, BitsExist DEF RootDir
  <2> QED
    BY <2>1, <1>6, <1>7
<1>9. TypeOK'
  BY <1>4, <1>5, <1>8, RootBlocks
     DEF CreateRoot, write_super_block, IInv, TypeOK, Phases
<1>10. MapShown'
  <2>1. disk' = disk /\ phase' = "created" /\ phase = "root" /\ Behind = {BlockOf(i)}
    BY DEF CreateRoot, Behind, i
  <2>2. ASSUME NEW b \in MapBlocks
        PROVE  Shown(b)' = bv \cap BitsOf(b)
    <3>1. CASE b = BlockOf(i)
      BY <3>1, <1>8 DEF Shown
    <3>2. CASE b # BlockOf(i)
      BY <2>1, <3>2, <1>5, <1>8, RootBlocks DEF Shown, IInv, MapShown
    <3> QED
      BY <3>1, <3>2
  <2>3. Shown(Root)' = RootDir
    BY <1>8 DEF Shown
  <2> QED
    BY <2>1, <2>2, <2>3, <1>4 DEF IInv, MapShown
<1>11. SafeShown'
  BY DEF CreateRoot, IInv, SafeShown, Creating
<1>12. (InOrder /\ MountFindsAll /\ UsedExact /\ SafeOverCrashes)'
  BY DEF CreateRoot, InOrder, MountFindsAll, UsedExact, SafeOverCrashes
<1> QED
  BY <1>9, <1>10, <1>11, <1>12 DEF IInv

\* A crash leaves what the device has.
LEMMA CrashStep ==
    ASSUME IInv, Crash
    PROVE  IInv'
<1>1. TypeOK'
  BY DEF Crash, IInv, TypeOK, Phases
<1>2. MapShown' /\ SafeShown'
  BY DEF Crash, IInv, MapShown, SafeShown, Shown, Creating
<1>3. (InOrder /\ MountFindsAll /\ UsedExact)'
  BY DEF Crash, InOrder, MountFindsAll, UsedExact
<1>4. SafeOverCrashes'
  <2>1. ASSUME NEW i \in safe
        PROVE  i \in OnDisk
    <3>1. i \in HasBit
      BY DEF IInv, TypeOK
    <3>2. BlockOf(i) \in MapBlocks /\ i \in BitsOf(BlockOf(i))
      BY <3>1, BitPlace
    <3>3. i \in disk[BlockOf(i)]
      BY <3>2 DEF IInv, SafeShown
    <3> QED
      BY <3>2, <3>3 DEF OnDisk, MapBlocks
  <2>2. safe' = safe /\ OnDisk' = OnDisk /\ phase' = "down"
    BY DEF Crash, OnDisk
  <2> QED
    BY <2>1, <2>2 DEF SafeOverCrashes
<1> QED
  BY <1>1, <1>2, <1>3, <1>4 DEF IInv

\* The count sanity_check_bitmap makes is of all bits but those it does not
\* look at.
LEMMA RecountExact ==
    ASSUME NEW bv \in SUBSET HasBit
    PROVE  /\ Recount(bv) \in Int
           /\ Recount(bv) + Cardinality(Unseen(bv)) = Cardinality(bv)
<1>1. IsFiniteSet(bv)
  BY BitsExist, FS_Subset
<1>2. Unseen(bv) \subseteq bv
  BY DEF Unseen
<1>3. IsFiniteSet(Unseen(bv)) /\ IsFiniteSet(bv \ Unseen(bv))
  BY <1>1, <1>2, FS_Subset
<1>4. /\ Cardinality(bv \ Unseen(bv)) \in Nat /\ Cardinality(Unseen(bv)) \in Nat
      /\ Cardinality(bv) \in Nat
  BY <1>1, <1>3, FS_CardinalityType
<1>5. /\ (bv \ Unseen(bv)) \cup Unseen(bv) = bv
      /\ (bv \ Unseen(bv)) \cap Unseen(bv) = {}
  BY <1>2
<1>6. Cardinality(bv) =
        Cardinality(bv \ Unseen(bv)) + Cardinality(Unseen(bv))
          - Cardinality((bv \ Unseen(bv)) \cap Unseen(bv))
  BY <1>3, <1>5, FS_Union
<1>7. Cardinality({}) = 0
  BY FS_EmptySet
<1> QED
  BY <1>4, <1>5, <1>6, <1>7 DEF Recount

\* A mount has the map of the device in memory.
LEMMA MountStep ==
    ASSUME IInv, myfs_mount
    PROVE  IInv'
<1> DEFINE bv == OnDisk \cup {0}
<1>1. /\ OnDisk \subseteq HasBit
      /\ \A b \in MapBlocks : OnDisk \cap BitsOf(b) = disk[b]
  BY OnDiskBits DEF IInv, MapShown
<1>2. 0 \in HasBit /\ bv \in SUBSET HasBit
  BY <1>1, Sizes, BitsExist
<1>3. /\ BlockOf(0) \in MapBlocks
      /\ \A b \in MapBlocks \ {BlockOf(0)} : bv \cap BitsOf(b) = disk[b]
  BY <1>1, <1>2, BitPlace
<1>4. /\ mem' = [used |-> Recount(bv), bv |-> bv] /\ missed' = Unseen(bv)
      /\ Recount(bv) \in Int /\ missed' \subseteq bv
      /\ Recount(bv) + Cardinality(Unseen(bv)) = Cardinality(bv)
  <2>1. mem' = [used |-> Recount(bv), bv |-> bv]
    BY DEF myfs_mount
  <2>2. mem'.bv = bv
    BY <2>1
  <2>3. missed' = Unseen(bv)
    BY <2>2 DEF myfs_mount
  <2>4. Unseen(bv) \subseteq bv
    BY DEF Unseen
  <2> QED
    BY <2>1, <2>3, <2>4, <1>2, RecountExact
<1>5. /\ disk' = disk /\ phase = "down" /\ phase' = "up" /\ kept' = NoMem
      /\ safe' = safe /\ super' = super /\ DOMAIN dirty = {} /\ RootIsThere
  BY DEF myfs_mount, IInv, TypeOK
<1>6. /\ dirty' \in [DOMAIN dirty' -> SUBSET HasBit]
      /\ DOMAIN dirty' \subseteq {BlockOf(0)}
      /\ DOMAIN dirty' = {} => 0 \in OnDisk
      /\ DOMAIN dirty' # {} => dirty'[BlockOf(0)] = bv \cap BitsOf(BlockOf(0))
  <2>1. CASE 0 \in OnDisk
    BY <2>1, <1>5 DEF myfs_mount, IInv, TypeOK
  <2>2. CASE 0 \notin OnDisk
    <3>1. dirty' = WriteBack(bv, 0, 1)
      BY <2>2 DEF myfs_mount
    <3>2. /\ dirty' \in [{BlockOf(0)} -> SUBSET HasBit]
          /\ dirty'[BlockOf(0)] = bv \cap BitsOf(BlockOf(0))
      <4>1. DOMAIN dirty \cup {BlockOf(0)} = {BlockOf(0)}
        BY <1>5
      <4> HIDE DEF bv
      <4> QED
        BY <3>1, <1>2, <4>1, OneWritten DEF IInv
    <3> QED
      BY <3>2
  <2> QED
    BY <2>1, <2>2
<1>7. ASSUME NEW b \in MapBlocks
      PROVE  Shown(b)' = bv \cap BitsOf(b)
  <2>1. CASE b \in DOMAIN dirty'
    BY <2>1, <1>6 DEF Shown
  <2>2. CASE b \notin DOMAIN dirty'
    <3>1. CASE b = BlockOf(0)
      <4>1. 0 \in OnDisk
        BY <2>2, <3>1, <1>6
      <4> QED
        BY <2>2, <4>1, <1>1, <1>5 DEF Shown
    <3>2. CASE b # BlockOf(0)
      BY <2>2, <3>2, <1>3, <1>5 DEF Shown
    <3> QED
      BY <3>1, <3>2
  <2> QED
    BY <2>1, <2>2
<1>8. safe \subseteq OnDisk
  BY <1>5 DEF IInv, SafeOverCrashes
<1>9. TypeOK'
  <2>1. mem' \in [used : Int, bv : SUBSET HasBit]
    BY <1>2, <1>4
  <2>2. DOMAIN dirty' \subseteq Blocks
    BY <1>3, <1>6, RootBlocks
  <2>3. missed' \subseteq HasBit
    BY <1>2, <1>4
  <2> HIDE DEF bv
  <2> QED
    BY <1>5, <1>6, <2>1, <2>2, <2>3 DEF IInv, TypeOK, Phases
<1>10. MapShown'
  <2>1. mem'.bv = bv
    BY <1>4
  <2>2. Shown(Root)' = RootDir
    BY <1>3, <1>5, <1>6, RootBlocks DEF Shown, RootIsThere
  <2> HIDE DEF bv
  <2> QED
    BY <1>5, <1>7, <2>1, <2>2 DEF IInv, MapShown, Behind
<1>11. SafeShown'
  <2>1. \A b \in MapBlocks : safe \cap BitsOf(b) \subseteq disk[b]
    BY DEF IInv, SafeShown
  <2> QED
    BY <2>1, <1>5, <1>7, <1>8 DEF SafeShown, Creating
<1>12. (InOrder /\ MountFindsAll)'
  BY <1>5 DEF InOrder, MountFindsAll
<1>13. (UsedExact /\ SafeOverCrashes)'
  BY <1>4, <1>5, <1>8 DEF UsedExact, SafeOverCrashes
<1> QED
  BY <1>9, <1>10, <1>11, <1>12, <1>13 DEF IInv

\* A file gets a block: its bit is set in memory and in one block of the map.
LEMMA AllocateStep ==
    ASSUME IInv, NEW i \in FileBlocks, myfs_allocate_blocks(i)
    PROVE  IInv'
<1> DEFINE bv == mem.bv \cup {i}
<1>1. i \in HasBit /\ i \in Int
  BY BitPlace DEF myfs_allocate_blocks
<1>2. /\ disk' = disk /\ phase = "up" /\ phase' = "up" /\ kept' = kept
      /\ safe' = safe /\ super' = super /\ i \notin mem.bv /\ missed' = missed
      /\ mem.bv \subseteq HasBit /\ mem.used \in Int /\ missed \subseteq HasBit
  BY DEF myfs_allocate_blocks, IInv, TypeOK
<1>3. mem' = [used |-> mem.used + 1, bv |-> bv] /\ dirty' = WriteBack(bv, i, 1)
  <2>1. i .. i + 1 - 1 = {i}
    BY <1>1
  <2> QED
    BY <2>1 DEF myfs_allocate_blocks, Taken
<1>4. bv \in SUBSET HasBit
  BY <1>1, <1>2
<1>5. /\ BlockOf(i) \in MapBlocks
      /\ \A b \in MapBlocks \ {BlockOf(i)} : bv \cap BitsOf(b) = mem.bv \cap BitsOf(b)
  BY <1>1, BitPlace
<1>6. UsedExact'
  <2>1. IsFiniteSet(mem.bv) /\ IsFiniteSet(missed)
    BY <1>2, BitsExist, FS_Subset
  <2>2. Cardinality(bv) = Cardinality(mem.bv) + 1
    BY <2>1, <1>2, FS_AddElement
  <2>3. Cardinality(mem.bv) \in Nat /\ Cardinality(missed) \in Nat
    BY <2>1, FS_CardinalityType
  <2>4. mem.used + Cardinality(missed) = Cardinality(mem.bv)
    BY <1>2 DEF IInv, UsedExact
  <2>5. mem'.used = mem.used + 1 /\ mem'.bv = bv
    BY <1>3
  <2> QED
    BY <2>2, <2>3, <2>4, <2>5, <1>2 DEF UsedExact
<1>7. safe \subseteq bv
  BY <1>2 DEF IInv, SafeOverCrashes
<1>8. mem'.bv = bv /\ mem' \in [used : Int, bv : SUBSET HasBit]
  BY <1>2, <1>3, <1>4
<1> HIDE DEF bv
<1>9. /\ dirty' \in [DOMAIN dirty \cup {BlockOf(i)} -> SUBSET HasBit]
      /\ dirty'[BlockOf(i)] = bv \cap BitsOf(BlockOf(i))
      /\ \A b \in DOMAIN dirty \ {BlockOf(i)} : dirty'[b] = dirty[b]
  BY <1>1, <1>3, <1>4, OneWritten DEF IInv
<1>10. TypeOK'
  BY <1>2, <1>5, <1>8, <1>9, RootBlocks DEF IInv, TypeOK
<1>11. MapShown'
  BY <1>2, <1>5, <1>8, <1>9, RootBlocks DEF IInv, MapShown, Shown, Behind
<1>12. SafeShown'
  BY <1>2, <1>7, <1>9 DEF IInv, SafeShown, Shown, Creating
<1>13. (InOrder /\ MountFindsAll /\ SafeOverCrashes)'
  BY <1>2, <1>7, <1>8 DEF InOrder, MountFindsAll, SafeOverCrashes
<1> QED
  BY <1>6, <1>10, <1>11, <1>12, <1>13 DEF IInv

\* A file gives a block back.
LEMMA FreeStep ==
    ASSUME IInv, NEW i \in FileBlocks, myfs_free_blocks(i)
    PROVE  IInv'
<1> DEFINE bv == mem.bv \ {i}
<1>2. /\ disk' = disk /\ phase = "up" /\ phase' = "up" /\ kept' = kept
      /\ safe' = safe \ {i} /\ super' = super /\ i \in mem.bv /\ missed' = missed
      /\ mem.bv \subseteq HasBit /\ mem.used \in Int /\ missed \subseteq HasBit
  BY DEF myfs_free_blocks, IInv, TypeOK
<1>1. i \in HasBit
  BY <1>2
<1>3. mem' = [used |-> mem.used - 1, bv |-> bv] /\ dirty' = WriteBack(bv, i, 1)
  <2>1. ByteBits \in Nat \ {0} /\ BlockBytes \in Nat \ {0} /\ 1 \in Nat
    BY VolumeAssumption
  <2>2. (1 \div ByteBits) \div BlockBytes = 1 \div BitsPerBlock
    BY <2>1, DivDiv DEF BitsPerBlock
  <2>3. 1 \div BitsPerBlock = 0
    BY Sizes, DivSmall
  <2>4. mem.used - (0 + 1) = mem.used - 1
    BY <1>2
  <2> QED
    BY <2>2, <2>3, <2>4 DEF myfs_free_blocks
<1>4. bv \in SUBSET HasBit
  BY <1>1, <1>2
<1>5. /\ BlockOf(i) \in MapBlocks
      /\ \A b \in MapBlocks \ {BlockOf(i)} : bv \cap BitsOf(b) = mem.bv \cap BitsOf(b)
  BY <1>1, BitPlace
<1>6. (mem.used - 1) + Cardinality(missed) = Cardinality(bv)
  <2>1. IsFiniteSet(mem.bv) /\ IsFiniteSet(missed)
    BY <1>2, BitsExist, FS_Subset
  <2>2. Cardinality(bv) = Cardinality(mem.bv) - 1
    BY <2>1, <1>2, FS_RemoveElement
  <2>3. Cardinality(mem.bv) \in Nat /\ Cardinality(missed) \in Nat
    BY <2>1, FS_CardinalityType
  <2>4. mem.used + Cardinality(missed) = Cardinality(mem.bv)
    BY <1>2 DEF IInv, UsedExact
  <2> QED
    BY <2>2, <2>3, <2>4, <1>2
<1>7. safe \ {i} \subseteq bv
  BY <1>2 DEF IInv, SafeOverCrashes
<1> HIDE DEF bv
<1>8. mem'.bv = bv /\ mem' \in [used : Int, bv : SUBSET HasBit]
  BY <1>2, <1>3, <1>4
<1>9. /\ dirty' \in [DOMAIN dirty \cup {BlockOf(i)} -> SUBSET HasBit]
      /\ dirty'[BlockOf(i)] = bv \cap BitsOf(BlockOf(i))
      /\ \A b \in DOMAIN dirty \ {BlockOf(i)} : dirty'[b] = dirty[b]
  BY <1>1, <1>3, <1>4, OneWritten DEF IInv
<1>10. TypeOK'
  BY <1>2, <1>5, <1>8, <1>9, RootBlocks DEF IInv, TypeOK
<1>11. MapShown'
  BY <1>2, <1>5, <1>8, <1>9, RootBlocks DEF IInv, MapShown, Shown, Behind
<1>12. SafeShown'
  BY <1>2, <1>7, <1>9 DEF IInv, SafeShown, Shown, Creating
<1>13. (InOrder /\ MountFindsAll /\ UsedExact /\ SafeOverCrashes)'
  BY <1>2, <1>3, <1>6, <1>7, <1>8 DEF InOrder, MountFindsAll, UsedExact, SafeOverCrashes
<1> QED
  BY <1>10, <1>11, <1>12, <1>13 DEF IInv

\* Writing the super block or past the end of the map leaves the map alone.
LEMMA FileDoneStep ==
    ASSUME IInv, FileDone \/ \E i \in FileBlocks : OverrunMap(i)
    PROVE  IInv'
<1>1. /\ UNCHANGED <<disk, dirty, mem, kept, safe, missed>>
      /\ phase = "up" /\ phase' \in {"up", "overrun"}
      /\ super' \in {super, mem.used}
  BY DEF FileDone, OverrunMap, write_super_block
<1>2. mem.used \in Int
  BY <1>1 DEF IInv, TypeOK
<1>3. TypeOK'
  BY <1>1, <1>2 DEF IInv, TypeOK, Phases
<1>4. MapShown'
  BY <1>1 DEF IInv, MapShown, Shown, Behind
<1>5. SafeShown'
  BY <1>1 DEF IInv, SafeShown, Shown, Creating
<1>6. (InOrder /\ MountFindsAll /\ UsedExact /\ SafeOverCrashes)'
  BY <1>1 DEF IInv, InOrder, MountFindsAll, UsedExact, SafeOverCrashes
<1> QED
  BY <1>3, <1>4, <1>5, <1>6 DEF IInv

\* The cache writes a block: nobody sees a difference but a crash.
LEMMA WriteOutStep ==
    ASSUME IInv, NEW c \in Blocks, WriteOut(c)
    PROVE  IInv'
<1>1. /\ c \in DOMAIN dirty /\ disk'[c] = dirty[c]
      /\ \A b \in Blocks \ {c} : disk'[b] = disk[b]
      /\ disk' \in [Blocks -> SUBSET HasBit]
      /\ DOMAIN dirty' = DOMAIN dirty \ {c}
      /\ dirty' \in [DOMAIN dirty \ {c} -> SUBSET HasBit]
      /\ \A b \in DOMAIN dirty \ {c} : dirty'[b] = dirty[b]
  BY DEF WriteOut, IInv, TypeOK
<1>2. phase # "down" /\ phase' = phase /\ mem' = mem /\ kept' = kept
      /\ safe' = safe /\ super' = super /\ missed' = missed
  BY DEF WriteOut, IInv, TypeOK
<1>3. \A b \in Blocks : Shown(b)' = Shown(b)
  BY <1>1 DEF Shown
<1>4. TypeOK'
  BY <1>1, <1>2 DEF IInv, TypeOK
<1>5. MapShown'
  <2>1. \A b \in MapBlocks : disk'[b] \subseteq BitsOf(b)
    BY <1>1, RootBlocks DEF IInv, MapShown, Shown
  <2> QED
    BY <2>1, <1>2, <1>3, RootBlocks DEF IInv, MapShown, Behind
<1>6. SafeShown'
  <2>1. \A b \in MapBlocks : safe \cap BitsOf(b) \subseteq disk'[b]
    BY <1>1, RootBlocks DEF IInv, SafeShown, Shown
  <2> QED
    BY <2>1, <1>2, <1>3, RootBlocks DEF IInv, SafeShown
<1>7. (InOrder /\ MountFindsAll /\ UsedExact /\ SafeOverCrashes)'
  BY <1>2 DEF IInv, InOrder, MountFindsAll, UsedExact, SafeOverCrashes
<1> QED
  BY <1>4, <1>5, <1>6, <1>7 DEF IInv

LEMMA UnmountBeginStep ==
    ASSUME IInv, UnmountBegin
    PROVE  IInv'
<1>1. TypeOK' /\ SafeShown'
  BY DEF UnmountBegin, IInv, TypeOK, Phases, SafeShown, Shown, Creating
<1>2. MapShown'
  BY DEF UnmountBegin, IInv, MapShown, Shown, Behind
<1>3. (InOrder /\ MountFindsAll /\ UsedExact /\ SafeOverCrashes)'
  BY DEF UnmountBegin, IInv, InOrder, MountFindsAll, UsedExact, SafeOverCrashes,
         SafeShown, Creating
<1> QED
  BY <1>1, <1>2, <1>3 DEF IInv

\* At the end of an unmount the device has all that the cache had.
LEMMA UnmountEndStep ==
    ASSUME IInv, UnmountEnd
    PROVE  IInv'
<1>1. /\ disk' = disk /\ dirty' = dirty /\ DOMAIN dirty = {} /\ phase = "unmounting"
      /\ phase' = "down" /\ kept' = mem /\ safe' = mem.bv /\ super' = mem.used
      /\ mem.used \in Int /\ mem.bv \in SUBSET HasBit /\ missed' = missed
  BY DEF UnmountEnd, write_super_block, IInv, TypeOK
<1>2. \A b \in MapBlocks : disk[b] = mem.bv \cap BitsOf(b)
  BY <1>1 DEF IInv, MapShown, Shown, Behind
<1>3. OnDisk = mem.bv
  BY <1>1, <1>2, OnDiskIs DEF IInv
<1>4. TypeOK'
  BY <1>1 DEF IInv, TypeOK, Phases
<1>5. MapShown'
  BY <1>1, <1>2 DEF MapShown, Shown
<1>6. SafeShown'
  BY <1>1, <1>2 DEF SafeShown, Shown, Creating
<1>7. OnDisk' = OnDisk /\ disk[Root] = RootDir
  BY <1>1 DEF OnDisk, IInv, MapShown, Shown
<1>8. (InOrder /\ MountFindsAll /\ UsedExact /\ SafeOverCrashes)'
  BY <1>1, <1>3, <1>7 DEF InOrder, MountFindsAll, UsedExact, SafeOverCrashes, RootIsThere
<1> QED
  BY <1>4, <1>5, <1>6, <1>8 DEF IInv

\* One step of Next.
LEMMA NextIInv == IInv /\ [Next]_vars => IInv'
<1> SUFFICES ASSUME IInv, [Next]_vars PROVE IInv'
  OBVIOUS
<1>1. CASE UNCHANGED vars
  <2>1. TypeOK' /\ InOrder' /\ SafeShown' /\ UsedExact'
    BY <1>1 DEF vars, IInv, TypeOK, InOrder, SafeShown, Shown, UsedExact
  <2>2. MapShown'
    BY <1>1 DEF vars, IInv, MapShown, Shown, Behind
  <2>3. MountFindsAll' /\ SafeOverCrashes'
    BY <1>1 DEF vars, IInv, MountFindsAll, SafeOverCrashes, OnDisk, RootIsThere
  <2> QED
    BY <2>1, <2>2, <2>3 DEF IInv
<1>2. CASE CreateMap \/ CreateInodeMap \/ CreateInodes \/ CreateRoot \/ Crash
  BY <1>2, CreateMapStep, CreateInodeMapStep, CreateInodesStep, CreateRootStep, CrashStep
<1>3. CASE myfs_mount \/ UnmountBegin \/ UnmountEnd \/ FileDone
  BY <1>3, MountStep, UnmountBeginStep, UnmountEndStep, FileDoneStep
<1>4. ASSUME NEW i \in FileBlocks,
             myfs_allocate_blocks(i) \/ OverrunMap(i) \/ myfs_free_blocks(i)
      PROVE  IInv'
  BY <1>4, AllocateStep, FreeStep, FileDoneStep
<1>5. ASSUME NEW b \in Blocks, WriteOut(b)
      PROVE  IInv'
  BY <1>5, WriteOutStep
<1> QED
  BY <1>1, <1>2, <1>3, <1>4, <1>5 DEF Next

-----------------------------------------------------------------------------
(***************************************************************************)
(* A volume keeps IInv over creation, mounts, unmounts and crashes.        *)
(***************************************************************************)
THEOREM VolumeInvariant == Spec => []IInv
<1>1. Init => IInv
  BY InitIInv
<1>2. IInv /\ [Next]_vars => IInv'
  BY NextIInv
<1> QED
  BY <1>1, <1>2, PTL DEF Spec

\* The next mount finds the map, the count and the root directory that a
\* completed myfs_unmount left.
THEOREM VolumeMountFindsAll == Spec => []MountFindsAll
<1>1. IInv => MountFindsAll
  BY DEF IInv
<1> QED
  BY <1>1, VolumeInvariant, PTL

\* used_blocks of a mounted volume is exact whatever a crash left, but for
\* the blocks of the last partial word that were in use at the mount
\* (sanity_check_bitmap).
THEOREM VolumeUsedExact == Spec => []UsedExact
<1>1. IInv => UsedExact
  BY DEF IInv
<1> QED
  BY <1>1, VolumeInvariant, PTL

\* On a volume of whole words used_blocks is exact (sanity_check_bitmap).
THEOREM VolumeUsedIsReal == Spec => [](NumBlocks % WordBits = 0 => UsedIsReal)
<1>1. Init /\ NumBlocks % WordBits = 0 => missed = {}
  BY DEF Init
<1>2. ASSUME IInv, missed = {}, NumBlocks % WordBits = 0, [Next]_vars
      PROVE  missed' = {}
  <2>1. CASE myfs_mount
    <3>1. mem'.bv \subseteq HasBit
      <4>1. mem'.bv = OnDisk \cup {0}
        BY <2>1 DEF myfs_mount
      <4>2. OnDisk \subseteq HasBit
        BY <1>2, OnDiskBits DEF IInv, MapShown
      <4> QED
        BY <4>1, <4>2, BitsExist, Sizes
    <3>2. (NumBlocks \div WordBits) * WordBits = NumBlocks
      BY <1>2, VolumeAssumption
    <3>3. \A i \in mem'.bv : i \in 0 .. NumBlocks - 1
      BY <3>1, BitsExist
    <3>4. \A i \in mem'.bv : ~(i >= (NumBlocks \div WordBits) * WordBits)
      <4> DEFINE m == (NumBlocks \div WordBits) * WordBits
      <4>1. m = NumBlocks
        BY <3>2
      <4> HIDE DEF m
      <4>2. \A i \in mem'.bv : ~(i >= m)
        BY <4>1, <3>3, Sizes
      <4> QED
        BY <4>2 DEF m
    <3>5. missed' = Unseen(mem'.bv)
      BY <2>1 DEF myfs_mount
    <3> QED
      BY <3>4, <3>5 DEF Unseen
  <2>2. CASE ~myfs_mount
    BY <2>2, <1>2 DEF Next, CreateMap, CreateInodeMap, CreateInodes, CreateRoot, Crash,
       UnmountBegin, UnmountEnd, FileDone, myfs_allocate_blocks, OverrunMap,
       myfs_free_blocks, WriteOut, vars
  <2> QED
    BY <2>1, <2>2
<1>3. IInv /\ missed = {} => UsedIsReal
  <2>1. SUFFICES ASSUME IInv, missed = {}, phase = "up"
                 PROVE  mem.used = Cardinality(mem.bv)
    BY DEF UsedIsReal
  <2>2. mem.used \in Int /\ Cardinality({}) = 0
    BY <2>1, FS_EmptySet DEF IInv, TypeOK
  <2> QED
    BY <2>1, <2>2 DEF IInv, UsedExact
<1> DEFINE J == NumBlocks % WordBits = 0 => missed = {}
<1>4. Init => J
  BY <1>1
<1>5. IInv /\ J /\ [Next]_vars => J'
  BY <1>2
<1>6. IInv /\ J => (NumBlocks % WordBits = 0 => UsedIsReal)
  BY <1>3
<1> HIDE DEF J
<1> QED
  BY <1>4, <1>5, <1>6, VolumeInvariant, PTL DEF Spec

\* No crash and no write-back of part of the map loses a block that was in
\* use at an unmount.
THEOREM VolumeSafeOverCrashes == Spec => []SafeOverCrashes
<1>1. IInv => SafeOverCrashes
  BY DEF IInv
<1> QED
  BY <1>1, VolumeInvariant, PTL
=============================================================================
