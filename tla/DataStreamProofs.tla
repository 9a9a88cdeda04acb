-------------------------- MODULE DataStreamProofs --------------------------
(***************************************************************************)
(* Proofs about the data streams of myfs and the bit vectors under them,   *)
(* for every disk, every block and chunk size and every set of writes.     *)
(***************************************************************************)
EXTENDS DataStream, FiniteSetTheorems, WellFoundedInduction, TLAPS

BVs(n) == [numbits : {n}, bits : SUBSET (0 .. n - 1), next_free : Nat,
           is_full : BOOLEAN]

\* The bits of the chunks of a vector.
Total(bv) == Chunks(bv) * BITS_IN_CHUNK

\* A bit vector of n bits with its hint in range.
GoodBV(bv, n) == bv \in BVs(n) /\ bv.next_free < Total(bv)

\* A vector of whole chunks that says it is full is full.
FullOK(bv, n) == n % BITS_IN_CHUNK = 0 /\ bv.is_full => bv.bits = 0 .. n - 1

Inode == [size : Nat, indirect : Blocks,
          direct : [0 .. NUM_DIRECT_BLOCKS - 1 -> Blocks]]

Tables == [Blocks -> [0 .. max_index - 1 -> Blocks]]

\* The places of an inode, -1 standing for the indirect block, and the block
\* at each of them (0: none).
Places == -1 .. NUM_DIRECT_BLOCKS + max_index - 1

At(ino, tab, i) ==
    IF i = -1 THEN ino.indirect
    ELSE IF i < NUM_DIRECT_BLOCKS THEN ino.direct[i]
    ELSE IF ino.indirect = 0 THEN 0
    ELSE tab[ino.indirect][i - NUM_DIRECT_BLOCKS]

Held(ino, tab) == {At(ino, tab, i) : i \in Places} \ {0}

\* No block is at two places of an inode.
Sole(ino, tab) == \A i, j \in Places :
    At(ino, tab, i) # 0 /\ At(ino, tab, i) = At(ino, tab, j) => i = j

\* The block map and the count of the super block.
MapOK(bv, used) ==
    /\ GoodBV(bv, num_blocks)
    /\ FullOK(bv, num_blocks)
    /\ used = Cardinality(bv.bits)

\* An inode of n blocks: the direct addresses are exactly those of the size;
\* the addresses in the indirect block have no gap and are at least as many as
\* the size says.
Shape(ino, tab, n) ==
    /\ n <= NUM_DIRECT_BLOCKS + max_index
    /\ \A i \in 0 .. NUM_DIRECT_BLOCKS - 1 : At(ino, tab, i) # 0 <=> i < n
    /\ \A i \in Places : i >= NUM_DIRECT_BLOCKS /\ i < n => At(ino, tab, i) # 0
    /\ \A i, j \in Places :
         i >= NUM_DIRECT_BLOCKS /\ i < j /\ At(ino, tab, j) # 0 => At(ino, tab, i) # 0

\* What the inode on disk leads to, the inode in core leads to.
Within(disk, core) ==
    /\ disk.indirect # 0 => core.indirect = disk.indirect
    /\ \A i \in 0 .. NUM_DIRECT_BLOCKS - 1 :
         disk.direct[i] # 0 => core.direct[i] = disk.direct[i]

TypeOK ==
    /\ GoodBV(inode_map, num_inodes)
    /\ ReservedInodes \subseteq inode_map.bits
    /\ mi \in [Files -> Inode]
    /\ ondisk \in [Files -> Inode]
    /\ indirects \in Tables
    /\ dead \in BOOLEAN

FileOK(f) ==
    /\ Shape(mi[f], indirects, NumBlocksOf(mi[f]))
    /\ Shape(ondisk[f], indirects, NumBlocksOf(ondisk[f]))
    /\ Within(ondisk[f], mi[f])
    /\ Sole(mi[f], indirects)
    /\ Held(mi[f], indirects) \subseteq bbm.bits \ Reserved

Disjoint == \A f, g \in Files :
    f # g => Held(mi[f], indirects) \cap Held(mi[g], indirects) = {}

Inv ==
    /\ TypeOK
    /\ MapOK(bbm, used_blocks)
    /\ Reserved \subseteq bbm.bits
    /\ \A f \in Files : FileOK(f)
    /\ Disjoint
-----------------------------------------------------------------------------
(***************************************************************************)
(* Induction and recursion.  The provers know neither; both follow from    *)
(* the well-foundedness of < on the natural numbers, for sets of numbers   *)
(* instead of predicates.                                                  *)
(***************************************************************************)
\* A nonempty set of natural numbers has a least element.
LEMMA LeastNat ==
    ASSUME NEW T, T \subseteq Nat, T # {}
    PROVE  \E n \in T : \A m \in T : n <= m
<1> DEFINE R == {ss \in Nat \X Nat : ss[1] < ss[2]}
<1>1. IsWellFoundedOn(R, Nat)
  BY NatLessThanWellFounded DEF OpToRel
<1>2. \A x, y \in Nat : ~ (<<y, x>> \in R) => x <= y
  OBVIOUS
<1> HIDE DEF R
<1>3. PICK x \in T : \A y \in T : ~ (<<y, x>> \in R)
  BY <1>1, WFMin, Zenon
<1>4. \A m \in T : x <= m
  BY <1>2, <1>3
<1> QED  BY <1>4

\* A set of numbers up to N that holds 0 and with each the next holds them all.
LEMMA UpTo ==
    ASSUME NEW N \in Nat, NEW P, 0 \in P,
           \A n \in 1 .. N : n - 1 \in P => n \in P
    PROVE  0 .. N \subseteq P
<1> SUFFICES ASSUME (0 .. N) \ P # {}  PROVE FALSE
  OBVIOUS
<1>1. (0 .. N) \ P \subseteq Nat
  OBVIOUS
<1>2. PICK x \in (0 .. N) \ P : \A y \in (0 .. N) \ P : x <= y
  BY <1>1, LeastNat, Zenon
<1>3. x \in 1 .. N /\ x - 1 \in 0 .. N
  BY <1>2
<1>4. x - 1 \in P
  BY <1>2, <1>3
<1> QED  BY <1>2, <1>3, <1>4

\* A recursive function on 0 .. N whose steps stay in S exists.
Steps(S, s, N, F) == s \in S /\ N \in Nat /\ F \in [(1 .. N) \X S -> S]

Runs(S, s, N, F, g) ==
    /\ g \in [0 .. N -> S]
    /\ g[0] = s
    /\ \A k \in 1 .. N : g[k] = F[<<k, g[k - 1]>>]

LEMMA Recursion ==
    ASSUME NEW S, NEW s, NEW N, NEW F, Steps(S, s, N, F)
    PROVE  \E g : Runs(S, s, N, F, g)
<1> USE DEF Steps
<1> DEFINE Good(n, g) == g[0] = s /\ \A k \in 1 .. n : g[k] = F[<<k, g[k - 1]>>]
           P == {n \in 0 .. N : \E g \in [0 .. n -> S] : Good(n, g)}
<1>1. 0 \in P
  <2> DEFINE g == [k \in 0 .. 0 |-> s]
  <2>1. g \in [0 .. 0 -> S] /\ Good(0, g)
    OBVIOUS
  <2> HIDE DEF g
  <2> QED  BY <2>1
<1>2. ASSUME NEW n \in 1 .. N, n - 1 \in P  PROVE n \in P
  <2>1. PICK g \in [0 .. n - 1 -> S] : Good(n - 1, g)
    BY <1>2
  <2> DEFINE h == [k \in 0 .. n |-> IF k = n THEN F[<<n, g[n - 1]>>] ELSE g[k]]
  <2>2. h \in [0 .. n -> S]
    <3>1. g[n - 1] \in S
      OBVIOUS
    <3>2. F[<<n, g[n - 1]>>] \in S
      BY <3>1
    <3> QED  BY <3>2
  <2>3. h[0] = s
    BY <2>1
  <2>4. ASSUME NEW k \in 1 .. n  PROVE h[k] = F[<<k, h[k - 1]>>]
    <3>1. h[k - 1] = g[k - 1]
      OBVIOUS
    <3>2. CASE k = n
      <4>1. h[n] = F[<<n, g[n - 1]>>]
        OBVIOUS
      <4> HIDE DEF h
      <4> QED  BY <3>1, <3>2, <4>1
    <3>3. CASE k # n
      <4>1. k \in 1 .. n - 1
        BY <3>3
      <4>2. g[k] = F[<<k, g[k - 1]>>]
        BY <4>1, <2>1
      <4>3. h[k] = g[k]
        BY <3>3
      <4> QED  BY <3>1, <4>2, <4>3
    <3> QED  BY <3>2, <3>3
  <2> HIDE DEF h
  <2> QED  BY <2>2, <2>3, <2>4
<1> HIDE DEF P
<1>3. 0 .. N \subseteq P
  BY <1>1, <1>2, UpTo
<1>4. N \in P
  BY <1>3
<1>5. PICK g \in [0 .. N -> S] : Good(N, g)
  BY <1>4 DEF P
<1> QED  BY <1>5 DEF Runs

\* A recursive function on D that calls itself, outside Z, where a bounded
\* measure m is smaller exists.
Descends(D, V, Z, N, next, m, h, z) ==
    /\ V # {} /\ N \in Nat
    /\ next \in [D -> D] /\ m \in [D -> 0 .. N]
    /\ h \in [D \X V -> V] /\ z \in [D -> V]
    /\ \A x \in D : x \notin Z => m[next[x]] < m[x]

Solves(D, Z, next, h, z, g) ==
    \A x \in D : g[x] = IF x \in Z THEN z[x] ELSE h[<<x, g[next[x]]>>]

LEMMA Descent ==
    ASSUME NEW D, NEW V, NEW Z, NEW N, NEW next, NEW m, NEW h, NEW z,
           Descends(D, V, Z, N, next, m, h, z)
    PROVE  \E g \in [D -> V] : Solves(D, Z, next, h, z, g)
<1> USE DEF Descends, Solves
<1>0. PICK v \in V : TRUE
  OBVIOUS
<1> DEFINE Good(n, g) == \A x \in D : m[x] <= n =>
               g[x] = IF x \in Z THEN z[x] ELSE h[<<x, g[next[x]]>>]
           P == {n \in 0 .. N : \E g \in [D -> V] : Good(n, g)}
           Better(g) == [x \in D |->
               IF x \in Z THEN z[x] ELSE h[<<x, g[next[x]]>>]]
<1>1. ASSUME NEW g \in [D -> V]  PROVE Better(g) \in [D -> V]
  OBVIOUS
<1>2. 0 \in P
  <2> DEFINE g == Better([x \in D |-> v])
  <2>1. g \in [D -> V]
    BY <1>1
  <2>2. Good(0, g)
    <3> SUFFICES ASSUME NEW x \in D, m[x] <= 0  PROVE x \in Z
      OBVIOUS
    <3>1. m[x] \in 0 .. N /\ m[next[x]] \in 0 .. N
      OBVIOUS
    <3> QED  BY <3>1
  <2> HIDE DEF g
  <2> QED  BY <2>1, <2>2
<1>3. ASSUME NEW n \in 1 .. N, n - 1 \in P  PROVE n \in P
  <2>1. PICK g \in [D -> V] : Good(n - 1, g)
    BY <1>3
  <2> DEFINE w == Better(g)
  <2>2. w \in [D -> V]
    BY <1>1
  <2>3. ASSUME NEW x \in D, m[x] <= n - 1  PROVE w[x] = g[x]
    BY <2>1, <2>3
  <2>4. ASSUME NEW x \in D, m[x] <= n, x \notin Z  PROVE w[next[x]] = g[next[x]]
    <3>1. m[x] \in 0 .. N /\ m[next[x]] \in 0 .. N /\ next[x] \in D
      OBVIOUS
    <3>2. m[next[x]] <= n - 1
      BY <2>4, <3>1
    <3> QED  BY <3>1, <3>2, <2>3
  <2>5. Good(n, w)
    BY <2>4
  <2> HIDE DEF w
  <2> QED  BY <2>2, <2>5
<1> HIDE DEF P
<1>4. 0 .. N \subseteq P
  BY <1>2, <1>3, UpTo
<1>5. N \in P
  BY <1>4
<1>6. PICK g \in [D -> V] : Good(N, g)
  BY <1>5 DEF P
<1>7. \A x \in D : m[x] <= N
  OBVIOUS
<1> QED  BY <1>6, <1>7
-----------------------------------------------------------------------------
(***************************************************************************)
(* Sizes in bytes and in blocks.                                           *)
(***************************************************************************)
LEMMA DivBounds ==
    ASSUME NEW d \in Nat \ {0}, NEW n \in Int
    PROVE  /\ n \div d \in Int
           /\ (n \div d) * d <= n
           /\ n < (n \div d + 1) * d
           /\ n >= 0 => n \div d >= 0
OBVIOUS

LEMMA DivIs ==
    ASSUME NEW d \in Nat \ {0}, NEW n \in Int, NEW q \in Int,
           q * d <= n, n < (q + 1) * d
    PROVE  n \div d = q
OBVIOUS

LEMMA ModIs ==
    ASSUME NEW d \in Nat \ {0}, NEW n \in Int
    PROVE  n % d = n - (n \div d) * d /\ n % d \in 0 .. d - 1
OBVIOUS

LEMMA MulOrder ==
    ASSUME NEW d \in Nat \ {0}, NEW a \in Int, NEW b \in Int
    PROVE  /\ a * d < b * d <=> a < b
           /\ a * d <= b * d <=> a <= b
           /\ a * d = b * d <=> a = b
           /\ a * d \in Int
           /\ (a + b) * d = a * d + b * d
           /\ (a - b) * d = a * d - b * d
           /\ (a + 1) * d = a * d + d
           /\ (a - 1) * d = a * d - d
OBVIOUS

LEMMA Facts ==
    /\ bsize \in Nat \ {0, 1} /\ bsize \in Nat \ {0}
    /\ NUM_DIRECT_BLOCKS \in Nat /\ max_index \in Nat
    /\ num_blocks \in Nat \ {0} /\ num_inodes \in Nat \ {0}
    /\ BITS_IN_CHUNK \in Nat \ {0}
    /\ 0 \in Reserved /\ Reserved \subseteq Blocks /\ 0 \in Blocks
    /\ 0 \in ReservedInodes /\ ReservedInodes \subseteq Inodes
    /\ WriteEnds \subseteq Nat \ {0} /\ Sizes \subseteq Nat
BY StreamAssumption, ChunkAssumption DEF Blocks, Inodes

\* The number of blocks a size takes.
Up(n) == (n + bsize - 1) \div bsize

LEMMA UpIs ==
    ASSUME NEW n \in Nat
    PROVE  /\ Up(n) \in Nat
           /\ RoundUp(n) = Up(n) * bsize
           /\ n <= Up(n) * bsize
           /\ (Up(n) - 1) * bsize < n
<1>1. n + bsize - 1 \in Nat /\ bsize \in Nat \ {0}
  BY Facts
<1>2. /\ Up(n) \in Nat
      /\ Up(n) * bsize <= n + bsize - 1
      /\ n + bsize - 1 < (Up(n) + 1) * bsize
  BY <1>1, DivBounds DEF Up
<1>3. RoundUp(n) = Up(n) * bsize
  BY DEF Up, RoundUp
<1>4. (Up(n) + 1) * bsize = Up(n) * bsize + bsize /\ Up(n) * bsize \in Int
      /\ (Up(n) - 1) * bsize = Up(n) * bsize - bsize
  BY <1>1, <1>2, MulOrder
<1> QED  BY <1>1, <1>2, <1>3, <1>4

\* A size between two block boundaries takes the blocks up to the second.
LEMMA UpAt ==
    ASSUME NEW n \in Nat, NEW q \in Nat, n <= q * bsize, (q - 1) * bsize < n
    PROVE  Up(n) = q
<1>1. n + bsize - 1 \in Int /\ bsize \in Nat \ {0} /\ q \in Int
  BY Facts
<1>2. (q + 1) * bsize = q * bsize + bsize /\ q * bsize \in Int
      /\ (q - 1) * bsize = q * bsize - bsize
  BY <1>1, MulOrder
<1>3. q * bsize <= n + bsize - 1 /\ n + bsize - 1 < (q + 1) * bsize
  BY <1>1, <1>2
<1> QED  BY <1>1, <1>3, DivIs DEF Up

LEMMA UpMultiple ==
    ASSUME NEW q \in Nat
    PROVE  q * bsize \in Nat /\ Up(q * bsize) = q /\ (q * bsize) \div bsize = q
<1>1. q * bsize \in Nat /\ (q - 1) * bsize < q * bsize /\ q * bsize < (q + 1) * bsize
  <2>1. bsize \in Nat \ {0} /\ q \in Int
    BY Facts
  <2>2. q * bsize \in Int /\ 0 * bsize <= q * bsize
        /\ (q - 1) * bsize = q * bsize - bsize /\ (q + 1) * bsize = q * bsize + bsize
    BY <2>1, MulOrder
  <2> QED  BY <2>1, <2>2
<1>2. Up(q * bsize) = q
  BY <1>1, UpAt
<1>3. (q * bsize) \div bsize = q
  BY <1>1, DivIs, Facts
<1> QED  BY <1>1, <1>2, <1>3

LEMMA UpMono ==
    ASSUME NEW m \in Nat, NEW n \in Nat, m <= n
    PROVE  Up(m) <= Up(n)
<1>1. (Up(m) - 1) * bsize < Up(n) * bsize
  <2>1. Up(m) \in Nat /\ Up(n) \in Nat /\ n <= Up(n) * bsize /\ (Up(m) - 1) * bsize < m
    BY UpIs
  <2>2. (Up(m) - 1) * bsize \in Int /\ Up(n) * bsize \in Int
    BY <2>1, MulOrder, Facts
  <2> QED  BY <2>1, <2>2
<1>2. Up(m) - 1 < Up(n) /\ Up(m) \in Nat /\ Up(n) \in Nat
  <2>1. Up(m) \in Nat /\ Up(n) \in Nat
    BY UpIs
  <2>2. Up(m) - 1 \in Int /\ bsize \in Nat \ {0}
    BY <2>1, Facts
  <2> QED  BY <2>1, <2>2, <1>1, MulOrder
<1> QED  BY <1>2

\* The rounding of shrink_dstream is right except one byte past a boundary.
LEMMA ShrunkSizeIs ==
    ASSUME NEW n \in Nat, n % bsize # 1
    PROVE  ShrunkSize(n) = Up(n) * bsize
<1> DEFINE q == Up(n)
<1>0. bsize \in Nat \ {0} /\ bsize \in Nat \ {0, 1} /\ q \in Nat
  BY Facts, UpIs
<1>1. n <= q * bsize /\ (q - 1) * bsize < n
  BY UpIs
<1>2. (q - 1) * bsize = q * bsize - bsize /\ q * bsize \in Int
      /\ (q + 1) * bsize = q * bsize + bsize
  BY <1>0, MulOrder
<1>3. n # (q - 1) * bsize + 1
  <2> SUFFICES ASSUME n = (q - 1) * bsize + 1  PROVE FALSE
    OBVIOUS
  <2>1. q - 1 \in Int /\ n \in Int /\ (q - 1) * bsize \in Int
    BY <1>0, <1>2
  <2>2. n < (q - 1 + 1) * bsize
    BY <1>0, <1>2, <2>1
  <2>3. n \div bsize = q - 1
    BY <2>1, <2>2, <1>0, DivIs
  <2>4. n % bsize = n - (n \div bsize) * bsize
    BY <1>0, <2>1, ModIs
  <2>5. n % bsize = 1
    BY <2>1, <2>3, <2>4
  <2> QED  BY <2>5
<1>4. q * bsize <= n - 1 + bsize - 1 /\ n - 1 + bsize - 1 < (q + 1) * bsize
  BY <1>0, <1>1, <1>2, <1>3
<1>5. (n - 1 + bsize - 1) \div bsize = q
  <2>1. n - 1 + bsize - 1 \in Int /\ q \in Int
    BY <1>0
  <2> QED  BY <1>0, <1>4, <2>1, DivIs
<1> QED  BY <1>5 DEF ShrunkSize

LEMMA NumBlocksIs ==
    ASSUME NEW ino, ino.size \in Nat
    PROVE  NumBlocksOf(ino) = Up(ino.size) /\ NumBlocksOf(ino) \in Nat
<1>1. RoundUp(ino.size) = Up(ino.size) * bsize /\ Up(ino.size) \in Nat
  BY UpIs
<1>2. (Up(ino.size) * bsize) \div bsize = Up(ino.size)
  BY <1>1, UpMultiple
<1> QED  BY <1>1, <1>2 DEF NumBlocksOf

\* The ranges of the addresses, in blocks.
LEMMA Ranges ==
    ASSUME NEW m \in Nat
    PROVE  /\ m * bsize < DIRECT_SIZE <=> m < NUM_DIRECT_BLOCKS
           /\ m * bsize < MAX_INDIRECT_RANGE <=> m < NUM_DIRECT_BLOCKS + max_index
           /\ m >= NUM_DIRECT_BLOCKS =>
                (m * bsize - DIRECT_SIZE) \div bsize = m - NUM_DIRECT_BLOCKS
<1>1. bsize \in Nat \ {0} /\ NUM_DIRECT_BLOCKS \in Int /\ max_index \in Int /\ m \in Int
  BY Facts
<1>2. MAX_INDIRECT_RANGE = (NUM_DIRECT_BLOCKS + max_index) * bsize
  BY <1>1, MulOrder DEF MAX_INDIRECT_RANGE, DIRECT_SIZE, INDIRECT_SIZE
<1>3. m * bsize < DIRECT_SIZE <=> m < NUM_DIRECT_BLOCKS
  BY <1>1, MulOrder DEF DIRECT_SIZE
<1>4. m * bsize < MAX_INDIRECT_RANGE <=> m < NUM_DIRECT_BLOCKS + max_index
  <2>1. NUM_DIRECT_BLOCKS + max_index \in Int
    BY <1>1
  <2> QED  BY <1>1, <1>2, <2>1, MulOrder
<1>5. ASSUME m >= NUM_DIRECT_BLOCKS
      PROVE  (m * bsize - DIRECT_SIZE) \div bsize = m - NUM_DIRECT_BLOCKS
  <2>1. m * bsize - DIRECT_SIZE = (m - NUM_DIRECT_BLOCKS) * bsize
    BY <1>1, MulOrder DEF DIRECT_SIZE
  <2>2. m - NUM_DIRECT_BLOCKS \in Nat
    BY <1>1, <1>5, Facts
  <2> QED  BY <2>1, <2>2, UpMultiple
<1> QED  BY <1>3, <1>4, <1>5
-----------------------------------------------------------------------------
(***************************************************************************)
(* The search for one free bit.                                            *)
(***************************************************************************)
Free(bv) == Positions(bv) \ bv.bits

LEMMA TotalIs ==
    ASSUME NEW n \in Nat \ {0}, NEW bv \in BVs(n)
    PROVE  /\ Total(bv) \in Nat \ {0}
           /\ Chunks(bv) \in Nat \ {0}
           /\ n <= Total(bv)
           /\ n % BITS_IN_CHUNK = 0 => Total(bv) = n
           /\ Positions(bv) = 0 .. n - 1
<1> DEFINE B == BITS_IN_CHUNK
           c == Chunks(bv)
<1>0. B \in Nat \ {0} /\ bv.numbits = n
  BY Facts DEF BVs
<1>1. n + B - 1 \in Nat /\ c = (n + B - 1) \div B
  BY <1>0 DEF Chunks
<1> HIDE DEF B, c
<1>2. c \in Int /\ c * B <= n + B - 1 /\ n + B - 1 < (c + 1) * B
  BY <1>0, <1>1, DivBounds
<1>3. (c + 1) * B = c * B + B /\ c * B \in Int
  BY <1>0, <1>2, MulOrder
<1>4. n <= c * B
  BY <1>0, <1>2, <1>3
<1>5. c > 0
  <2>1. 0 * B < c * B
    BY <1>0, <1>3, <1>4
  <2> QED  BY <1>0, <1>2, <2>1, MulOrder
<1>6. ASSUME n % B = 0  PROVE c * B = n
  <2>1. n = (n \div B) * B /\ n \div B \in Int
    BY <1>0, <1>6, ModIs, DivBounds
  <2>2. PICK q \in Int : q = n \div B
    BY <2>1
  <2>3. q * B <= n + B - 1 /\ n + B - 1 < (q + 1) * B
    BY <2>1, <2>2, <1>0, MulOrder
  <2>4. PICK r \in Int : r = n + B - 1
    BY <1>0
  <2>5. r \div B = q
    BY <1>0, <2>3, <2>4, DivIs
  <2>6. c = q
    BY <1>1, <2>4, <2>5
  <2> QED  BY <2>1, <2>2, <2>6
<1>7. Total(bv) = c * B
  BY DEF Total, c, B
<1>8. Positions(bv) = 0 .. n - 1
  BY <1>0 DEF Positions
<1> QED  BY <1>0, <1>2, <1>3, <1>4, <1>5, <1>6, <1>7, <1>8 DEF c, B

LEMMA FreeRunIs ==
    ASSUME NEW bv, NEW s \in Nat
    PROVE  FreeRun(bv, s, 1) = IF s \in Free(bv) THEN 1 ELSE 0
<1> DEFINE Q(k) == /\ s .. s + k - 1 \subseteq Free(bv)
                   /\ k = 1 \/ s + k \notin Free(bv)
<1>1. FreeRun(bv, s, 1) = CHOOSE k \in 0 .. 1 : Q(k)
  BY DEF FreeRun, Free
<1>2. s .. s + 1 - 1 = {s} /\ s .. s + 0 - 1 = {}
  OBVIOUS
<1>3. Q(1) <=> s \in Free(bv)
  BY <1>2
<1>4. Q(0) <=> s \notin Free(bv)
  BY <1>2
<1> HIDE DEF Q
<1>5. \A k \in 0 .. 1 : k = 0 \/ k = 1
  OBVIOUS
<1>6. CASE s \in Free(bv)
  <2>1. \A k \in 0 .. 1 : Q(k) <=> k = 1
    BY <1>3, <1>4, <1>5, <1>6
  <2> QED  BY <1>1, <1>6, <2>1
<1>7. CASE s \notin Free(bv)
  <2>1. \A k \in 0 .. 1 : Q(k) <=> k = 0
    BY <1>3, <1>4, <1>5, <1>7
  <2> QED  BY <1>1, <1>7, <2>1
<1> QED  BY <1>6, <1>7

\* Past a bit that is not free: one bit, or off the end of the vector two
\* chunks less what was passed of the first.
LEMMA AheadIs ==
    ASSUME NEW n \in Nat \ {0}, NEW bv \in BVs(n), NEW s \in Nat, s \notin Free(bv)
    PROVE  Ahead(bv, s, 0) =
              IF s \in bv.bits THEN 1 ELSE 2 * BITS_IN_CHUNK - (s % BITS_IN_CHUNK)
<1>1. CASE s \in bv.bits
  BY <1>1 DEF Ahead
<1>2. CASE s \notin bv.bits
  <2> DEFINE B == BITS_IN_CHUNK
  <2>1. bv.numbits = n /\ ~(s + 0 < bv.numbits) /\ s + 0 = s
    BY <1>2 DEF Free, Positions, BVs
  <2>2. B \in Nat \ {0} /\ s \div B \in Int /\ s % B \in Int
    BY Facts, DivBounds, ModIs
  <2>3. (s + 0) \div B - s \div B = 0
    BY <2>1, <2>2
  <2>4. Max({0, 1}) = 1
    BY DEF Max
  <2>5. Ahead(bv, s, 0) = (Max({(s + 0) \div B - s \div B, 1}) + 1) * B - (s % B)
    BY <1>2, <2>1 DEF Ahead
  <2>6. Ahead(bv, s, 0) = (1 + 1) * B - (s % B)
    BY <2>3, <2>4, <2>5
  <2> QED  BY <1>2, <2>2, <2>6
<1> QED  BY <1>1, <1>2

LEMMA ModShift ==
    ASSUME NEW d \in Nat \ {0}, NEW x \in Int, NEW k \in Int
    PROVE  (x + k * d) % d = x % d
<1>1. PICK q \in Int : q = x \div d /\ q * d <= x /\ x < (q + 1) * d
  BY DivBounds
<1>2. k * d \in Int /\ (q + k) * d = q * d + k * d /\ q * d \in Int
      /\ (q + k + 1) * d = (q + k) * d + d /\ (q + 1) * d = q * d + d
  BY MulOrder
<1>3. PICK y \in Int : y = x + k * d
  BY <1>2
<1>4. (q + k) * d <= y /\ y < (q + k + 1) * d
  BY <1>1, <1>2, <1>3
<1>5. y \div d = q + k
  BY <1>3, <1>4, DivIs
<1>6. y % d = y - (y \div d) * d /\ x % d = x - (x \div d) * d
  BY ModIs
<1>7. y % d = y - (q + k) * d
  BY <1>5, <1>6
<1>8. x % d = x - q * d
  BY <1>1, <1>6
<1>9. y % d = x % d
  BY <1>2, <1>3, <1>7, <1>8
<1> QED  BY <1>3, <1>9

LEMMA PlaceIs ==
    ASSUME NEW n \in Nat \ {0}, NEW bv, GoodBV(bv, n), NEW x \in Nat
    PROVE  /\ Place(bv, x) \in 0 .. Total(bv) - 1
           /\ Place(bv, x) % BITS_IN_CHUNK = x % BITS_IN_CHUNK
<1> DEFINE B == BITS_IN_CHUNK
           T == Total(bv)
           y == (bv.next_free \div B) * B + x
<1>1. B \in Nat \ {0} /\ T \in Nat \ {0} /\ Chunks(bv) \in Int
      /\ T = Chunks(bv) * B
  BY Facts, TotalIs DEF GoodBV, Total
<1>2. bv.next_free \in Nat
  BY DEF GoodBV, BVs
<1>3. PICK c \in Int : c = bv.next_free \div B
  BY <1>1, <1>2, DivBounds
<1>4. y = c * B + x /\ y \in Int
  BY <1>1, <1>3, MulOrder
<1>5. Place(bv, x) = y % T
  BY DEF Place, Total
<1> HIDE DEF y, T, B
<1>6. y % T = y - (y \div T) * T /\ y % T \in 0 .. T - 1 /\ y \div T \in Int
  BY <1>1, <1>4, ModIs, DivBounds
<1>7. PICK k \in Int : k = c - (y \div T) * Chunks(bv)
  BY <1>1, <1>6
<1>8. y % T = x + k * B
  <2>1. PICK e \in Int : e = y \div T
    BY <1>6
  <2>2. PICK K \in Int : K = Chunks(bv)
    BY <1>1
  <2>3. y % T = c * B + x - e * (K * B)
    BY <2>1, <2>2, <1>6, <1>4, <1>1
  <2>4. k = c - e * K
    BY <2>1, <2>2, <1>7
  <2>5. (c - e * K) * B = c * B - e * (K * B)
    BY <1>1
  <2>6. c * B \in Int /\ e * (K * B) \in Int
    BY <1>1
  <2> QED  BY <2>3, <2>4, <2>5, <2>6
<1>9. (x + k * B) % B = x % B
  <2>1. x \in Int
    OBVIOUS
  <2> QED  BY <1>1, <2>1, ModShift, Zenon
<1> QED  BY <1>5, <1>6, <1>8, <1>9 DEF T, B

\* Where the search stops without a result, and where it goes next.
Stop(bv, x) == x >= Total(bv) /\ x % BITS_IN_CHUNK = 0

Following(bv, x) == x + Ahead(bv, Place(bv, x), 0)

Measure(bv, x) ==
    IF x < Total(bv) THEN Total(bv) - x + BITS_IN_CHUNK
    ELSE IF x % BITS_IN_CHUNK = 0 THEN 0
    ELSE BITS_IN_CHUNK - (x % BITS_IN_CHUNK)

LEMMA ModNext ==
    ASSUME NEW d \in Nat \ {0}, NEW x \in Nat
    PROVE  /\ (x + 1) % d = IF x % d = d - 1 THEN 0 ELSE (x % d) + 1
           /\ (x + (2 * d - (x % d))) % d = 0
<1>1. PICK q \in Int : q = x \div d
  BY DivBounds
<1>2. PICK e \in Int : e = q * d
  OBVIOUS
<1>3. (q + 1) * d = e + d /\ (q + 2) * d = e + 2 * d
      /\ (q + 2 + 1) * d = e + 3 * d /\ (q + 1 + 1) * d = e + 2 * d
  BY <1>2
<1>4. PICK r \in 0 .. d - 1 : r = x % d /\ r = x - e
  <2>1. x \in Int
    OBVIOUS
  <2>2. x % d = x - (x \div d) * d /\ x % d \in 0 .. d - 1
    BY <2>1, ModIs
  <2>3. x % d = x - e
    BY <1>1, <1>2, <2>2
  <2> QED  BY <2>2, <2>3
<1>5. PICK y \in Int : y = x + 1
  OBVIOUS
<1>6. y % d = y - (y \div d) * d
  BY ModIs
<1>7. ASSUME r = d - 1  PROVE (x + 1) % d = 0
  <2>1. q + 1 \in Int /\ (q + 1) * d <= y /\ y < (q + 1 + 1) * d
    BY <1>3, <1>4, <1>5, <1>7
  <2>2. y \div d = q + 1
    BY <2>1, DivIs
  <2>3. y % d = y - (e + d)
    BY <1>3, <1>6, <2>2
  <2> QED  BY <2>3, <1>4, <1>5, <1>7
<1>8. ASSUME r # d - 1  PROVE (x + 1) % d = r + 1
  <2>1. q * d <= y /\ y < (q + 1) * d
    BY <1>2, <1>3, <1>4, <1>5, <1>8
  <2>2. y \div d = q
    BY <2>1, DivIs
  <2>3. y % d = y - e
    BY <1>2, <1>6, <2>2
  <2> QED  BY <2>3, <1>4, <1>5, <1>8
<1>9. (x + (2 * d - (x % d))) % d = 0
  <2>1. PICK w \in Int : w = x + (2 * d - (x % d)) /\ w = e + 2 * d
    BY <1>4
  <2>2. q + 2 \in Int /\ (q + 2) * d <= w /\ w < (q + 2 + 1) * d
    BY <1>3, <2>1
  <2>3. w \div d = q + 2
    BY <2>2, DivIs
  <2>4. w % d = w - (w \div d) * d
    BY ModIs
  <2>5. w % d = w - (e + 2 * d)
    BY <1>3, <2>3, <2>4
  <2> QED  BY <2>1, <2>5
<1>10. (x + 1) % d = IF x % d = d - 1 THEN 0 ELSE (x % d) + 1
  BY <1>4, <1>5, <1>7, <1>8
<1> QED  BY <1>9, <1>10

\* The search comes to an end.
LEMMA MeasureFalls ==
    ASSUME NEW n \in Nat \ {0}, NEW bv, GoodBV(bv, n), NEW x \in Nat
    PROVE  /\ Measure(bv, x) \in 0 .. Total(bv) + BITS_IN_CHUNK
           /\ ~Stop(bv, x) /\ Place(bv, x) \notin Free(bv) =>
                /\ Following(bv, x) \in Nat
                /\ Measure(bv, Following(bv, x)) < Measure(bv, x)
                /\ Place(bv, x) \in bv.bits => Following(bv, x) = x + 1
<1> DEFINE B == BITS_IN_CHUNK
           T == Total(bv)
           p == Place(bv, x)
           y == Following(bv, x)
<1>1. B \in Nat \ {0} /\ T \in Nat \ {0} /\ bv \in BVs(n)
  BY Facts, TotalIs DEF GoodBV
<1>2. p \in Nat /\ p % B = x % B
  BY PlaceIs, <1>1
<1>3. x % B \in 0 .. B - 1
  BY <1>1, ModIs
<1>4. Measure(bv, x) \in 0 .. T + B
  BY <1>1, <1>3 DEF Measure
<1>5. ASSUME ~Stop(bv, x), p \notin Free(bv)
      PROVE  /\ y \in Nat /\ Measure(bv, y) < Measure(bv, x)
             /\ p \in bv.bits => y = x + 1
  <2>1. Ahead(bv, p, 0) = IF p \in bv.bits THEN 1 ELSE 2 * B - (p % B)
    BY <1>1, <1>2, <1>5, AheadIs
  <2>2. y = IF p \in bv.bits THEN x + 1 ELSE x + (2 * B - (x % B))
    BY <1>2, <2>1 DEF Following
  <2>3. x >= T => x % B # 0
    BY <1>5 DEF Stop
  <2> HIDE DEF y, p, T, B
  <2>4. y \in Nat /\ y > x
    BY <1>1, <1>3, <2>2
  <2>5. y % B \in 0 .. B - 1
    BY <1>1, <2>4, ModIs
  <2>6. Measure(bv, x) = IF x < T THEN T - x + B ELSE B - (x % B)
    <3>1. x < T \/ x >= T
      BY <1>1
    <3> QED  BY <2>3, <3>1 DEF Measure, T, B
  <2>7. Measure(bv, y) = IF y < T THEN T - y + B
                         ELSE IF y % B = 0 THEN 0 ELSE B - (y % B)
    BY DEF Measure, T, B
  <2>a. PICK a \in 0 .. B - 1 : a = x % B
    BY <1>3
  <2>b. PICK b \in 0 .. B - 1 : b = y % B
    BY <2>5
  <2>c. Measure(bv, x) = IF x < T THEN T - x + B ELSE B - a
    BY <2>6, <2>a
  <2>d. Measure(bv, y) = IF y < T THEN T - y + B ELSE IF b = 0 THEN 0 ELSE B - b
    BY <2>7, <2>b
  <2>8. ASSUME x < T  PROVE Measure(bv, y) < Measure(bv, x)
    <3>1. CASE y < T
      BY <1>1, <2>4, <2>c, <2>d, <2>8, <3>1
    <3>2. CASE ~(y < T)
      BY <1>1, <2>4, <2>c, <2>d, <2>8, <3>2
    <3> QED  BY <3>1, <3>2
  <2>9. ASSUME x >= T  PROVE Measure(bv, y) < Measure(bv, x)
    <3>1. y % B = 0 \/ y % B = (x % B) + 1
      <4>1. (x + 1) % B = IF x % B = B - 1 THEN 0 ELSE (x % B) + 1
        BY <1>1, ModNext
      <4>2. (x + (2 * B - (x % B))) % B = 0
        BY <1>1, ModNext
      <4> QED  BY <2>2, <4>1, <4>2
    <3>2. b = 0 \/ b = a + 1
      BY <2>a, <2>b, <3>1
    <3>3. a # 0 /\ ~(x < T) /\ ~(y < T)
      BY <1>1, <2>3, <2>4, <2>9, <2>a
    <3> QED  BY <1>1, <2>c, <2>d, <3>2, <3>3
  <2> QED  BY <1>1, <2>2, <2>4, <2>8, <2>9
<1> QED  BY <1>4, <1>5

\* What the recursion of the search says, bit by bit.
Scans(bv, g) == \A x \in Nat :
    g[x] = IF Stop(bv, x) THEN [start |-> -1, set |-> 0]
           ELSE IF Place(bv, x) \in Free(bv) THEN [start |-> Place(bv, x), set |-> 0]
           ELSE [g[Following(bv, x)] EXCEPT
                    !.set = IF Place(bv, x) \in bv.bits THEN @ + 1 ELSE @]

\* The recursion has a solution.
LEMMA ScanExists ==
    ASSUME NEW n \in Nat \ {0}, NEW bv, GoodBV(bv, n)
    PROVE  \E g \in [Nat -> [start : Int, set : Int]] : Scans(bv, g)
<1> DEFINE V == [start : Int, set : Int]
           N == Total(bv) + BITS_IN_CHUNK
           Z == {x \in Nat : Stop(bv, x) \/ Place(bv, x) \in Free(bv)}
           next == [x \in Nat |-> IF x \in Z THEN x ELSE Following(bv, x)]
           m == [x \in Nat |-> Measure(bv, x)]
           z == [x \in Nat |-> IF Stop(bv, x) THEN [start |-> -1, set |-> 0]
                               ELSE [start |-> Place(bv, x), set |-> 0]]
           h == [xr \in Nat \X V |->
                   [start |-> xr[2].start,
                    set |-> IF Place(bv, xr[1]) \in bv.bits THEN xr[2].set + 1
                            ELSE xr[2].set]]
<1>1. Total(bv) \in Nat /\ N \in Nat
  BY TotalIs, Facts DEF GoodBV
<1>2. \A x \in Nat : Place(bv, x) \in Int
  BY PlaceIs, <1>1
<1>3. [start |-> -1, set |-> 0] \in V
  OBVIOUS
<1>4. next \in [Nat -> Nat]
  BY MeasureFalls
<1>5. m \in [Nat -> 0 .. N]
  BY MeasureFalls
<1>6. z \in [Nat -> V]
  BY <1>2
<1>7. h \in [Nat \X V -> V]
  OBVIOUS
<1>8. \A x \in Nat : x \notin Z => m[next[x]] < m[x]
  BY MeasureFalls
<1>9. ASSUME NEW x \in Nat, NEW r \in V
      PROVE  h[<<x, r>>] = [r EXCEPT !.set = IF Place(bv, x) \in bv.bits
                                             THEN r.set + 1 ELSE r.set]
  OBVIOUS
<1>10. \A x \in Nat : z[x] = IF Stop(bv, x) THEN [start |-> -1, set |-> 0]
                             ELSE [start |-> Place(bv, x), set |-> 0]
  OBVIOUS
<1>11. \A x \in Nat : x \notin Z => next[x] = Following(bv, x)
  OBVIOUS
<1>a. \A x \in Nat : x \in Z <=> Stop(bv, x) \/ Place(bv, x) \in Free(bv)
  OBVIOUS
<1> HIDE DEF N, next, m, z, h, V, Z
<1>b. Descends(Nat, V, Z, N, next, m, h, z)
  BY <1>1, <1>3, <1>4, <1>5, <1>6, <1>7, <1>8 DEF Descends
<1>12. PICK g \in [Nat -> V] : Solves(Nat, Z, next, h, z, g)
  BY <1>b, Descent
<1>13. Scans(bv, g)
  <2> SUFFICES ASSUME NEW x \in Nat
               PROVE  g[x] = IF Stop(bv, x) THEN [start |-> -1, set |-> 0]
                       ELSE IF Place(bv, x) \in Free(bv)
                            THEN [start |-> Place(bv, x), set |-> 0]
                       ELSE [g[Following(bv, x)] EXCEPT
                              !.set = IF Place(bv, x) \in bv.bits
                                      THEN g[Following(bv, x)].set + 1
                                      ELSE g[Following(bv, x)].set]
    BY DEF Scans
  <2>1. CASE x \in Z
    BY <1>12, <1>10, <1>a, <2>1 DEF Solves
  <2>2. CASE x \notin Z
    <3>1. next[x] = Following(bv, x) /\ next[x] \in Nat
      BY <1>4, <1>11, <2>2
    <3>2. PICK r \in V : r = g[Following(bv, x)]
      BY <3>1
    <3>3. g[x] = h[<<x, r>>]
      BY <1>12, <2>2, <3>1, <3>2 DEF Solves
    <3>4. ~Stop(bv, x) /\ Place(bv, x) \notin Free(bv)
      BY <2>2, <1>a
    <3> QED  BY <1>9, <3>2, <3>3, <3>4
  <2> QED  BY <2>1, <2>2
<1> QED  BY <1>13 DEF V

ScanBody(bv, g, x) ==
    IF x >= Total(bv) /\ x % BITS_IN_CHUNK = 0 THEN [start |-> -1, set |-> 0]
    ELSE IF FreeRun(bv, Place(bv, x), 1) = 1
         THEN [start |-> Place(bv, x), set |-> 0]
    ELSE [g[x + Ahead(bv, Place(bv, x), FreeRun(bv, Place(bv, x), 1))] EXCEPT
             !.set = IF Place(bv, x) \in bv.bits THEN @ + 1 ELSE @]

LEMMA SearchScans ==
    ASSUME NEW n \in Nat \ {0}, NEW bv, GoodBV(bv, n)
    PROVE  \E g : Scans(bv, g) /\ Search(bv, 1) = g[0]
<1> DEFINE Eq(g) == g = [x \in Nat |-> ScanBody(bv, g, x)]
<1>1. Search(bv, 1) = (CHOOSE g : Eq(g))[0]
  BY DEF Search, ScanBody, Total
<1>2. ASSUME NEW g
      PROVE  Scans(bv, g) <=> \A x \in Nat : g[x] = ScanBody(bv, g, x)
  <2>1. ASSUME NEW x \in Nat
        PROVE  ScanBody(bv, g, x) =
                  IF Stop(bv, x) THEN [start |-> -1, set |-> 0]
                  ELSE IF Place(bv, x) \in Free(bv)
                       THEN [start |-> Place(bv, x), set |-> 0]
                  ELSE [g[Following(bv, x)] EXCEPT
                           !.set = IF Place(bv, x) \in bv.bits THEN @ + 1 ELSE @]
    <3>1. Place(bv, x) \in Nat
      <4>1. Total(bv) \in Nat /\ Place(bv, x) \in 0 .. Total(bv) - 1
        BY PlaceIs, TotalIs DEF GoodBV
      <4> QED  BY <4>1
    <3>2. FreeRun(bv, Place(bv, x), 1) = IF Place(bv, x) \in Free(bv) THEN 1 ELSE 0
      BY <3>1, FreeRunIs
    <3>3. CASE Stop(bv, x)
      BY <3>3 DEF ScanBody, Stop
    <3>4. CASE ~Stop(bv, x) /\ Place(bv, x) \in Free(bv)
      BY <3>2, <3>4 DEF ScanBody, Stop
    <3>5. CASE ~Stop(bv, x) /\ Place(bv, x) \notin Free(bv)
      <4>1. FreeRun(bv, Place(bv, x), 1) = 0
        BY <3>2, <3>5
      <4> QED  BY <3>5, <4>1 DEF ScanBody, Stop, Following
    <3> QED  BY <3>3, <3>4, <3>5
  <2> QED  BY <2>1 DEF Scans
<1>3. \E g : Eq(g)
  <2>1. PICK g \in [Nat -> [start : Int, set : Int]] : Scans(bv, g)
    BY ScanExists
  <2>2. \A x \in Nat : g[x] = ScanBody(bv, g, x)
    BY <1>2, <2>1
  <2>3. g = [x \in Nat |-> g[x]]
    OBVIOUS
  <2>4. g = [x \in Nat |-> ScanBody(bv, g, x)]
    BY <2>2, <2>3
  <2> QED  BY <2>4
<1>4. PICK g : g = CHOOSE w : Eq(w)
  OBVIOUS
<1>5. Eq(g)
  BY <1>3, <1>4
<1>6. \A x \in Nat : g[x] = ScanBody(bv, g, x)
  BY <1>5
<1> HIDE DEF Eq
<1> QED  BY <1>1, <1>2, <1>4, <1>6

\* What the search finds is free.
LEMMA SearchSound ==
    ASSUME NEW n \in Nat \ {0}, NEW bv, GoodBV(bv, n)
    PROVE  Search(bv, 1).start \in Free(bv) \cup {-1}
<1>1. PICK g : Scans(bv, g) /\ Search(bv, 1) = g[0]
  BY SearchScans
<1> DEFINE Bad == {x \in Nat : g[x].start \notin Free(bv) \cup {-1}}
           Ms == {Measure(bv, x) : x \in Bad}
<1>2. ASSUME Bad # {}  PROVE FALSE
  <2>1. Ms \subseteq Nat
    <3>1. Total(bv) \in Nat /\ BITS_IN_CHUNK \in Nat
      BY TotalIs, Facts DEF GoodBV
    <3> QED  BY <3>1, MeasureFalls
  <2>2. Ms # {}
    BY <1>2
  <2>3. PICK k \in Ms : \A j \in Ms : k <= j
    BY <2>1, <2>2, LeastNat
  <2>4. PICK x \in Bad : Measure(bv, x) = k
    OBVIOUS
  <2>5. ~Stop(bv, x) /\ Place(bv, x) \notin Free(bv)
    <3>1. ASSUME Stop(bv, x)  PROVE FALSE
      <4>1. g[x] = [start |-> -1, set |-> 0]
        BY <1>1, <2>4, <3>1 DEF Scans
      <4>2. g[x].start = -1
        BY <4>1
      <4> QED  BY <4>2, <2>4
    <3>2. ASSUME ~Stop(bv, x), Place(bv, x) \in Free(bv)  PROVE FALSE
      <4>1. g[x] = [start |-> Place(bv, x), set |-> 0]
        BY <1>1, <2>4, <3>2 DEF Scans
      <4>2. g[x].start = Place(bv, x)
        BY <4>1
      <4> QED  BY <4>2, <2>4, <3>2
    <3> QED  BY <3>1, <3>2
  <2>6. Following(bv, x) \in Nat /\ Measure(bv, Following(bv, x)) < k
    BY <2>4, <2>5, MeasureFalls
  <2>7. g[x].start = g[Following(bv, x)].start
    <3>1. g[x] = [g[Following(bv, x)] EXCEPT
                    !.set = IF Place(bv, x) \in bv.bits THEN @ + 1 ELSE @]
      BY <1>1, <2>5 DEF Scans
    <3> QED  BY <3>1
  <2>8. Following(bv, x) \in Bad
    BY <2>6, <2>7
  <2>9. k <= Measure(bv, Following(bv, x))
    BY <2>3, <2>8
  <2>10. Measure(bv, Following(bv, x)) \in Int /\ k \in Int
    BY <2>1, <2>8
  <2> QED  BY <2>6, <2>9, <2>10
<1>3. 0 \notin Bad
  BY <1>2
<1> QED  BY <1>1, <1>3

\* In a vector of whole chunks the search misses nothing.
LEMMA SearchComplete ==
    ASSUME NEW n \in Nat \ {0}, NEW bv, GoodBV(bv, n), n % BITS_IN_CHUNK = 0,
           Search(bv, 1).start = -1
    PROVE  bv.bits = 0 .. n - 1
<1>0. bv \in BVs(n) /\ Total(bv) = n /\ Positions(bv) = 0 .. n - 1
      /\ bv.next_free \in 0 .. n - 1 /\ bv.bits \subseteq 0 .. n - 1
  BY TotalIs DEF GoodBV, BVs
<1>1. PICK g : Scans(bv, g) /\ Search(bv, 1) = g[0]
  BY SearchScans
<1>2. \A x \in Nat : Place(bv, x) \in 0 .. n - 1
  BY <1>0, PlaceIs
<1> DEFINE P == {x \in 0 .. n : g[x].start = -1 /\ \A y \in 0 .. x - 1 : Place(bv, y) \in bv.bits}
<1>3. 0 \in P
  BY <1>1
<1>4. ASSUME NEW x \in 1 .. n, x - 1 \in P  PROVE x \in P
  <2>1. PICK w \in Nat : w = x - 1 /\ g[w].start = -1
    BY <1>4
  <2>2. ~Stop(bv, w)
    BY <1>0, <2>1 DEF Stop
  <2>3. Place(bv, w) \notin Free(bv)
    <3> SUFFICES ASSUME Place(bv, w) \in Free(bv)  PROVE FALSE
      OBVIOUS
    <3>1. g[w] = [start |-> Place(bv, w), set |-> 0]
      BY <1>1, <2>2 DEF Scans
    <3> QED  BY <1>2, <2>1, <3>1
  <2>4. Place(bv, w) \in bv.bits
    BY <1>0, <1>2, <2>3 DEF Free
  <2>5. Following(bv, w) = x
    BY <2>1, <2>2, <2>3, <2>4, MeasureFalls
  <2>6. g[x].start = -1
    <3>1. g[w] = [g[x] EXCEPT !.set = IF Place(bv, w) \in bv.bits THEN @ + 1 ELSE @]
      BY <1>1, <2>2, <2>3, <2>5 DEF Scans
    <3> QED  BY <2>1, <3>1
  <2>7. \A y \in 0 .. x - 1 : Place(bv, y) \in bv.bits
    BY <1>4, <2>1, <2>4
  <2> QED  BY <2>6, <2>7
<1> HIDE DEF P
<1>5. n \in P
  <2>1. 0 .. n \subseteq P
    BY <1>3, <1>4, UpTo
  <2> QED  BY <2>1
<1>6. \A y \in 0 .. n - 1 : Place(bv, y) \in bv.bits
  BY <1>5 DEF P
<1>7. ASSUME NEW b \in 0 .. n - 1  PROVE \E y \in 0 .. n - 1 : Place(bv, y) = b
  <2>1. PICK e \in Nat : e = (bv.next_free \div BITS_IN_CHUNK) * BITS_IN_CHUNK
                         /\ e <= bv.next_free
    <3>1. BITS_IN_CHUNK \in Nat \ {0}
      BY Facts
    <3>2. PICK a \in Int : a = bv.next_free /\ a >= 0
      BY <1>0
    <3>3. PICK q \in Int : q = a \div BITS_IN_CHUNK /\ q >= 0
                           /\ q * BITS_IN_CHUNK <= a
      BY <3>1, <3>2, DivBounds
    <3>4. q * BITS_IN_CHUNK \in Int /\ 0 * BITS_IN_CHUNK <= q * BITS_IN_CHUNK
      BY <3>1, <3>3, MulOrder
    <3> QED  BY <3>1, <3>2, <3>3, <3>4
  <2>2. \A y \in Nat : Place(bv, y) = (e + y) % n
    BY <1>0, <2>1 DEF Place, Total
  <2>3. n \in Nat \ {0} /\ n \in Int
    OBVIOUS
  <2>4. CASE b >= e
    <3>1. b % n = b
      <4>0. PICK q \in Int : q = 0
        OBVIOUS
      <4>1. q * n <= b /\ b < (q + 1) * n /\ b \in Int
        BY <2>3, <4>0
      <4>2. b \div n = 0
        BY <2>3, <4>0, <4>1, DivIs
      <4> QED  BY <2>3, <4>2, ModIs
    <3>2. PICK y \in 0 .. n - 1 : e + y = b
      <4>1. b - e \in 0 .. n - 1 /\ e + (b - e) = b
        BY <2>1, <2>4
      <4> QED  BY <4>1
    <3>3. y \in Nat /\ Place(bv, y) = (e + y) % n
      BY <2>2
    <3>4. Place(bv, y) = b
      BY <3>1, <3>2, <3>3, Zenon
    <3> QED  BY <3>4
  <2>5. CASE b < e
    <3>1. (b + n) % n = b
      <4>1. PICK w \in Int : w = b + n
        OBVIOUS
      <4>2. 1 * n <= w /\ w < (1 + 1) * n
        BY <4>1
      <4>3. w \div n = 1
        BY <2>3, <4>2, DivIs
      <4> QED  BY <2>3, <4>1, <4>3, ModIs
    <3>2. PICK y \in 0 .. n - 1 : e + y = b + n
      <4>1. b + n - e \in 0 .. n - 1 /\ e + (b + n - e) = b + n
        BY <1>0, <2>1, <2>5
      <4> QED  BY <4>1
    <3>3. y \in Nat /\ Place(bv, y) = (e + y) % n
      BY <2>2
    <3>4. Place(bv, y) = b
      BY <3>1, <3>2, <3>3, Zenon
    <3> QED  BY <3>4
  <2> QED  BY <2>1, <2>4, <2>5
<1>8. \A b \in 0 .. n - 1 : b \in bv.bits
  BY <1>6, <1>7
<1> QED  BY <1>0, <1>8

LEMMA TakenIs ==
    ASSUME NEW n \in Nat \ {0}, NEW bv, GoodBV(bv, n), FullOK(bv, n),
           NEW b \in Free(bv)
    PROVE  /\ GoodBV(Taken(bv, b, b + 1), n)
           /\ Taken(bv, b, b + 1).bits = bv.bits \cup {b}
           /\ FullOK(Taken(bv, b, b + 1), n)
<1> DEFINE t == Taken(bv, b, b + 1)
           nf == NextFree(bv, b + 1)
<1>1. bv = [numbits |-> bv.numbits, bits |-> bv.bits, next_free |-> bv.next_free,
            is_full |-> bv.is_full]
      /\ bv.numbits = n /\ bv.next_free \in Nat /\ bv.is_full \in BOOLEAN
  BY DEF GoodBV, BVs
<1>2. bv.bits \subseteq 0 .. n - 1
  BY DEF GoodBV, BVs
<1>3. b \in 0 .. n - 1 /\ b \notin bv.bits /\ b .. b + 1 - 1 = {b}
  BY <1>1 DEF Free, Positions
<1>4. t = [numbits |-> bv.numbits, bits |-> bv.bits \cup {b}, next_free |-> nf,
           is_full |-> bv.is_full]
  <2>1. PICK e \in Nat : e = b + 1
    BY <1>3
  <2>2. Taken(bv, b, e) = [bv EXCEPT !.bits = bv.bits \cup (b .. e - 1),
                                    !.next_free = NextFree(bv, e)]
    BY DEF Taken
  <2>3. b .. e - 1 = {b}
    BY <1>3, <2>1
  <2>4. t = [bv EXCEPT !.bits = bv.bits \cup {b}, !.next_free = nf]
    BY <2>1, <2>2, <2>3, Zenon
  <2> HIDE DEF t, nf
  <2> QED  BY <1>1, <2>4
<1> HIDE DEF t
<1>5. bv.bits \cup {b} \in SUBSET (0 .. n - 1)
  BY <1>2, <1>3
<1>6. nf \in Nat /\ nf < Total(bv)
  BY <1>1, <1>3 DEF GoodBV, Total, NextFree
<1> HIDE DEF nf
<1>7. t \in BVs(n)
  BY <1>1, <1>4, <1>5, <1>6 DEF BVs
<1>8. Total(t) = Total(bv) /\ t.next_free = nf
  BY <1>4 DEF Total, Chunks
<1>9. GoodBV(t, n)
  BY <1>6, <1>7, <1>8 DEF GoodBV
<1>10. t.bits = bv.bits \cup {b}
  BY <1>4
<1>11. FullOK(t, n)
  <2>1. t.is_full = bv.is_full
    BY <1>4
  <2> QED  BY <2>1, <1>3, <1>10 DEF FullOK
<1> QED  BY <1>9, <1>10, <1>11 DEF t

(***************************************************************************)
(* GetFreeRangeOfBits for one bit: a free bit, taken, or nothing; and in a *)
(* vector of whole chunks nothing only when every bit is set.              *)
(***************************************************************************)
GotOne(bv, n, r) ==
    /\ GoodBV(r.bv, n) /\ FullOK(r.bv, n)
    /\ \/ r.start = -1 /\ r.bv.bits = bv.bits
       \/ r.start \in Free(bv) /\ r.bv.bits = bv.bits \cup {r.start}
    /\ n % BITS_IN_CHUNK = 0 /\ r.start = -1 => bv.bits = 0 .. n - 1

LEMMA GetOne ==
    ASSUME NEW n \in Nat \ {0}, NEW bv, GoodBV(bv, n), FullOK(bv, n)
    PROVE  GotOne(bv, n, GetFreeRangeOfBits(bv, 1))
<1> DEFINE r == GetFreeRangeOfBits(bv, 1)
           s == Search(bv, 1)
<1>1. bv = [numbits |-> bv.numbits, bits |-> bv.bits, next_free |-> bv.next_free,
            is_full |-> bv.is_full]
      /\ bv.numbits = n /\ bv.next_free \in Nat /\ bv.is_full \in BOOLEAN
      /\ bv.bits \in SUBSET (0 .. n - 1)
  BY DEF GoodBV, BVs
<1>2. ~(1 <= 0) /\ ~(1 > bv.numbits)
  BY <1>1
<1>3. CASE bv.is_full
  <2>1. r = [start |-> -1, bv |-> bv]
    BY <1>2, <1>3 DEF GetFreeRangeOfBits
  <2>2. r.start = -1 /\ r.bv = bv
    BY <2>1
  <2> QED  BY <1>3, <2>2 DEF GotOne, FullOK
<1>4. CASE ~bv.is_full
  <2>1. r = Outcome(bv, 1, s)
    BY <1>2, <1>4 DEF GetFreeRangeOfBits
  <2>2. s.start \in Free(bv) \cup {-1}
    BY SearchSound
  <2>3. CASE s.start = -1
    <3>1. PICK full \in BOOLEAN : full = (bv.is_full \/ s.set >= bv.numbits)
      OBVIOUS
    <3>2. r = [start |-> -1, bv |-> [bv EXCEPT !.is_full = full]]
      BY <2>1, <2>3, <3>1 DEF Outcome
    <3>3. PICK w : w = [numbits |-> n, bits |-> bv.bits, next_free |-> bv.next_free,
                        is_full |-> full]
      OBVIOUS
    <3>4. r.start = -1 /\ r.bv = w
      BY <1>1, <3>2, <3>3
    <3>5. w \in BVs(n) /\ w.bits = bv.bits /\ w.next_free = bv.next_free
          /\ Total(w) = Total(bv)
      BY <1>1, <3>3 DEF BVs, Total, Chunks
    <3>6. GoodBV(w, n)
      BY <3>5 DEF GoodBV
    <3>7. n % BITS_IN_CHUNK = 0 => bv.bits = 0 .. n - 1
      BY <2>3, SearchComplete
    <3> QED  BY <3>4, <3>5, <3>6, <3>7 DEF GotOne, FullOK
  <2>4. CASE s.start # -1
    <3>1. PICK b \in Free(bv) : b = s.start
      BY <2>2, <2>4
    <3>2. r = [start |-> b, bv |-> Taken(bv, b, b + 1)]
      BY <2>1, <2>4, <3>1 DEF Outcome
    <3>3. r.start = b /\ r.bv = Taken(bv, b, b + 1)
      BY <3>2
    <3>4. b # -1
      BY <2>4, <3>1
    <3> QED  BY <3>1, <3>3, <3>4, TakenIs DEF GotOne
  <2> QED  BY <2>3, <2>4
<1> QED  BY <1>3, <1>4

\* Clearing a bit.
LEMMA UnSetIs ==
    ASSUME NEW n \in Nat \ {0}, NEW bv, GoodBV(bv, n), NEW b \in 0 .. n - 1
    PROVE  /\ GoodBV(UnSetBV(bv, b), n) /\ UnSetBV(bv, b).bits = bv.bits \ {b}
           /\ LET w == [UnSetRangeBV(bv, b, 1) EXCEPT !.is_full = FALSE]
              IN  GoodBV(w, n) /\ FullOK(w, n) /\ w.bits = bv.bits \ {b}
<1> DEFINE w == [UnSetRangeBV(bv, b, 1) EXCEPT !.is_full = FALSE]
           t == UnSetBV(bv, b)
<1>1. bv = [numbits |-> bv.numbits, bits |-> bv.bits, next_free |-> bv.next_free,
            is_full |-> bv.is_full]
      /\ bv.numbits = n /\ bv.next_free \in Nat /\ bv.is_full \in BOOLEAN
      /\ bv.bits \in SUBSET (0 .. n - 1)
  BY DEF GoodBV, BVs
<1>2. t = [numbits |-> n, bits |-> bv.bits \ {b}, next_free |-> b,
           is_full |-> bv.is_full]
  BY <1>1 DEF UnSetBV, Positions
<1>3. b .. b + 1 - 1 = {b} /\ ~(b < 0 \/ 1 < 0 \/ b + 1 > bv.numbits)
  BY <1>1
<1>4. w = [numbits |-> n, bits |-> bv.bits \ {b}, next_free |-> b,
           is_full |-> FALSE]
  <2>1. UnSetRangeBV(bv, b, 1) = [bv EXCEPT !.bits = bv.bits \ {b}, !.next_free = b]
    BY <1>3 DEF UnSetRangeBV
  <2>2. w = [[bv EXCEPT !.bits = bv.bits \ {b}, !.next_free = b] EXCEPT !.is_full = FALSE]
    BY <2>1
  <2> HIDE DEF w
  <2> QED  BY <1>1, <2>2
<1> HIDE DEF w, t
<1>5. b \in Nat /\ b < Total(bv)
  BY TotalIs DEF GoodBV
<1>6. bv.bits \ {b} \in SUBSET (0 .. n - 1)
  BY <1>1
<1>7. GoodBV(t, n) /\ t.bits = bv.bits \ {b}
  <2>1. t \in BVs(n)
    BY <1>1, <1>2, <1>5, <1>6 DEF BVs
  <2>2. Total(t) = Total(bv) /\ t.next_free = b /\ t.bits = bv.bits \ {b}
    BY <1>1, <1>2 DEF Total, Chunks
  <2> QED  BY <1>5, <2>1, <2>2 DEF GoodBV
<1>8. GoodBV(w, n) /\ w.bits = bv.bits \ {b} /\ FullOK(w, n)
  <2>1. w \in BVs(n)
    BY <1>4, <1>5, <1>6 DEF BVs
  <2>2. Total(w) = Total(bv) /\ w.next_free = b /\ w.bits = bv.bits \ {b}
    BY <1>1, <1>4 DEF Total, Chunks
  <2>3. w.is_full = FALSE
    BY <1>4
  <2> QED  BY <1>5, <2>1, <2>2, <2>3 DEF GoodBV, FullOK
<1> QED  BY <1>7, <1>8 DEF t, w
-----------------------------------------------------------------------------
(***************************************************************************)
(* The state a call works on, and what taking a block does to it.          *)
(***************************************************************************)
States == [bbm : BVs(num_blocks), used : Int, ino : Inode, tab : Tables,
           err : BOOLEAN]

LEMMA StateIs ==
    ASSUME NEW s \in States
    PROVE  /\ s = [bbm |-> s.bbm, used |-> s.used, ino |-> s.ino, tab |-> s.tab,
                   err |-> s.err]
           /\ s.bbm \in BVs(num_blocks) /\ s.used \in Int /\ s.ino \in Inode
           /\ s.tab \in Tables /\ s.err \in BOOLEAN
BY DEF States

LEMMA InodeIs ==
    ASSUME NEW o \in Inode
    PROVE  /\ o = [size |-> o.size, indirect |-> o.indirect, direct |-> o.direct]
           /\ o.size \in Nat /\ o.indirect \in Blocks
           /\ o.direct \in [0 .. NUM_DIRECT_BLOCKS - 1 -> Blocks]
BY DEF Inode

LEMMA BlocksFinite ==
    /\ IsFiniteSet(Blocks)
    /\ \A S \in SUBSET Blocks : IsFiniteSet(S) /\ Cardinality(S) \in Nat
<1>1. IsFiniteSet(Blocks)
  <2>1. 0 \in Int /\ num_blocks - 1 \in Int
    BY Facts
  <2>2. PICK x, y \in Int : x = 0 /\ y = num_blocks - 1
    BY <2>1
  <2>3. IsFiniteSet(x .. y)
    BY <2>2, FS_Interval
  <2> QED  BY <2>2, <2>3 DEF Blocks
<1>2. ASSUME NEW S \in SUBSET Blocks  PROVE IsFiniteSet(S) /\ Cardinality(S) \in Nat
  BY <1>1, FS_Subset, FS_CardinalityType
<1> QED  BY <1>1, <1>2

\* The outcome a of allocating a block in state s.
Got(s, a) ==
    /\ a.s \in States /\ MapOK(a.s.bbm, a.s.used)
    /\ a.s.ino = s.ino /\ a.s.tab = s.tab
    /\ \/ /\ a.addr = -1 /\ a.s.err = TRUE
          /\ a.s.bbm.bits = s.bbm.bits
       \/ /\ a.addr \in Blocks \ s.bbm.bits
          /\ a.s.bbm.bits = s.bbm.bits \cup {a.addr}
          /\ a.s.err = s.err

LEMMA AllocIs ==
    ASSUME NEW s \in States, MapOK(s.bbm, s.used)
    PROVE  Got(s, AllocateBlock(s))
<1> DEFINE r == GetFreeRangeOfBits(s.bbm, 1)
           a == AllocateBlock(s)
<1>1. s = [bbm |-> s.bbm, used |-> s.used, ino |-> s.ino, tab |-> s.tab, err |-> s.err]
      /\ s.bbm \in BVs(num_blocks) /\ s.used \in Int /\ s.ino \in Inode
      /\ s.tab \in Tables /\ s.err \in BOOLEAN
  BY StateIs
<1>2. CASE s.used >= num_blocks
  <2>1. a = [addr |-> -1, s |-> [s EXCEPT !.err = TRUE]]
    BY <1>2 DEF AllocateBlock
  <2>2. PICK t : t = [s EXCEPT !.err = TRUE]
    OBVIOUS
  <2>3. t \in States /\ t.err = TRUE /\ t.bbm = s.bbm /\ t.used = s.used
        /\ t.ino = s.ino /\ t.tab = s.tab
    BY <2>2 DEF States
  <2> HIDE DEF a
  <2>4. a.addr = -1 /\ a.s = t
    BY <2>1, <2>2, Zenon
  <2>5. Got(s, a)
    BY <2>3, <2>4 DEF Got
  <2> QED  BY <2>5 DEF a
<1>3. CASE ~(s.used >= num_blocks)
  <2>1. a = Allocated(s, r)
    BY <1>3 DEF AllocateBlock
  <2>2. GoodBV(s.bbm, num_blocks) /\ FullOK(s.bbm, num_blocks)
        /\ s.used = Cardinality(s.bbm.bits)
    BY DEF MapOK
  <2>3. GotOne(s.bbm, num_blocks, r)
    BY <2>2, GetOne, Facts
  <2> HIDE DEF r, a
  <2>4. r.bv \in BVs(num_blocks) /\ GoodBV(r.bv, num_blocks) /\ FullOK(r.bv, num_blocks)
    BY <2>3 DEF GotOne, GoodBV
  <2>5. CASE r.start = -1
    <3>1. a = [addr |-> -1, s |-> [s EXCEPT !.bbm = r.bv, !.err = TRUE]]
      BY <2>1, <2>5 DEF Allocated
    <3>2. PICK t : t = [s EXCEPT !.bbm = r.bv, !.err = TRUE]
      OBVIOUS
    <3>3. t \in States /\ t.err = TRUE /\ t.bbm = r.bv /\ t.used = s.used
          /\ t.ino = s.ino /\ t.tab = s.tab
      BY <2>4, <3>2 DEF States
    <3>4. a.addr = -1 /\ a.s = t
      BY <3>1, <3>2, Zenon
    <3>5. r.bv.bits = s.bbm.bits
      BY <2>3, <2>5 DEF GotOne, Free, Positions
    <3>6. Got(s, a)
      BY <2>2, <2>4, <3>3, <3>4, <3>5 DEF Got, MapOK
    <3> QED  BY <3>6 DEF a
  <2>6. CASE r.start # -1
    <3>0. r.start \in Free(s.bbm) /\ r.bv.bits = s.bbm.bits \cup {r.start}
      BY <2>3, <2>6 DEF GotOne
    <3>1. a = [addr |-> r.start, s |-> [s EXCEPT !.bbm = r.bv, !.used = s.used + 1]]
      BY <2>1, <2>6 DEF Allocated
    <3>2. PICK t : t = [s EXCEPT !.bbm = r.bv, !.used = s.used + 1]
      OBVIOUS
    <3>3. t \in States /\ t.err = s.err /\ t.bbm = r.bv /\ t.used = s.used + 1
          /\ t.ino = s.ino /\ t.tab = s.tab
      <4>1. PICK u \in Int : u = s.used + 1
        BY <1>1
      <4>2. t = [s EXCEPT !.bbm = r.bv, !.used = u]
        BY <3>2, <4>1
      <4>3. t \in States
        BY <2>4, <4>2 DEF States
      <4>4. t.bbm = r.bv /\ t.used = u /\ t.ino = s.ino /\ t.tab = s.tab
        BY <2>4, <4>2 DEF States
      <4>5. t.err = s.err
        BY <4>2 DEF States
      <4> QED  BY <4>1, <4>3, <4>4, <4>5
    <3>4. a.addr = r.start /\ a.s = t
      BY <3>1, <3>2, Zenon
    <3>5. r.start \in Blocks \ s.bbm.bits
      BY <1>1, <3>0 DEF Free, Positions, Blocks, BVs
    <3>6. s.used + 1 = Cardinality(r.bv.bits)
      <4>1. s.bbm.bits \subseteq Blocks
        BY <1>1 DEF BVs, Blocks
      <4>2. IsFiniteSet(s.bbm.bits)
        BY <4>1, BlocksFinite
      <4> QED  BY <2>2, <3>0, <3>5, <4>2, FS_AddElement
    <3>7. MapOK(t.bbm, t.used)
      BY <2>4, <3>3, <3>6 DEF MapOK
    <3>8. Got(s, a)
      BY <3>0, <3>3, <3>4, <3>5, <3>7 DEF Got
    <3> QED  BY <3>8 DEF a
  <2> QED  BY <2>5, <2>6
<1> QED  BY <1>2, <1>3

\* Block b at place k of the direct range, at place k of the indirect block i,
\* and as the indirect block.
PutDirect(u, k, b) == [u EXCEPT !.ino.direct[k] = b, !.ino.size = @ + bsize]

PutIndirect(u, i, k, b) == [u EXCEPT !.tab[i][k] = b, !.ino.size = @ + bsize]

PutAttach(u, b) == [u EXCEPT !.ino.indirect = b, !.tab[b] = NoAddrs]

LEMMA DirectUpdate ==
    ASSUME NEW u \in States, NEW k \in 0 .. NUM_DIRECT_BLOCKS - 1, NEW b \in Blocks,
           NEW t, t = PutDirect(u, k, b)
    PROVE  /\ t \in States
           /\ t.bbm = u.bbm /\ t.used = u.used /\ t.tab = u.tab
           /\ t.err = u.err
           /\ t.ino.size = u.ino.size + bsize /\ t.ino.indirect = u.ino.indirect
           /\ t.ino.direct = [u.ino.direct EXCEPT ![k] = b]
<1>1. bsize \in Nat
  BY Facts
<1>2. u.ino \in Inode
  BY DEF States
<1>a. PICK d : d = [u.ino.direct EXCEPT ![k] = b]
  OBVIOUS
<1>b. d \in [0 .. NUM_DIRECT_BLOCKS - 1 -> Blocks]
  BY <1>2, <1>a DEF Inode
<1>3. PICK o : o = [u.ino EXCEPT !.direct = d, !.size = u.ino.size + bsize]
  OBVIOUS
<1>4. t = [u EXCEPT !.ino = o]
  BY <1>3, <1>a DEF States, Inode, PutDirect
<1>5. o \in Inode /\ o.size = u.ino.size + bsize /\ o.indirect = u.ino.indirect
      /\ o.direct = d
  <2>1. PICK z \in Nat : z = u.ino.size + bsize
    BY <1>1, <1>2 DEF Inode
  <2>2. PICK c \in Inode : c = u.ino
    BY <1>2
  <2>3. o = [c EXCEPT !.direct = d, !.size = z]
    BY <1>3, <2>1, <2>2
  <2>4. o \in Inode
    BY <1>b, <2>3 DEF Inode
  <2>5. o.size = z /\ o.indirect = c.indirect /\ o.direct = d
    BY <2>3 DEF Inode
  <2> QED  BY <2>1, <2>2, <2>4, <2>5
<1>6. t \in States
  BY <1>4, <1>5 DEF States
<1>7. t.bbm = u.bbm /\ t.used = u.used /\ t.tab = u.tab /\ t.ino = o
  BY <1>4 DEF States
<1>8. t.err = u.err
  BY <1>4 DEF States
<1> QED  BY <1>5, <1>6, <1>7, <1>8, <1>a

LEMMA IndirectUpdate ==
    ASSUME NEW u \in States, NEW i \in Blocks, NEW k \in 0 .. max_index - 1,
           NEW b \in Blocks,
           NEW t, t = PutIndirect(u, i, k, b)
    PROVE  /\ t \in States
           /\ t.bbm = u.bbm /\ t.used = u.used
           /\ t.err = u.err
           /\ t.ino.size = u.ino.size + bsize /\ t.ino.indirect = u.ino.indirect
           /\ t.ino.direct = u.ino.direct
           /\ t.tab = [u.tab EXCEPT ![i] = [u.tab[i] EXCEPT ![k] = b]]
<1>1. bsize \in Nat
  BY Facts
<1>2. u.ino \in Inode /\ u.tab \in Tables
  BY DEF States
<1>3. PICK o : o = [u.ino EXCEPT !.size = u.ino.size + bsize]
  OBVIOUS
<1>4. PICK w : w = [u.tab EXCEPT ![i] = [u.tab[i] EXCEPT ![k] = b]]
  OBVIOUS
<1>5. t = [u EXCEPT !.tab = w, !.ino = o]
  BY <1>3, <1>4 DEF States, Inode, Tables, PutIndirect
<1>6. o \in Inode /\ o.size = u.ino.size + bsize /\ o.indirect = u.ino.indirect
      /\ o.direct = u.ino.direct
  BY <1>1, <1>2, <1>3 DEF Inode
<1>7. w \in Tables
  BY <1>2, <1>4 DEF Tables
<1>8. t \in States
  BY <1>5, <1>6, <1>7 DEF States
<1>9. t.bbm = u.bbm /\ t.used = u.used /\ t.tab = w /\ t.ino = o
  BY <1>5 DEF States
<1>10. t.err = u.err
  BY <1>5 DEF States
<1> QED  BY <1>4, <1>6, <1>8, <1>9, <1>10

Attached(u, b, t) ==
    /\ t \in States
    /\ t.bbm = u.bbm /\ t.used = u.used
    /\ t.err = u.err
    /\ t.ino.size = u.ino.size /\ t.ino.indirect = b
    /\ t.ino.direct = u.ino.direct
    /\ t.tab = [u.tab EXCEPT ![b] = NoAddrs]

LEMMA AttachUpdate ==
    ASSUME NEW u \in States, NEW b \in Blocks,
           NEW t, t = PutAttach(u, b)
    PROVE  Attached(u, b, t)
<1>1. NoAddrs \in [0 .. max_index - 1 -> Blocks]
  BY Facts DEF NoAddrs
<1>2. u.ino \in Inode /\ u.tab \in Tables
  BY DEF States
<1>3. PICK o : o = [u.ino EXCEPT !.indirect = b]
  OBVIOUS
<1>4. PICK w : w = [u.tab EXCEPT ![b] = NoAddrs]
  OBVIOUS
<1>5. t = [u EXCEPT !.ino = o, !.tab = w]
  BY <1>3, <1>4 DEF States, Inode, Tables, PutAttach
<1>6. o \in Inode /\ o.size = u.ino.size /\ o.indirect = b /\ o.direct = u.ino.direct
  BY <1>2, <1>3 DEF Inode
<1>7. w \in Tables
  BY <1>1, <1>2, <1>4 DEF Tables
<1>8. t \in States
  BY <1>5, <1>6, <1>7 DEF States
<1>9. t.bbm = u.bbm /\ t.used = u.used /\ t.tab = w /\ t.ino = o
  BY <1>5 DEF States
<1>10. t.err = u.err
  BY <1>5 DEF States
<1> QED  BY <1>4, <1>6, <1>8, <1>9, <1>10 DEF Attached
-----------------------------------------------------------------------------
(***************************************************************************)
(* Putting one new block somewhere.                                        *)
(***************************************************************************)
LEMMA AtIs ==
    ASSUME NEW o \in Inode, NEW tab \in Tables
    PROVE  /\ At(o, tab, -1) = o.indirect
           /\ \A i \in 0 .. NUM_DIRECT_BLOCKS - 1 :
                /\ i \in Places
                /\ At(o, tab, i) = o.direct[i]
           /\ \A i \in Places : i >= NUM_DIRECT_BLOCKS =>
                At(o, tab, i) = IF o.indirect = 0 THEN 0
                                ELSE tab[o.indirect][i - NUM_DIRECT_BLOCKS]
           /\ \A i \in Places : At(o, tab, i) \in Blocks
<1>1. NUM_DIRECT_BLOCKS \in Nat /\ max_index \in Nat /\ 0 \in Blocks
  BY Facts
<1>2. o.indirect \in Blocks /\ o.direct \in [0 .. NUM_DIRECT_BLOCKS - 1 -> Blocks]
  BY InodeIs
<1>3. At(o, tab, -1) = o.indirect
  BY DEF At
<1>4. \A i \in 0 .. NUM_DIRECT_BLOCKS - 1 : i \in Places /\ At(o, tab, i) = o.direct[i]
  BY <1>1 DEF At, Places
<1>5. ASSUME NEW i \in Places, i >= NUM_DIRECT_BLOCKS
      PROVE  /\ At(o, tab, i) = IF o.indirect = 0 THEN 0
                                ELSE tab[o.indirect][i - NUM_DIRECT_BLOCKS]
             /\ At(o, tab, i) \in Blocks
  <2>1. i # -1 /\ ~(i < NUM_DIRECT_BLOCKS) /\ i - NUM_DIRECT_BLOCKS \in 0 .. max_index - 1
    BY <1>1, <1>5 DEF Places
  <2> QED  BY <1>1, <1>2, <2>1 DEF At, Tables
<1>6. ASSUME NEW i \in Places  PROVE At(o, tab, i) \in Blocks
  <2>1. i = -1 \/ i \in 0 .. NUM_DIRECT_BLOCKS - 1 \/ i >= NUM_DIRECT_BLOCKS
    BY <1>1 DEF Places
  <2> QED  BY <1>2, <1>3, <1>4, <1>5, <2>1
<1> QED  BY <1>3, <1>4, <1>5, <1>6

AtOf(s, i) == At(s.ino, s.tab, i)

HeldOf(s) == Held(s.ino, s.tab)

\* u is t with the new block b at place p.
Puts(t, u, p, b) ==
    /\ u \in States /\ MapOK(u.bbm, u.used)
    /\ p \in Places /\ b \in Blocks \ t.bbm.bits
    /\ u.bbm.bits = t.bbm.bits \cup {b}
    /\ \A i \in Places : AtOf(u, i) = IF i = p THEN b ELSE AtOf(t, i)
    /\ \A c \in Blocks : c # b /\ c # t.ino.indirect => u.tab[c] = t.tab[c]

(***************************************************************************)
(* t is s, of n blocks, with new blocks added: what s has in its n blocks  *)
(* is where it was, every other place is as it was or has a block that was *)
(* free, and the tables of others are untouched.                           *)
(***************************************************************************)
Kept(s, n, t) ==
    /\ t \in States /\ MapOK(t.bbm, t.used)
    /\ Sole(t.ino, t.tab)
    /\ HeldOf(t) \subseteq t.bbm.bits
    /\ s.bbm.bits \subseteq t.bbm.bits
    /\ \A i \in Places : AtOf(t, i) = AtOf(s, i) \/ AtOf(t, i) \in Blocks \ s.bbm.bits
    /\ \A i \in Places : i < n /\ AtOf(s, i) # 0 => AtOf(t, i) = AtOf(s, i)
    /\ \A c \in s.bbm.bits : c # s.ino.indirect => t.tab[c] = s.tab[c]

LEMMA PutsKept ==
    ASSUME NEW s \in States, NEW n \in Nat, NEW t, NEW u, NEW p, NEW b,
           0 \in s.bbm.bits, Kept(s, n, t), Puts(t, u, p, b),
           p >= n \/ AtOf(t, p) = 0
    PROVE  Kept(s, n, u)
<1>1. t \in States /\ u \in States /\ p \in Places /\ b \in Blocks /\ b \notin t.bbm.bits
      /\ s.bbm.bits \subseteq t.bbm.bits
  BY DEF Kept, Puts
<1>2. b # 0 /\ b \notin s.bbm.bits
  BY <1>1
<1>3. \A i \in Places : AtOf(t, i) # 0 => AtOf(t, i) \in t.bbm.bits
  BY DEF Kept, HeldOf, Held, AtOf
<1>4. \A i \in Places : AtOf(u, i) = IF i = p THEN b ELSE AtOf(t, i)
  BY DEF Puts
<1>5. Sole(u.ino, u.tab)
  <2>1. \A i, j \in Places : AtOf(t, i) # 0 /\ AtOf(t, i) = AtOf(t, j) => i = j
    BY DEF Kept, Sole, AtOf
  <2>2. \A i, j \in Places : AtOf(u, i) # 0 /\ AtOf(u, i) = AtOf(u, j) => i = j
    BY <1>1, <1>3, <1>4, <2>1
  <2> QED  BY <2>2 DEF Sole, AtOf
<1>6. HeldOf(u) \subseteq u.bbm.bits
  <2>1. u.bbm.bits = t.bbm.bits \cup {b}
    BY DEF Puts
  <2>2. \A i \in Places : AtOf(u, i) # 0 => AtOf(u, i) \in u.bbm.bits
    BY <1>3, <1>4, <2>1
  <2> QED  BY <2>2 DEF HeldOf, Held, AtOf
<1>7. s.bbm.bits \subseteq u.bbm.bits
  BY <1>1 DEF Puts
<1>8. \A i \in Places : AtOf(u, i) = AtOf(s, i) \/ AtOf(u, i) \in Blocks \ s.bbm.bits
  BY <1>1, <1>2, <1>4 DEF Kept
<1>9. ASSUME NEW i \in Places, i < n, AtOf(s, i) # 0  PROVE AtOf(u, i) = AtOf(s, i)
  <2>1. AtOf(t, i) = AtOf(s, i)
    BY <1>9 DEF Kept
  <2>2. i # p
    BY <1>9, <2>1 DEF Places
  <2> QED  BY <1>4, <2>1, <2>2
<1>10. ASSUME NEW c \in s.bbm.bits, c # s.ino.indirect  PROVE u.tab[c] = s.tab[c]
  <2>1. c \in Blocks /\ c # b
    <3>1. s.bbm.bits \subseteq Blocks
      BY DEF States, BVs, Blocks
    <3> QED  BY <1>2, <3>1
  <2>2. c # t.ino.indirect
    <3>1. t.ino.indirect = AtOf(t, -1) /\ s.ino.indirect = AtOf(s, -1) /\ -1 \in Places
      <4>1. t.ino \in Inode /\ t.tab \in Tables /\ s.ino \in Inode /\ s.tab \in Tables
        BY <1>1, StateIs
      <4>2. -1 \in Places
        BY Facts DEF Places
      <4> QED  BY <4>1, <4>2, AtIs DEF AtOf
    <3>2. t.ino.indirect = s.ino.indirect \/ t.ino.indirect \notin s.bbm.bits
      BY <3>1 DEF Kept
    <3> QED  BY <1>10, <3>2
  <2>3. u.tab[c] = t.tab[c]
    BY <2>1, <2>2 DEF Puts
  <2>4. t.tab[c] = s.tab[c]
    BY <1>10 DEF Kept
  <2> QED  BY <2>3, <2>4
<1>11. MapOK(u.bbm, u.used)
  BY DEF Puts
<1> QED  BY <1>1, <1>5, <1>6, <1>7, <1>8, <1>9, <1>10, <1>11 DEF Kept

\* The shape after a block was put at the end, or as the indirect block.
LEMMA PutsShape ==
    ASSUME NEW t, NEW u, NEW p, NEW b, NEW m \in Nat,
           Puts(t, u, p, b), 0 \in t.bbm.bits, Shape(t.ino, t.tab, m)
    PROVE  /\ p = -1 => Shape(u.ino, u.tab, m)
           /\ p = m => Shape(u.ino, u.tab, m + 1)
<1>1. NUM_DIRECT_BLOCKS \in Nat /\ max_index \in Nat
  BY Facts
<1>2. b # 0 /\ p \in Places
  BY DEF Puts
<1>3. \A i \in Places : AtOf(u, i) = IF i = p THEN b ELSE AtOf(t, i)
  BY DEF Puts
<1>4. /\ m <= NUM_DIRECT_BLOCKS + max_index
      /\ \A i \in 0 .. NUM_DIRECT_BLOCKS - 1 : AtOf(t, i) # 0 <=> i < m
      /\ \A i \in Places : i >= NUM_DIRECT_BLOCKS /\ i < m => AtOf(t, i) # 0
      /\ \A i, j \in Places :
           i >= NUM_DIRECT_BLOCKS /\ i < j /\ AtOf(t, j) # 0 => AtOf(t, i) # 0
  BY DEF Shape, AtOf
<1>5. \A i \in 0 .. NUM_DIRECT_BLOCKS - 1 : i \in Places
  BY <1>1 DEF Places
<1>6. ASSUME p = -1  PROVE Shape(u.ino, u.tab, m)
  <2>1. \A i \in Places : i >= 0 => AtOf(u, i) = AtOf(t, i)
    BY <1>3, <1>6 DEF Places
  <2>2. \A i \in 0 .. NUM_DIRECT_BLOCKS - 1 : AtOf(u, i) # 0 <=> i < m
    BY <1>4, <1>5, <2>1
  <2>3. \A i \in Places : i >= NUM_DIRECT_BLOCKS /\ i < m => AtOf(u, i) # 0
    BY <1>1, <1>4, <2>1 DEF Places
  <2>4. \A i, j \in Places :
           i >= NUM_DIRECT_BLOCKS /\ i < j /\ AtOf(u, j) # 0 => AtOf(u, i) # 0
    BY <1>1, <1>4, <2>1 DEF Places
  <2> QED  BY <1>4, <2>2, <2>3, <2>4 DEF Shape, AtOf
<1>7. ASSUME p = m  PROVE Shape(u.ino, u.tab, m + 1)
  <2>1. m + 1 <= NUM_DIRECT_BLOCKS + max_index
    BY <1>1, <1>2, <1>7 DEF Places
  <2>2. \A i \in 0 .. NUM_DIRECT_BLOCKS - 1 : AtOf(u, i) # 0 <=> i < m + 1
    BY <1>2, <1>3, <1>4, <1>5, <1>7
  <2>3. \A i \in Places : i >= NUM_DIRECT_BLOCKS /\ i < m + 1 => AtOf(u, i) # 0
    BY <1>1, <1>2, <1>3, <1>4, <1>7 DEF Places
  <2>4. \A i, j \in Places :
           i >= NUM_DIRECT_BLOCKS /\ i < j /\ AtOf(u, j) # 0 => AtOf(u, i) # 0
    BY <1>1, <1>2, <1>3, <1>4, <1>7 DEF Places
  <2> QED  BY <2>1, <2>2, <2>3, <2>4 DEF Shape, AtOf
<1> QED  BY <1>6, <1>7

LEMMA AppendDirectPuts ==
    ASSUME NEW t \in States, NEW a, Got(t, a), a.addr # -1,
           NEW m \in 0 .. NUM_DIRECT_BLOCKS - 1, t.ino.size = m * bsize
    PROVE  /\ Puts(t, AppendDirect(t, a), m, a.addr)
           /\ AppendDirect(t, a).ino.size = (m + 1) * bsize
           /\ AppendDirect(t, a).err = t.err
<1>0. NUM_DIRECT_BLOCKS \in Nat /\ bsize \in Nat \ {0} /\ m \in Nat
  BY Facts
<1>1. PICK v \in States : v = a.s
  BY DEF Got
<1>2. PICK b \in Blocks \ t.bbm.bits : b = a.addr /\ v.bbm.bits = t.bbm.bits \cup {b}
  BY <1>1 DEF Got
<1>3. v.ino = t.ino /\ v.tab = t.tab /\ MapOK(v.bbm, v.used)
  BY <1>1 DEF Got
<1>4. v.err = t.err
  BY <1>1 DEF Got
<1>5. t.ino.size \div bsize = m
  BY <1>0, UpMultiple
<1>6. PICK u : u = AppendDirect(t, a)
  OBVIOUS
<1>7. u = PutDirect(v, m, b)
  BY <1>1, <1>2, <1>5, <1>6, Zenon DEF AppendDirect, PutDirect
<1>8. /\ u \in States
      /\ u.bbm = v.bbm /\ u.used = v.used /\ u.tab = v.tab
      /\ u.err = v.err
      /\ u.ino.size = v.ino.size + bsize /\ u.ino.indirect = v.ino.indirect
      /\ u.ino.direct = [v.ino.direct EXCEPT ![m] = b]
  <2>1. b \in Blocks
    BY <1>2
  <2> QED  BY <1>7, <2>1, DirectUpdate
<1>9. u.ino.size = (m + 1) * bsize
  <2>1. (m + 1) * bsize = m * bsize + bsize
    BY <1>0, MulOrder
  <2> QED  BY <2>1, <1>3, <1>8
<1>10. ASSUME NEW i \in Places
       PROVE  AtOf(u, i) = IF i = m THEN b ELSE AtOf(t, i)
  <2>1. t.ino \in Inode /\ t.tab \in Tables /\ u.ino \in Inode /\ u.tab \in Tables
    BY <1>8, StateIs
  <2>2. t.ino.direct \in [0 .. NUM_DIRECT_BLOCKS - 1 -> Blocks]
    BY <2>1, InodeIs
  <2>3. u.ino.direct = [t.ino.direct EXCEPT ![m] = b] /\ u.ino.indirect = t.ino.indirect
        /\ u.tab = t.tab
    BY <1>3, <1>8
  <2>4. CASE i < NUM_DIRECT_BLOCKS /\ i # -1
    <3>1. i \in 0 .. NUM_DIRECT_BLOCKS - 1
      BY <1>0, <2>4 DEF Places
    <3>2. At(u.ino, u.tab, i) = u.ino.direct[i] /\ At(t.ino, t.tab, i) = t.ino.direct[i]
      BY <2>4 DEF At
    <3> QED  BY <2>2, <2>3, <3>1, <3>2 DEF AtOf
  <2>5. CASE ~(i < NUM_DIRECT_BLOCKS /\ i # -1)
    <3>1. i # m
      BY <1>0, <2>5
    <3>2. At(u.ino, u.tab, i) = At(t.ino, t.tab, i)
      BY <2>3, <2>5 DEF At
    <3> QED  BY <3>1, <3>2 DEF AtOf
  <2> QED  BY <2>4, <2>5
<1>11. m \in Places
  BY <1>0, Facts DEF Places
<1>12. \A c \in Blocks : c # b /\ c # t.ino.indirect => u.tab[c] = t.tab[c]
  BY <1>3, <1>8
<1>13. MapOK(u.bbm, u.used) /\ u.bbm.bits = t.bbm.bits \cup {b}
  BY <1>2, <1>3, <1>8
<1>14. Puts(t, u, m, b)
  BY <1>2, <1>8, <1>10, <1>11, <1>12, <1>13 DEF Puts
<1>15. u.err = t.err
  BY <1>4, <1>8
<1> QED  BY <1>2, <1>6, <1>9, <1>14, <1>15

LEMMA AppendIndirectPuts ==
    ASSUME NEW t \in States, NEW a, Got(t, a), a.addr # -1, t.ino.indirect # 0,
           NEW m \in Nat, m >= NUM_DIRECT_BLOCKS, m < NUM_DIRECT_BLOCKS + max_index,
           t.ino.size = m * bsize
    PROVE  /\ Puts(t, AppendIndirect(t, a), m, a.addr)
           /\ AppendIndirect(t, a).ino.size = (m + 1) * bsize
           /\ AppendIndirect(t, a).err = t.err
<1>0. NUM_DIRECT_BLOCKS \in Nat /\ max_index \in Nat /\ bsize \in Nat \ {0}
  BY Facts
<1>1. PICK v \in States : v = a.s
  BY DEF Got
<1>2. PICK b \in Blocks \ t.bbm.bits : b = a.addr /\ v.bbm.bits = t.bbm.bits \cup {b}
  BY <1>1 DEF Got
<1>3. v.ino = t.ino /\ v.tab = t.tab /\ MapOK(v.bbm, v.used)
  BY <1>1 DEF Got
<1>4. v.err = t.err
  BY <1>1 DEF Got
<1>5. PICK k \in 0 .. max_index - 1 : k = m - NUM_DIRECT_BLOCKS
  BY <1>0
<1>6. (t.ino.size - DIRECT_SIZE) \div bsize = k
  BY <1>5, Ranges
<1>7. PICK x \in Blocks : x = t.ino.indirect
  BY StateIs, InodeIs
<1>8. PICK u : u = AppendIndirect(t, a)
  OBVIOUS
<1>9. u = PutIndirect(v, x, k, b)
  BY <1>1, <1>2, <1>6, <1>7, <1>8, Zenon DEF AppendIndirect, PutIndirect
<1>10. /\ u \in States
       /\ u.bbm = v.bbm /\ u.used = v.used
       /\ u.err = v.err
       /\ u.ino.size = v.ino.size + bsize /\ u.ino.indirect = v.ino.indirect
       /\ u.ino.direct = v.ino.direct
       /\ u.tab = [v.tab EXCEPT ![x] = [v.tab[x] EXCEPT ![k] = b]]
  <2>1. b \in Blocks
    BY <1>2
  <2> QED  BY <1>9, <2>1, IndirectUpdate
<1>11. u.ino.size = (m + 1) * bsize
  <2>1. (m + 1) * bsize = m * bsize + bsize
    BY <1>0, MulOrder
  <2> QED  BY <2>1, <1>3, <1>10
<1>12. t.ino \in Inode /\ t.tab \in Tables /\ u.ino \in Inode /\ u.tab \in Tables
  BY <1>10, StateIs
<1>13. u.ino.direct = t.ino.direct /\ u.ino.indirect = x /\ x # 0
       /\ u.tab = [t.tab EXCEPT ![x] = [t.tab[x] EXCEPT ![k] = b]]
  BY <1>3, <1>7, <1>10
<1>14. ASSUME NEW i \in Places
       PROVE  AtOf(u, i) = IF i = m THEN b ELSE AtOf(t, i)
  <2>1. CASE i < NUM_DIRECT_BLOCKS
    <3>1. i # m
      BY <1>0, <2>1
    <3>2. At(u.ino, u.tab, i) = At(t.ino, t.tab, i)
      BY <1>7, <1>13, <2>1 DEF At
    <3> QED  BY <3>1, <3>2 DEF AtOf
  <2>2. CASE ~(i < NUM_DIRECT_BLOCKS)
    <3>1. PICK j \in 0 .. max_index - 1 : j = i - NUM_DIRECT_BLOCKS
      BY <1>0, <2>2 DEF Places
    <3>2. i # -1
      BY <1>0, <2>2
    <3>3. At(u.ino, u.tab, i) = u.tab[x][j] /\ At(t.ino, t.tab, i) = t.tab[x][j]
      BY <1>7, <1>13, <2>2, <3>1, <3>2 DEF At
    <3>4. u.tab[x] = [t.tab[x] EXCEPT ![k] = b]
      BY <1>12, <1>13 DEF Tables
    <3>5. t.tab[x] \in [0 .. max_index - 1 -> Blocks]
      BY <1>12 DEF Tables
    <3>6. u.tab[x][j] = IF j = k THEN b ELSE t.tab[x][j]
      BY <3>4, <3>5
    <3>7. j = k <=> i = m
      BY <1>0, <1>5, <3>1 DEF Places
    <3> QED  BY <3>3, <3>6, <3>7 DEF AtOf
  <2> QED  BY <2>1, <2>2
<1>15. m \in Places
  BY <1>0 DEF Places
<1>16. \A c \in Blocks : c # b /\ c # t.ino.indirect => u.tab[c] = t.tab[c]
  BY <1>7, <1>12, <1>13 DEF Tables
<1>17. MapOK(u.bbm, u.used) /\ u.bbm.bits = t.bbm.bits \cup {b}
  BY <1>2, <1>3, <1>10
<1>18. Puts(t, u, m, b)
  BY <1>2, <1>10, <1>14, <1>15, <1>16, <1>17 DEF Puts
<1>19. u.err = t.err
  BY <1>4, <1>10
<1> QED  BY <1>2, <1>8, <1>11, <1>18, <1>19

LEMMA AttachIndirectPuts ==
    ASSUME NEW t \in States, NEW a, Got(t, a), a.addr # -1, t.ino.indirect = 0,
           0 \in t.bbm.bits
    PROVE  /\ Puts(t, AttachIndirect(a), -1, a.addr)
           /\ AttachIndirect(a).ino.size = t.ino.size
           /\ AttachIndirect(a).ino.indirect # 0
           /\ AttachIndirect(a).err = t.err
<1>0. NUM_DIRECT_BLOCKS \in Nat /\ max_index \in Nat
  BY Facts
<1>1. PICK v \in States : v = a.s
  BY DEF Got
<1>2. PICK b \in Blocks \ t.bbm.bits : b = a.addr /\ v.bbm.bits = t.bbm.bits \cup {b}
  BY <1>1 DEF Got
<1>3. v.ino = t.ino /\ v.tab = t.tab /\ MapOK(v.bbm, v.used)
  BY <1>1 DEF Got
<1>4. v.err = t.err
  BY <1>1 DEF Got
<1>5. PICK u : u = AttachIndirect(a)
  OBVIOUS
<1>6. u = PutAttach(v, b)
  BY <1>1, <1>2, <1>5, Zenon DEF AttachIndirect, PutAttach
<1>7. /\ u \in States
      /\ u.bbm = v.bbm /\ u.used = v.used
      /\ u.err = v.err
      /\ u.ino.size = v.ino.size /\ u.ino.indirect = b
      /\ u.ino.direct = v.ino.direct
      /\ u.tab = [v.tab EXCEPT ![b] = NoAddrs]
  <2>1. b \in Blocks
    BY <1>2
  <2>2. Attached(v, b, u)
    BY <1>6, <2>1, AttachUpdate
  <2> QED  BY <2>2 DEF Attached
<1>8. t.ino \in Inode /\ t.tab \in Tables /\ b # 0
  BY <1>2, StateIs
<1>9. u.ino.direct = t.ino.direct /\ u.tab = [t.tab EXCEPT ![b] = NoAddrs]
  BY <1>3, <1>7
<1>10. ASSUME NEW i \in Places
       PROVE  AtOf(u, i) = IF i = -1 THEN b ELSE AtOf(t, i)
  <2>1. CASE i = -1
    BY <1>7, <2>1 DEF AtOf, At
  <2>2. CASE i # -1 /\ i < NUM_DIRECT_BLOCKS
    BY <1>9, <2>2 DEF AtOf, At
  <2>3. CASE i # -1 /\ ~(i < NUM_DIRECT_BLOCKS)
    <3>1. PICK j \in 0 .. max_index - 1 : j = i - NUM_DIRECT_BLOCKS
      BY <1>0, <2>3 DEF Places
    <3>2. AtOf(t, i) = 0
      BY <2>3 DEF AtOf, At
    <3>3. AtOf(u, i) = u.tab[b][j]
      BY <1>7, <1>8, <2>3, <3>1 DEF AtOf, At
    <3>4. u.tab[b] = NoAddrs
      BY <1>2, <1>8, <1>9 DEF Tables
    <3> QED  BY <2>3, <3>2, <3>3, <3>4 DEF NoAddrs
  <2> QED  BY <2>1, <2>2, <2>3
<1>11. -1 \in Places
  BY <1>0 DEF Places
<1>12. \A c \in Blocks : c # b /\ c # t.ino.indirect => u.tab[c] = t.tab[c]
  BY <1>8, <1>9 DEF Tables
<1>13. MapOK(u.bbm, u.used) /\ u.bbm.bits = t.bbm.bits \cup {b}
  BY <1>2, <1>3, <1>7
<1>14. Puts(t, u, -1, b)
  BY <1>2, <1>7, <1>10, <1>11, <1>12, <1>13 DEF Puts
<1>15. u.err = t.err
  BY <1>4, <1>7
<1>16. u.ino.size = t.ino.size /\ u.ino.indirect # 0
  BY <1>3, <1>7, <1>8
<1> QED  BY <1>2, <1>5, <1>14, <1>15, <1>16
-----------------------------------------------------------------------------
(***************************************************************************)
(* Growing.                                                                *)
(***************************************************************************)
\* t is s, of n blocks, grown to m blocks.
Grown(s, n, t, m) ==
    /\ Kept(s, n, t)
    /\ m \in Nat /\ n <= m /\ t.ino.size = m * bsize
    /\ Shape(t.ino, t.tab, m)

\* Only the places and the map matter.
LEMMA KeptSame ==
    ASSUME NEW s, NEW n, NEW t, NEW v \in States, Kept(s, n, t),
           MapOK(v.bbm, v.used), v.bbm.bits = t.bbm.bits, v.tab = t.tab,
           v.ino.direct = t.ino.direct, v.ino.indirect = t.ino.indirect
    PROVE  /\ Kept(s, n, v)
           /\ \A m : Shape(t.ino, t.tab, m) => Shape(v.ino, v.tab, m)
<1>1. \A i : At(v.ino, v.tab, i) = At(t.ino, t.tab, i)
  BY DEF At
<1>2. \A i : AtOf(v, i) = AtOf(t, i)
  BY <1>1 DEF AtOf
<1>3. HeldOf(v) = HeldOf(t)
  BY <1>1 DEF HeldOf, Held
<1>4. Sole(v.ino, v.tab)
  BY <1>1 DEF Sole, Kept
<1>5. Kept(s, n, v)
  BY <1>2, <1>3, <1>4 DEF Kept
<1>6. \A m : Shape(t.ino, t.tab, m) => Shape(v.ino, v.tab, m)
  BY <1>1 DEF Shape
<1> QED  BY <1>5, <1>6

LEMMA ErrUpdate ==
    ASSUME NEW s \in States, NEW t, t = [s EXCEPT !.err = TRUE]
    PROVE  /\ t \in States /\ t.err = TRUE /\ t.bbm = s.bbm /\ t.used = s.used
           /\ t.ino = s.ino /\ t.tab = s.tab
BY DEF States

LEMMA SizeUpdate ==
    ASSUME NEW s \in States, NEW z \in Nat, NEW t, t = [s EXCEPT !.ino.size = z]
    PROVE  /\ t \in States /\ t.bbm = s.bbm /\ t.used = s.used
           /\ t.err = s.err
           /\ t.tab = s.tab /\ t.ino.size = z
           /\ t.ino.direct = s.ino.direct /\ t.ino.indirect = s.ino.indirect
<1>1. PICK o : o = [s.ino EXCEPT !.size = z]
  OBVIOUS
<1>2. t = [s EXCEPT !.ino = o]
  BY <1>1 DEF States, Inode
<1>3. o \in Inode /\ o.size = z /\ o.indirect = s.ino.indirect /\ o.direct = s.ino.direct
  BY <1>1 DEF Inode, States
<1>4. t \in States
  BY <1>2, <1>3 DEF States
<1>5. t.bbm = s.bbm /\ t.used = s.used /\ t.tab = s.tab /\ t.ino = o
  BY <1>2 DEF States
<1>6. t.err = s.err
  BY <1>2 DEF States
<1> QED  BY <1>3, <1>4, <1>5, <1>6

\* No block: the state is as it was, with the error.
LEMMA NothingGrown ==
    ASSUME NEW s, NEW n, NEW t, NEW m, NEW a, Grown(s, n, t, m), Got(t, a),
           a.addr = -1
    PROVE  Grown(s, n, a.s, m) /\ a.s.err = TRUE
<1>1. PICK v \in States : v = a.s
  BY DEF Got
<1>2. MapOK(v.bbm, v.used) /\ v.ino = t.ino /\ v.tab = t.tab
      /\ v.bbm.bits = t.bbm.bits
  BY <1>1, Facts DEF Got, Blocks
<1>3. v.err = TRUE
  BY <1>1 DEF Got, Blocks
<1>4. Kept(s, n, v) /\ Shape(v.ino, v.tab, m)
  BY <1>2, KeptSame DEF Grown
<1>5. Grown(s, n, v, m)
  BY <1>2, <1>4 DEF Grown
<1> QED  BY <1>1, <1>3, <1>5

LEMMA SomethingGrown ==
    ASSUME NEW s \in States, NEW n \in Nat, NEW t, NEW m, NEW u, NEW b,
           0 \in s.bbm.bits, Grown(s, n, t, m)
    PROVE  /\ Puts(t, u, m, b) /\ u.ino.size = (m + 1) * bsize => Grown(s, n, u, m + 1)
           /\ Puts(t, u, -1, b) /\ u.ino.size = t.ino.size /\ t.ino.indirect = 0 =>
                Grown(s, n, u, m)
<1>1. Kept(s, n, t) /\ m \in Nat /\ n <= m /\ t.ino.size = m * bsize
      /\ Shape(t.ino, t.tab, m) /\ 0 \in t.bbm.bits /\ t \in States
  BY DEF Grown, Kept
<1>2. ASSUME Puts(t, u, m, b), u.ino.size = (m + 1) * bsize
      PROVE  Grown(s, n, u, m + 1)
  <2>1. Kept(s, n, u)
    BY <1>1, <1>2, PutsKept
  <2>2. Shape(u.ino, u.tab, m + 1)
    BY <1>1, <1>2, PutsShape
  <2> QED  BY <1>1, <1>2, <2>1, <2>2 DEF Grown
<1>3. ASSUME Puts(t, u, -1, b), u.ino.size = t.ino.size, t.ino.indirect = 0
      PROVE  Grown(s, n, u, m)
  <2>1. AtOf(t, -1) = 0
    BY <1>3 DEF AtOf, At
  <2>2. PICK p \in Int : p = -1
    OBVIOUS
  <2>3. Kept(s, n, u)
    BY <1>1, <1>3, <2>1, <2>2, PutsKept
  <2>4. Shape(u.ino, u.tab, m)
    BY <1>1, <1>3, <2>2, PutsShape
  <2> QED  BY <1>1, <1>3, <2>3, <2>4 DEF Grown
<1> QED  BY <1>2, <1>3

LEMMA WithIndirectGrows ==
    ASSUME NEW s \in States, NEW n \in Nat, NEW t, NEW m,
           0 \in s.bbm.bits, Grown(s, n, t, m), ~t.err
    PROVE  /\ Grown(s, n, WithIndirect(t), m)
           /\ WithIndirect(t).err \/ WithIndirect(t).ino.indirect # 0
<1>1. t \in States /\ MapOK(t.bbm, t.used) /\ 0 \in t.bbm.bits
  BY DEF Grown, Kept
<1>2. CASE t.ino.indirect # 0
  BY <1>2 DEF WithIndirect
<1>3. CASE t.ino.indirect = 0
  <2>1. PICK a : a = AllocateBlock(t)
    OBVIOUS
  <2>2. Got(t, a)
    BY <1>1, <2>1, AllocIs
  <2>3. WithIndirect(t) = AttachIndirect(a)
    BY <1>3, <2>1 DEF WithIndirect
  <2>4. CASE a.addr = -1
    <3>1. AttachIndirect(a) = a.s
      BY <2>4 DEF AttachIndirect
    <3>2. Grown(s, n, a.s, m) /\ a.s.err = TRUE
      BY <2>2, <2>4, NothingGrown
    <3> QED  BY <2>3, <3>1, <3>2
  <2>5. CASE a.addr # -1
    <3>1. PICK u : u = AttachIndirect(a)
      OBVIOUS
    <3>2. Puts(t, u, -1, a.addr) /\ u.ino.size = t.ino.size /\ u.ino.indirect # 0
      BY <1>1, <1>3, <2>2, <2>5, <3>1, AttachIndirectPuts
    <3>3. Grown(s, n, u, m)
      BY <1>3, <3>2, SomethingGrown
    <3> QED  BY <2>3, <3>1, <3>2, <3>3
  <2> QED  BY <2>4, <2>5
<1> QED  BY <1>2, <1>3

\* What a round of grow_dstream makes of a state of m blocks.
Round(s, n, t, m, u) ==
    \/ Grown(s, n, u, m) /\ u.err
    \/ Grown(s, n, u, m + 1) /\ ~t.err

LEMMA GrowBlockGrows ==
    ASSUME NEW s \in States, NEW n \in Nat, NEW t, NEW m,
           0 \in s.bbm.bits, Grown(s, n, t, m)
    PROVE  Round(s, n, t, m, GrowBlock(t))
<1>0. NUM_DIRECT_BLOCKS \in Nat /\ max_index \in Nat
  BY Facts
<1>1. t \in States /\ MapOK(t.bbm, t.used) /\ 0 \in t.bbm.bits /\ m \in Nat
      /\ t.ino.size = m * bsize
  BY DEF Grown, Kept
<1>2. PICK u : u = GrowBlock(t)
  OBVIOUS
<1>3. CASE t.err
  <2>1. u = t
    BY <1>2, <1>3 DEF GrowBlock
  <2> QED  BY <1>2, <1>3, <2>1 DEF Round
<1>4. CASE ~t.err /\ m < NUM_DIRECT_BLOCKS
  <2>1. t.ino.size < DIRECT_SIZE
    BY <1>1, <1>4, Ranges
  <2>2. PICK a : a = AllocateBlock(t)
    OBVIOUS
  <2>3. Got(t, a)
    BY <1>1, <2>2, AllocIs
  <2>4. u = AppendDirect(t, a)
    BY <1>2, <1>4, <2>1, <2>2 DEF GrowBlock
  <2>5. CASE a.addr = -1
    <3>1. u = a.s
      BY <2>4, <2>5 DEF AppendDirect
    <3>2. Grown(s, n, a.s, m) /\ a.s.err = TRUE
      BY <2>3, <2>5, NothingGrown
    <3> QED  BY <1>2, <3>1, <3>2 DEF Round
  <2>6. CASE a.addr # -1
    <3>1. m \in 0 .. NUM_DIRECT_BLOCKS - 1
      BY <1>0, <1>1, <1>4
    <3>2. Puts(t, u, m, a.addr) /\ u.ino.size = (m + 1) * bsize
      BY <1>1, <2>3, <2>4, <2>6, <3>1, AppendDirectPuts
    <3>3. Grown(s, n, u, m + 1)
      BY <3>2, SomethingGrown
    <3> QED  BY <1>2, <1>4, <3>3 DEF Round
  <2> QED  BY <2>5, <2>6
<1>5. CASE ~t.err /\ ~(m < NUM_DIRECT_BLOCKS) /\ m < NUM_DIRECT_BLOCKS + max_index
  <2>1. ~(t.ino.size < DIRECT_SIZE) /\ t.ino.size < MAX_INDIRECT_RANGE
    BY <1>1, <1>5, Ranges
  <2>2. PICK w : w = WithIndirect(t)
    OBVIOUS
  <2>3. u = GrowIndirect(w)
    BY <1>2, <1>5, <2>1, <2>2 DEF GrowBlock
  <2>4. Grown(s, n, w, m)
    BY <1>5, <2>2, WithIndirectGrows
  <2>5. w.err \/ w.ino.indirect # 0
    BY <1>5, <2>2, WithIndirectGrows
  <2>6. CASE w.err
    <3>1. u = w
      BY <2>3, <2>6 DEF GrowIndirect
    <3> QED  BY <1>2, <2>4, <2>6, <3>1 DEF Round
  <2>7. CASE ~w.err
    <3>1. PICK a : a = AllocateBlock(w)
      OBVIOUS
    <3>2. w \in States /\ MapOK(w.bbm, w.used) /\ w.ino.size = m * bsize
          /\ w.ino.indirect # 0
      BY <2>4, <2>5, <2>7 DEF Grown, Kept
    <3>3. Got(w, a)
      BY <3>1, <3>2, AllocIs
    <3>4. u = AppendIndirect(w, a)
      BY <2>3, <2>7, <3>1 DEF GrowIndirect
    <3>5. CASE a.addr = -1
      <4>1. u = a.s
        BY <3>4, <3>5 DEF AppendIndirect
      <4>2. Grown(s, n, a.s, m) /\ a.s.err = TRUE
        BY <2>4, <3>3, <3>5, NothingGrown
      <4> QED  BY <1>2, <4>1, <4>2 DEF Round
    <3>6. CASE a.addr # -1
      <4>1. m >= NUM_DIRECT_BLOCKS /\ m < NUM_DIRECT_BLOCKS + max_index
        BY <1>0, <1>1, <1>5
      <4>2. Puts(w, u, m, a.addr) /\ u.ino.size = (m + 1) * bsize
        BY <1>1, <3>2, <3>3, <3>4, <3>6, <4>1, AppendIndirectPuts
      <4>3. Grown(s, n, u, m + 1)
        BY <2>4, <4>2, SomethingGrown
      <4> QED  BY <1>2, <1>5, <4>3 DEF Round
    <3> QED  BY <3>5, <3>6
  <2> QED  BY <2>6, <2>7
<1>6. CASE ~t.err /\ ~(m < NUM_DIRECT_BLOCKS) /\ ~(m < NUM_DIRECT_BLOCKS + max_index)
  <2>1. ~(t.ino.size < DIRECT_SIZE) /\ ~(t.ino.size < MAX_INDIRECT_RANGE)
    BY <1>1, <1>6, Ranges
  <2>2. u = [t EXCEPT !.err = TRUE]
    BY <1>2, <1>6, <2>1 DEF GrowBlock
  <2>3. /\ u \in States /\ u.err = TRUE /\ u.bbm = t.bbm /\ u.used = t.used
        /\ u.ino = t.ino /\ u.tab = t.tab
    BY <1>1, <2>2, ErrUpdate, Zenon
  <2>4. Kept(s, n, u) /\ Shape(u.ino, u.tab, m)
    BY <1>1, <2>3, KeptSame DEF Grown
  <2>5. Grown(s, n, u, m)
    BY <2>3, <2>4 DEF Grown
  <2> QED  BY <1>2, <2>3, <2>5 DEF Round
<1> QED  BY <1>3, <1>4, <1>5, <1>6

\* A file before a call: its shape, its blocks its own.
Ready(s) ==
    /\ s \in States /\ MapOK(s.bbm, s.used) /\ ~s.err
    /\ 0 \in s.bbm.bits
    /\ Shape(s.ino, s.tab, Up(s.ino.size))
    /\ Sole(s.ino, s.tab)
    /\ HeldOf(s) \subseteq s.bbm.bits

LEMMA ReadyKept ==
    ASSUME NEW s, Ready(s), NEW n
    PROVE  Kept(s, n, s)
BY DEF Ready, Kept

\* The solution of the recursion in grow_dstream.
GrownFrom(g0, N) ==
    CHOOSE g : g = [k \in 0 .. N |-> IF k = 0 THEN g0 ELSE GrowBlock(g[k - 1])]

LEMMA GrownFromIs ==
    ASSUME NEW s, Ready(s), NEW n \in Nat, n = Up(s.ino.size), NEW N \in Nat,
           NEW g0, g0 = [s EXCEPT !.ino.size = n * bsize]
    PROVE  LET t == GrownFrom(g0, N)[N]
           IN  \E m : Grown(s, n, t, m) /\ (~t.err => m = n + N)
<1>0. s \in States /\ 0 \in s.bbm.bits
  BY DEF Ready
<1>1. Grown(s, n, g0, n) /\ ~g0.err
  <2>1. n * bsize \in Nat
    BY UpMultiple
  <2>2. /\ g0 \in States /\ g0.bbm = s.bbm /\ g0.used = s.used
        /\ g0.err = s.err
        /\ g0.tab = s.tab /\ g0.ino.size = n * bsize
        /\ g0.ino.direct = s.ino.direct /\ g0.ino.indirect = s.ino.indirect
    BY <1>0, <2>1, SizeUpdate
  <2>3. Kept(s, n, s) /\ Shape(s.ino, s.tab, n) /\ MapOK(g0.bbm, g0.used)
    BY <2>2, ReadyKept DEF Ready
  <2>4. g0.bbm.bits = s.bbm.bits
    BY <2>2
  <2>6. Kept(s, n, g0) /\ \A j : Shape(s.ino, s.tab, j) => Shape(g0.ino, g0.tab, j)
    <3>1. PICK v : v = g0
      OBVIOUS
    <3>2. /\ v \in States /\ MapOK(v.bbm, v.used) /\ v.bbm.bits = s.bbm.bits
          /\ v.tab = s.tab /\ v.ino.direct = s.ino.direct
          /\ v.ino.indirect = s.ino.indirect
      BY <2>2, <2>3, <2>4, <3>1
    <3>3. Kept(s, n, v) /\ \A j : Shape(s.ino, s.tab, j) => Shape(v.ino, v.tab, j)
      BY <2>3, <3>2, KeptSame
    <3> QED  BY <3>1, <3>3
  <2>5. ~g0.err
    BY <2>2 DEF Ready
  <2>7. Shape(g0.ino, g0.tab, n)
    BY <2>3, <2>6
  <2> QED  BY <2>2, <2>6, <2>5, <2>7 DEF Grown
<1> DEFINE S == {t \in States : \E m : Grown(s, n, t, m)}
           F == [kt \in (1 .. N) \X S |-> GrowBlock(kt[2])]
           Eq(g) == g = [k \in 0 .. N |-> IF k = 0 THEN g0 ELSE GrowBlock(g[k - 1])]
<1>2. g0 \in S
  BY <1>1 DEF Grown, Kept
<1>3. ASSUME NEW t \in S  PROVE GrowBlock(t) \in S
  <2>1. PICK m : Grown(s, n, t, m)
    OBVIOUS
  <2>2. Round(s, n, t, m, GrowBlock(t))
    BY <1>0, <2>1, GrowBlockGrows
  <2>3. PICK k : Grown(s, n, GrowBlock(t), k)
    BY <2>2 DEF Round
  <2>4. GrowBlock(t) \in States
    BY <2>3 DEF Grown, Kept
  <2> QED  BY <2>3, <2>4
<1>4. F \in [(1 .. N) \X S -> S]
  <2> HIDE DEF S
  <2> QED  BY <1>3
<1>5. \A k \in 1 .. N : \A t \in S : F[<<k, t>>] = GrowBlock(t)
  <2> HIDE DEF S
  <2> QED  OBVIOUS
<1> HIDE DEF F, S
<1>6. \E g : Eq(g)
  <2>0. Steps(S, g0, N, F)
    BY <1>2, <1>4 DEF Steps
  <2>1. PICK g : Runs(S, g0, N, F, g)
    BY <2>0, Recursion
  <2>2. ASSUME NEW k \in 0 .. N
        PROVE  g[k] = IF k = 0 THEN g0 ELSE GrowBlock(g[k - 1])
    <3>1. CASE k = 0
      BY <2>1, <3>1 DEF Runs
    <3>2. CASE k # 0
      <4>1. k \in 1 .. N /\ k - 1 \in 0 .. N
        BY <3>2
      <4>2. g[k - 1] \in S
        BY <2>1, <4>1 DEF Runs
      <4>3. g[k] = F[<<k, g[k - 1]>>]
        BY <2>1, <4>1 DEF Runs
      <4>4. F[<<k, g[k - 1]>>] = GrowBlock(g[k - 1])
        BY <1>5, <4>1, <4>2
      <4> QED  BY <3>2, <4>3, <4>4
    <3> QED  BY <3>1, <3>2
  <2>3. g = [k \in 0 .. N |-> g[k]]
    BY <2>1 DEF Runs
  <2>4. Eq(g)
    BY <2>2, <2>3
  <2> QED  BY <2>4
<1>7. PICK g : g = GrownFrom(g0, N)
  OBVIOUS
<1>8. Eq(g)
  BY <1>6, <1>7 DEF GrownFrom
<1>9. g[0] = g0 /\ \A k \in 1 .. N : g[k] = GrowBlock(g[k - 1])
  <2>1. PICK h : h = [k \in 0 .. N |-> IF k = 0 THEN g0 ELSE GrowBlock(g[k - 1])]
    OBVIOUS
  <2>2. g = h
    BY <1>8, <2>1
  <2>3. h[0] = g0
    BY <2>1
  <2>4. \A k \in 1 .. N : h[k] = GrowBlock(g[k - 1])
    BY <2>1
  <2>5. \A k \in 1 .. N : g[k] = GrowBlock(g[k - 1])
    BY <2>2, <2>4, Zenon
  <2> QED  BY <2>2, <2>3, <2>5
<1> DEFINE P == {k \in 0 .. N :
                   \E m : Grown(s, n, g[k], m) /\ (~g[k].err => m = n + k)}
<1> HIDE DEF Eq
<1>10. 0 \in P
  <2>1. Grown(s, n, g[0], n) /\ n = n + 0
    BY <1>1, <1>9
  <2> QED  BY <2>1
<1>11. ASSUME NEW k \in 1 .. N, k - 1 \in P  PROVE k \in P
  <2>1. PICK m : Grown(s, n, g[k - 1], m) /\ (~g[k - 1].err => m = n + (k - 1))
    BY <1>11
  <2>2. Round(s, n, g[k - 1], m, g[k])
    BY <1>0, <1>9, <2>1, GrowBlockGrows
  <2>3. CASE Grown(s, n, g[k], m) /\ g[k].err
    BY <2>3
  <2>4. CASE Grown(s, n, g[k], m + 1) /\ ~g[k - 1].err
    <3>1. m + 1 = n + k
      BY <2>1, <2>4
    <3> QED  BY <2>4, <3>1
  <2> QED  BY <2>2, <2>3, <2>4 DEF Round
<1> HIDE DEF P
<1>12. N \in P
  <2>1. 0 .. N \subseteq P
    BY <1>10, <1>11, UpTo
  <2> QED  BY <2>1
<1> QED  BY <1>7, <1>12 DEF P

\* A file after a call: t has the n blocks of s, or fewer, where they were.
LEMMA GrowIs ==
    ASSUME NEW s, Ready(s), NEW z \in Nat, z >= s.ino.size
    PROVE  LET t == grow_dstream(s, z)
           IN  /\ Kept(s, Up(s.ino.size), t)
               /\ Up(s.ino.size) <= Up(t.ino.size)
               /\ Shape(t.ino, t.tab, Up(t.ino.size))
<1>0. s \in States /\ s.ino.size \in Nat
  BY DEF Ready, States, Inode
<1>1. PICK n \in Nat : n = Up(s.ino.size)
  BY <1>0, UpIs
<1>2. PICK t : t = grow_dstream(s, z)
  OBVIOUS
<1>3. CASE z > MAX_DOUBLE_INDIRECT_RANGE
  <2>1. t = [s EXCEPT !.err = TRUE]
    BY <1>2, <1>3 DEF grow_dstream
  <2>2. /\ t \in States /\ t.bbm = s.bbm /\ t.used = s.used
        /\ t.ino = s.ino /\ t.tab = s.tab
    BY <1>0, <2>1, ErrUpdate, Zenon
  <2>3. Kept(s, n, t) /\ Shape(t.ino, t.tab, n)
    BY <1>1, <2>2, ReadyKept, KeptSame DEF Ready
  <2> QED  BY <1>1, <1>2, <2>2, <2>3
<1>4. CASE ~(z > MAX_DOUBLE_INDIRECT_RANGE)
  <2>1. PICK q \in Nat : q = Up(z) /\ n <= q
    BY <1>0, <1>1, UpIs, UpMono
  <2>2. RoundUp(s.ino.size) = n * bsize /\ RoundUp(z) = q * bsize
    BY <1>0, <1>1, <2>1, UpIs
  <2>3. PICK N \in Nat : N = q - n
    BY <2>1
  <2>4. (RoundUp(z) - RoundUp(s.ino.size)) \div bsize = N
    <3>1. q * bsize - n * bsize = N * bsize
      BY <2>3, MulOrder, Facts
    <3> QED  BY <2>2, <3>1, UpMultiple
  <2>5. PICK g0 : g0 = [s EXCEPT !.ino.size = n * bsize]
    OBVIOUS
  <2>6. PICK w : w = GrownFrom(g0, N)[N]
    OBVIOUS
  <2>7. t = Sized(w, z)
    <3>1. g0 = [s EXCEPT !.ino.size = RoundUp(s.ino.size)]
      BY <2>2, <2>5
    <3> QED  BY <1>2, <1>4, <2>4, <2>6, <3>1, Zenon DEF grow_dstream, GrownFrom
  <2>8. PICK m : Grown(s, n, w, m) /\ (~w.err => m = n + N)
    BY <1>1, <2>5, <2>6, GrownFromIs
  <2>9. w \in States /\ MapOK(w.bbm, w.used) /\ m \in Nat /\ n <= m
        /\ w.ino.size = m * bsize /\ Kept(s, n, w) /\ Shape(w.ino, w.tab, m)
    BY <2>8 DEF Grown, Kept
  <2>10. CASE w.err
    <3>1. t = w
      BY <2>7, <2>10 DEF Sized
    <3>2. Up(w.ino.size) = m
      BY <2>9, UpMultiple
    <3> QED  BY <1>1, <1>2, <2>9, <3>1, <3>2
  <2>11. CASE ~w.err
    <3>1. t = [w EXCEPT !.ino.size = z]
      BY <2>7, <2>11 DEF Sized
    <3>2. /\ t \in States /\ t.bbm = w.bbm /\ t.used = w.used
          /\ t.tab = w.tab /\ t.ino.size = z
          /\ t.ino.direct = w.ino.direct /\ t.ino.indirect = w.ino.indirect
      BY <2>9, <3>1, SizeUpdate
    <3>3. m = q
      BY <2>1, <2>3, <2>8, <2>11
    <3>4. Kept(s, n, t) /\ Shape(t.ino, t.tab, m)
      BY <2>9, <3>2, KeptSame
    <3> QED  BY <1>1, <1>2, <2>1, <3>2, <3>3, <3>4
  <2> QED  BY <2>10, <2>11
<1> QED  BY <1>3, <1>4
-----------------------------------------------------------------------------
(***************************************************************************)
(* Giving blocks back.                                                     *)
(***************************************************************************)
\* t is s with the blocks R free.
Freed(s, R, t) ==
    /\ t \in States /\ MapOK(t.bbm, t.used)
    /\ t.bbm.bits = s.bbm.bits \ R
    /\ t.ino = s.ino /\ t.tab = s.tab /\ t.err = s.err

WithMap(s, w) == [s EXCEPT !.bbm = w, !.used = s.used - 1]

LEMMA FreeBlockUpdate ==
    ASSUME NEW s \in States, NEW w \in BVs(num_blocks), NEW t,
           t = WithMap(s, w)
    PROVE  /\ t \in States /\ t.bbm = w /\ t.used = s.used - 1
           /\ t.ino = s.ino /\ t.tab = s.tab /\ t.err = s.err
<1>1. s.used \in Int /\ s.used - 1 \in Int
  BY DEF States
<1>2. t \in States
  BY <1>1 DEF States, WithMap
<1>3. t.bbm = w /\ t.used = s.used - 1 /\ t.ino = s.ino /\ t.tab = s.tab
  BY DEF States, WithMap
<1>4. t.err = s.err
  BY DEF States, WithMap
<1> QED  BY <1>2, <1>3, <1>4

LEMMA UnSetTyped ==
    ASSUME NEW bv \in BVs(num_blocks), NEW b \in Blocks
    PROVE  [UnSetRangeBV(bv, b, 1) EXCEPT !.is_full = FALSE] \in BVs(num_blocks)
<1>0. num_blocks \in Nat
  BY Facts
<1>1. bv.numbits = num_blocks /\ bv.bits \subseteq 0 .. num_blocks - 1
      /\ b \in Nat /\ b + 1 <= num_blocks
  BY <1>0 DEF BVs, Blocks
<1>2. PICK R : R = bv.bits \ (b .. b + 1 - 1)
  OBVIOUS
<1>3. R \in SUBSET (0 .. num_blocks - 1)
  BY <1>1, <1>2
<1>4. UnSetRangeBV(bv, b, 1) = [bv EXCEPT !.bits = R, !.next_free = b]
  <2>1. ~(b < 0 \/ 1 < 0 \/ b + 1 > bv.numbits)
    BY <1>0, <1>1
  <2> QED  BY <1>2, <2>1, Zenon DEF UnSetRangeBV
<1>5. PICK v : v = [bv EXCEPT !.bits = R, !.next_free = b]
  OBVIOUS
<1>6. v \in BVs(num_blocks)
  BY <1>1, <1>3, <1>5 DEF BVs
<1>7. [v EXCEPT !.is_full = FALSE] \in BVs(num_blocks)
  BY <1>6 DEF BVs
<1> QED  BY <1>4, <1>5, <1>7

LEMMA FreeTyped ==
    ASSUME NEW s \in States, NEW b \in Blocks
    PROVE  FreeBlock(s, b) \in States
<1>1. s.bbm \in BVs(num_blocks)
  BY DEF States
<1>2. PICK w : w = [UnSetRangeBV(s.bbm, b, 1) EXCEPT !.is_full = FALSE]
  OBVIOUS
<1>3. w \in BVs(num_blocks)
  BY <1>1, <1>2, UnSetTyped
<1>4. FreeBlock(s, b) = WithMap(s, w)
  BY <1>2 DEF FreeBlock, WithMap
<1> QED  BY <1>3, <1>4, FreeBlockUpdate

LEMMA FreeBlockIs ==
    ASSUME NEW s \in States, MapOK(s.bbm, s.used), NEW b \in s.bbm.bits
    PROVE  Freed(s, {b}, FreeBlock(s, b))
<1>0. num_blocks \in Nat \ {0}
  BY Facts
<1>1. GoodBV(s.bbm, num_blocks) /\ s.bbm.bits \subseteq Blocks
      /\ s.used = Cardinality(s.bbm.bits)
  BY DEF MapOK, GoodBV, BVs, Blocks
<1>2. b \in 0 .. num_blocks - 1
  BY <1>1 DEF Blocks
<1>3. PICK w : w = [UnSetRangeBV(s.bbm, b, 1) EXCEPT !.is_full = FALSE]
  OBVIOUS
<1>4. GoodBV(w, num_blocks) /\ FullOK(w, num_blocks) /\ w.bits = s.bbm.bits \ {b}
  BY <1>0, <1>1, <1>2, <1>3, UnSetIs
<1>5. w \in BVs(num_blocks)
  BY <1>4 DEF GoodBV
<1>6. PICK t : t = FreeBlock(s, b)
  OBVIOUS
<1>7. t = WithMap(s, w)
  BY <1>3, <1>6 DEF FreeBlock, WithMap
<1>8. /\ t \in States /\ t.bbm = w /\ t.used = s.used - 1
      /\ t.ino = s.ino /\ t.tab = s.tab
  BY <1>5, <1>7, FreeBlockUpdate
<1>11. t.err = s.err
  BY <1>7 DEF States, WithMap
<1>9. Cardinality(s.bbm.bits \ {b}) = Cardinality(s.bbm.bits) - 1
  <2>1. IsFiniteSet(s.bbm.bits)
    BY <1>1, BlocksFinite
  <2> QED  BY <2>1, FS_RemoveElement, ZenonT(60)
<1>10. MapOK(t.bbm, t.used)
  BY <1>1, <1>4, <1>8, <1>9 DEF MapOK
<1> QED  BY <1>4, <1>6, <1>8, <1>10, <1>11 DEF Freed

\* Different blocks that are set, freed one after the other.
Listed(s, bs, N) ==
    /\ N \in Nat /\ Len(bs) = N
    /\ \A k \in 1 .. N : bs[k] \in s.bbm.bits
    /\ \A j, k \in 1 .. N : bs[j] = bs[k] => j = k

FreedFrom(s, bs, N) ==
    CHOOSE g : g = [k \in 0 .. N |-> IF k = 0 THEN s ELSE FreeBlock(g[k - 1], bs[k])]

LEMMA FreedFromIs ==
    ASSUME NEW s \in States, NEW bs, NEW N, Listed(s, bs, N),
           NEW g, g = FreedFrom(s, bs, N)
    PROVE  g[0] = s /\ \A k \in 1 .. N : g[k] = FreeBlock(g[k - 1], bs[k])
<1> DEFINE F == [kt \in (1 .. N) \X States |-> FreeBlock(kt[2], bs[kt[1]])]
           Eq(h) == h = [k \in 0 .. N |-> IF k = 0 THEN s ELSE FreeBlock(h[k - 1], bs[k])]
<1>0. N \in Nat /\ \A k \in 1 .. N : bs[k] \in Blocks
  BY DEF Listed, States, BVs, Blocks
<1>1. F \in [(1 .. N) \X States -> States]
  BY <1>0, FreeTyped
<1>2. \A k \in 1 .. N : \A t \in States : F[<<k, t>>] = FreeBlock(t, bs[k])
  OBVIOUS
<1> HIDE DEF F
<1>3. \E h : Eq(h)
  <2>1. Steps(States, s, N, F)
    BY <1>0, <1>1 DEF Steps
  <2>2. PICK h : Runs(States, s, N, F, h)
    BY <2>1, Recursion
  <2>3. ASSUME NEW k \in 0 .. N
        PROVE  h[k] = IF k = 0 THEN s ELSE FreeBlock(h[k - 1], bs[k])
    <3>1. CASE k = 0
      BY <2>2, <3>1 DEF Runs
    <3>2. CASE k # 0
      <4>1. k \in 1 .. N /\ k - 1 \in 0 .. N
        BY <1>0, <3>2
      <4>2. h[k - 1] \in States
        BY <2>2, <4>1 DEF Runs
      <4>3. h[k] = F[<<k, h[k - 1]>>]
        BY <2>2, <4>1 DEF Runs
      <4>4. F[<<k, h[k - 1]>>] = FreeBlock(h[k - 1], bs[k])
        BY <1>2, <4>1, <4>2
      <4> QED  BY <3>2, <4>3, <4>4
    <3> QED  BY <3>1, <3>2
  <2>4. h = [k \in 0 .. N |-> h[k]]
    BY <2>2 DEF Runs
  <2>5. Eq(h)
    BY <2>3, <2>4
  <2> QED  BY <2>5
<1>4. Eq(g)
  BY <1>3 DEF FreedFrom
<1>5. PICK h : h = [k \in 0 .. N |-> IF k = 0 THEN s ELSE FreeBlock(g[k - 1], bs[k])]
  OBVIOUS
<1>6. g = h
  BY <1>4, <1>5
<1>7. h[0] = s
  BY <1>0, <1>5
<1>8. \A k \in 1 .. N : h[k] = FreeBlock(g[k - 1], bs[k])
  BY <1>0, <1>5
<1>9. \A k \in 1 .. N : g[k] = FreeBlock(g[k - 1], bs[k])
  BY <1>6, <1>8, Zenon
<1> QED  BY <1>6, <1>7, <1>9

LEMMA FreeBlocksIs ==
    ASSUME NEW s \in States, MapOK(s.bbm, s.used), NEW bs, NEW N, Listed(s, bs, N)
    PROVE  Freed(s, {bs[k] : k \in 1 .. N}, FreeBlocks(s, bs))
<1>0. N \in Nat /\ Len(bs) = N
  BY DEF Listed
<1>1. PICK g : g = FreedFrom(s, bs, N)
  OBVIOUS
<1>2. g[0] = s /\ \A k \in 1 .. N : g[k] = FreeBlock(g[k - 1], bs[k])
  BY <1>1, FreedFromIs
<1>3. FreeBlocks(s, bs) = g[N]
  BY <1>0, <1>1, Zenon DEF FreeBlocks, FreedFrom
<1> DEFINE P == {n \in 0 .. N : Freed(s, {bs[k] : k \in 1 .. n}, g[n])}
<1>4. 0 \in P
  <2>1. {bs[k] : k \in 1 .. 0} = {}
    OBVIOUS
  <2>2. Freed(s, {}, s)
    BY DEF Freed
  <2>3. Freed(s, {bs[k] : k \in 1 .. 0}, g[0])
    BY <1>2, <2>1, <2>2, Zenon
  <2> QED  BY <1>0, <2>3
<1>5. ASSUME NEW n \in 1 .. N, n - 1 \in P  PROVE n \in P
  <2>1. PICK m : m = n - 1
    OBVIOUS
  <2>2. m \in 0 .. N /\ n = m + 1 /\ g[n] = FreeBlock(g[m], bs[n])
    BY <1>0, <1>2, <2>1
  <2>3. PICK R : R = {bs[k] : k \in 1 .. m}
    OBVIOUS
  <2>4. Freed(s, R, g[m])
    BY <1>5, <2>1, <2>3
  <2>5. bs[n] \in s.bbm.bits /\ bs[n] \notin R
    BY <2>2, <2>3 DEF Listed
  <2>6. Freed(g[m], {bs[n]}, FreeBlock(g[m], bs[n]))
    <3>1. g[m] \in States /\ MapOK(g[m].bbm, g[m].used) /\ bs[n] \in g[m].bbm.bits
      BY <2>4, <2>5 DEF Freed
    <3> QED  BY <3>1, FreeBlockIs
  <2>7. {bs[k] : k \in 1 .. n} = R \cup {bs[n]}
    BY <2>2, <2>3
  <2>8. Freed(s, R \cup {bs[n]}, g[n])
    BY <2>2, <2>4, <2>6 DEF Freed
  <2> QED  BY <2>7, <2>8
<1> HIDE DEF P
<1>6. 0 .. N \subseteq P
  BY <1>0, <1>4, <1>5, UpTo
<1>7. N \in P
  BY <1>0, <1>6
<1> QED  BY <1>3, <1>7 DEF P

\* The addresses from index i on that are not zero end before index e.
Ends(addrs, M, i, e) ==
    /\ e \in i .. M
    /\ \A j \in i .. e - 1 : addrs[j] # 0
    /\ e < M => addrs[e] = 0

LEMMA FromIs ==
    ASSUME NEW M \in Nat, NEW addrs \in [0 .. M - 1 -> Blocks], NEW i \in 0 .. M
    PROVE  \E e : /\ Ends(addrs, M, i, e)
                  /\ From(addrs, i) = [k \in 1 .. e - i |-> addrs[i + k - 1]]
<1>1. PICK D : D = DOMAIN addrs \cup {-1}
  OBVIOUS
<1>2. M - 1 \in D /\ \A y \in D : M - 1 >= y /\ y \in Int
  BY <1>1
<1>3. Max(D) = M - 1
  <2>1. \E x \in D : \A y \in D : x >= y
    BY <1>2
  <2>2. Max(D) \in D /\ \A y \in D : Max(D) >= y
    BY <2>1 DEF Max
  <2> QED  BY <1>2, <2>2
<1>4. PICK T : T = {k \in i .. M - 1 : addrs[k] = 0} \cup {M}
  OBVIOUS
<1>5. T \subseteq Nat /\ T # {} /\ T \subseteq i .. M
  BY <1>4
<1>6. PICK e \in T : \A m \in T : e <= m
  BY <1>5, LeastNat
<1>7. Min(T) = e
  <2>1. PICK x : x = Min(T)
    OBVIOUS
  <2>2. x \in T /\ \A y \in T : x <= y
    BY <1>6, <2>1 DEF Min
  <2>3. x \in Nat /\ e \in Nat /\ x <= e /\ e <= x
    BY <1>5, <1>6, <2>2
  <2> QED  BY <2>1, <2>3
<1>8. Ends(addrs, M, i, e)
  <2>1. e \in i .. M
    BY <1>5, <1>6
  <2>2. ASSUME NEW j \in i .. e - 1  PROVE addrs[j] # 0
    <3>1. j \in i .. M - 1 /\ ~(e <= j)
      BY <2>1
    <3> QED  BY <1>4, <1>6, <3>1
  <2>3. e < M => addrs[e] = 0
    BY <1>4, <1>6, <2>1
  <2> QED  BY <2>1, <2>2, <2>3 DEF Ends
<1>9. From(addrs, i) = [k \in 1 .. e - i |-> addrs[i + k - 1]]
  <2>1. M - 1 + 1 = M
    OBVIOUS
  <2>2. T = {k \in i .. Max(D) : addrs[k] = 0} \cup {Max(D) + 1}
    BY <1>3, <1>4, <2>1
  <2> QED  BY <1>1, <1>7, <2>2, Zenon DEF From
<1> QED  BY <1>8, <1>9

\* The same as a list of blocks to free.
Distinct(s, addrs, M) ==
    /\ M \in Nat /\ addrs \in [0 .. M - 1 -> Blocks]
    /\ \A j \in 0 .. M - 1 : addrs[j] # 0 => addrs[j] \in s.bbm.bits
    /\ \A j, k \in 0 .. M - 1 : addrs[j] # 0 /\ addrs[j] = addrs[k] => j = k

Lists(s, addrs, M, i, e, bs, N) ==
    /\ N = e - i
    /\ Ends(addrs, M, i, e)
    /\ Listed(s, bs, N)
    /\ {bs[k] : k \in 1 .. N} = {addrs[j] : j \in i .. e - 1}

LEMMA FromLists ==
    ASSUME NEW s \in States, NEW M, NEW addrs, Distinct(s, addrs, M), NEW i \in 0 .. M
    PROVE  \E e, N : Lists(s, addrs, M, i, e, From(addrs, i), N)
<1>0. /\ M \in Nat /\ addrs \in [0 .. M - 1 -> Blocks]
      /\ \A j \in 0 .. M - 1 : addrs[j] # 0 => addrs[j] \in s.bbm.bits
      /\ \A j, k \in 0 .. M - 1 : addrs[j] # 0 /\ addrs[j] = addrs[k] => j = k
  BY DEF Distinct
<1>1. PICK e : /\ Ends(addrs, M, i, e)
               /\ From(addrs, i) = [k \in 1 .. e - i |-> addrs[i + k - 1]]
  BY <1>0, FromIs
<1>2. PICK bs : bs = From(addrs, i)
  OBVIOUS
<1>3. e \in i .. M /\ \A j \in i .. e - 1 : addrs[j] # 0
  BY <1>0, <1>1 DEF Ends
<1>4. PICK N \in Nat : N = e - i
  BY <1>3
<1>5. bs = [k \in 1 .. N |-> addrs[i + k - 1]]
  BY <1>1, <1>2, <1>4
<1>6. \A k \in 1 .. N : i + k - 1 \in i .. e - 1 /\ i + k - 1 \in 0 .. M - 1
                        /\ bs[k] = addrs[i + k - 1]
  BY <1>0, <1>3, <1>4, <1>5
<1>7. Len(bs) = N
  <2>1. bs \in [1 .. N -> Blocks]
    BY <1>0, <1>5, <1>6
  <2> QED  BY <2>1
<1>8. \A k \in 1 .. N : bs[k] \in s.bbm.bits
  BY <1>0, <1>3, <1>6
<1>9. ASSUME NEW j \in 1 .. N, NEW k \in 1 .. N, bs[j] = bs[k]  PROVE j = k
  <2>1. i + j - 1 = i + k - 1
    BY <1>0, <1>3, <1>6, <1>9
  <2> QED  BY <2>1
<1>10. Listed(s, bs, N)
  BY <1>7, <1>8, <1>9 DEF Listed
<1>11. {bs[k] : k \in 1 .. N} = {addrs[j] : j \in i .. e - 1}
  <2>1. ASSUME NEW j \in i .. e - 1  PROVE \E k \in 1 .. N : bs[k] = addrs[j]
    <3>1. PICK k : k = j - i + 1
      OBVIOUS
    <3>2. k \in 1 .. N /\ i + k - 1 = j
      BY <1>3, <1>4, <3>1
    <3> QED  BY <1>6, <3>2
  <2>2. ASSUME NEW k \in 1 .. N  PROVE \E j \in i .. e - 1 : bs[k] = addrs[j]
    BY <1>6
  <2>3. ASSUME NEW x
        PROVE  x \in {bs[k] : k \in 1 .. N} <=> x \in {addrs[j] : j \in i .. e - 1}
    <3>1. ASSUME x \in {bs[k] : k \in 1 .. N}
          PROVE  x \in {addrs[j] : j \in i .. e - 1}
      <4>1. PICK k \in 1 .. N : x = bs[k]
        BY <3>1
      <4>2. PICK j \in i .. e - 1 : bs[k] = addrs[j]
        BY <2>2
      <4> QED  BY <4>1, <4>2
    <3>2. ASSUME x \in {addrs[j] : j \in i .. e - 1}
          PROVE  x \in {bs[k] : k \in 1 .. N}
      <4>1. PICK j \in i .. e - 1 : x = addrs[j]
        BY <3>2
      <4>2. PICK k \in 1 .. N : bs[k] = addrs[j]
        BY <2>1
      <4> QED  BY <4>1, <4>2
    <3> QED  BY <3>1, <3>2
  <2> QED  BY <2>3, Zenon
<1>12. Lists(s, addrs, M, i, e, bs, N)
  BY <1>1, <1>4, <1>10, <1>11 DEF Lists
<1> QED  BY <1>2, <1>12

(***************************************************************************)
(* t is s after places were given up: what is left is where it was, the    *)
(* blocks given up are free, and no other block is.                        *)
(***************************************************************************)
Cut(s, t) ==
    /\ t \in States /\ MapOK(t.bbm, t.used)
    /\ t.tab = s.tab /\ t.err = s.err
    /\ \A i \in Places : AtOf(t, i) = AtOf(s, i) \/ AtOf(t, i) = 0
    /\ t.bbm.bits \subseteq s.bbm.bits
    /\ s.bbm.bits \ HeldOf(s) \subseteq t.bbm.bits
    /\ HeldOf(t) \subseteq t.bbm.bits

\* The blocks of s are its own.
Owns(s) ==
    /\ s \in States /\ MapOK(s.bbm, s.used)
    /\ Sole(s.ino, s.tab)
    /\ HeldOf(s) \subseteq s.bbm.bits

LEMMA CutSelf ==
    ASSUME NEW s, Owns(s)
    PROVE  Cut(s, s)
BY DEF Owns, Cut

LEMMA HeldIs ==
    ASSUME NEW s
    PROVE  /\ \A i \in Places : AtOf(s, i) # 0 => AtOf(s, i) \in HeldOf(s)
           /\ \A b \in HeldOf(s) : b # 0 /\ \E i \in Places : b = AtOf(s, i)
BY DEF HeldOf, Held, AtOf

LEMMA CutOwns ==
    ASSUME NEW s, NEW t, Owns(s), Cut(s, t)
    PROVE  Owns(t) /\ HeldOf(t) \subseteq HeldOf(s)
<1>1. ASSUME NEW i \in Places, AtOf(t, i) # 0
      PROVE  AtOf(t, i) = AtOf(s, i)
  BY <1>1 DEF Cut
<1>2. HeldOf(t) \subseteq HeldOf(s)
  BY <1>1, HeldIs
<1>3. \A i, j \in Places : AtOf(s, i) # 0 /\ AtOf(s, i) = AtOf(s, j) => i = j
  BY DEF Owns, Sole, AtOf
<1>4. \A i, j \in Places : AtOf(t, i) # 0 /\ AtOf(t, i) = AtOf(t, j) => i = j
  BY <1>1, <1>3
<1>5. Sole(t.ino, t.tab)
  BY <1>4 DEF Sole, AtOf
<1> QED  BY <1>2, <1>5 DEF Owns, Cut

LEMMA CutCut ==
    ASSUME NEW s, NEW t, NEW u, Owns(s), Cut(s, t), Cut(t, u)
    PROVE  Cut(s, u)
<1>1. HeldOf(t) \subseteq HeldOf(s)
  BY CutOwns
<1>2. s.bbm.bits \ HeldOf(s) \subseteq u.bbm.bits /\ u.bbm.bits \subseteq s.bbm.bits
  BY <1>1 DEF Cut
<1>3. \A i \in Places : AtOf(u, i) = AtOf(s, i) \/ AtOf(u, i) = 0
  BY DEF Cut
<1> QED  BY <1>2, <1>3 DEF Cut

\* The inode with other direct addresses, and without an indirect block.
SetDirect(s, d) == [s EXCEPT !.ino.direct = d]

DropIndirect(s) == [s EXCEPT !.ino.indirect = 0]

LEMMA SetDirectUpdate ==
    ASSUME NEW s \in States, NEW d \in [0 .. NUM_DIRECT_BLOCKS - 1 -> Blocks],
           NEW t, t = SetDirect(s, d)
    PROVE  /\ t \in States /\ t.bbm = s.bbm /\ t.used = s.used
           /\ t.err = s.err
           /\ t.tab = s.tab /\ t.ino.size = s.ino.size
           /\ t.ino.direct = d /\ t.ino.indirect = s.ino.indirect
<1>1. PICK o : o = [s.ino EXCEPT !.direct = d]
  OBVIOUS
<1>2. t = [s EXCEPT !.ino = o]
  BY <1>1 DEF States, Inode, SetDirect
<1>3. o \in Inode /\ o.size = s.ino.size /\ o.indirect = s.ino.indirect /\ o.direct = d
  BY <1>1 DEF Inode, States
<1>4. t \in States
  BY <1>2, <1>3 DEF States
<1>5. t.bbm = s.bbm /\ t.used = s.used /\ t.tab = s.tab /\ t.ino = o
  BY <1>2 DEF States
<1>6. t.err = s.err
  BY <1>2 DEF States
<1> QED  BY <1>3, <1>4, <1>5, <1>6

LEMMA DropIndirectUpdate ==
    ASSUME NEW s \in States, NEW t, t = DropIndirect(s)
    PROVE  /\ t \in States /\ t.bbm = s.bbm /\ t.used = s.used
           /\ t.err = s.err
           /\ t.tab = s.tab /\ t.ino.size = s.ino.size
           /\ t.ino.direct = s.ino.direct /\ t.ino.indirect = 0
<1>0. 0 \in Blocks
  BY Facts
<1>1. PICK o : o = [s.ino EXCEPT !.indirect = 0]
  OBVIOUS
<1>2. t = [s EXCEPT !.ino = o]
  BY <1>1 DEF States, Inode, DropIndirect
<1>3. o \in Inode /\ o.size = s.ino.size /\ o.indirect = 0 /\ o.direct = s.ino.direct
  BY <1>0, <1>1 DEF Inode, States
<1>4. t \in States
  BY <1>2, <1>3 DEF States
<1>5. t.bbm = s.bbm /\ t.used = s.used /\ t.tab = s.tab /\ t.ino = o
  BY <1>2 DEF States
<1>6. t.err = s.err
  BY <1>2 DEF States
<1> QED  BY <1>3, <1>4, <1>5, <1>6

\* The places of a state, one by one.
LEMMA PlacesOf ==
    ASSUME NEW s \in States
    PROVE  /\ AtOf(s, -1) = s.ino.indirect /\ -1 \in Places
           /\ \A i \in 0 .. NUM_DIRECT_BLOCKS - 1 :
                i \in Places /\ AtOf(s, i) = s.ino.direct[i]
           /\ \A j \in 0 .. max_index - 1 :
                /\ NUM_DIRECT_BLOCKS + j \in Places
                /\ s.ino.indirect # 0 =>
                     AtOf(s, NUM_DIRECT_BLOCKS + j) = s.tab[s.ino.indirect][j]
           /\ s.ino.indirect = 0 =>
                \A i \in Places : i >= NUM_DIRECT_BLOCKS => AtOf(s, i) = 0
           /\ \A i \in Places : \/ i = -1
                                \/ i \in 0 .. NUM_DIRECT_BLOCKS - 1
                                \/ \E j \in 0 .. max_index - 1 : i = NUM_DIRECT_BLOCKS + j
<1>1. NUM_DIRECT_BLOCKS \in Nat /\ max_index \in Nat
  BY Facts
<1>2. s.ino \in Inode /\ s.tab \in Tables
  BY DEF States
<1>3. AtOf(s, -1) = s.ino.indirect /\ -1 \in Places
  BY <1>1, <1>2, AtIs DEF AtOf, Places
<1>4. \A i \in 0 .. NUM_DIRECT_BLOCKS - 1 : i \in Places /\ AtOf(s, i) = s.ino.direct[i]
  BY <1>2, AtIs DEF AtOf
<1>5. \A i \in Places : i >= NUM_DIRECT_BLOCKS =>
         AtOf(s, i) = IF s.ino.indirect = 0 THEN 0
                      ELSE s.tab[s.ino.indirect][i - NUM_DIRECT_BLOCKS]
  BY <1>2, AtIs DEF AtOf
<1>6. ASSUME NEW j \in 0 .. max_index - 1
      PROVE  /\ NUM_DIRECT_BLOCKS + j \in Places
             /\ s.ino.indirect # 0 =>
                  AtOf(s, NUM_DIRECT_BLOCKS + j) = s.tab[s.ino.indirect][j]
  <2>1. PICK i : i = NUM_DIRECT_BLOCKS + j
    OBVIOUS
  <2>2. i \in Places /\ i >= NUM_DIRECT_BLOCKS /\ i - NUM_DIRECT_BLOCKS = j
    BY <1>1, <2>1 DEF Places
  <2>3. s.ino.indirect # 0 => AtOf(s, i) = s.tab[s.ino.indirect][j]
    BY <1>5, <2>2
  <2> QED  BY <2>1, <2>2, <2>3
<1>7. ASSUME NEW i \in Places
      PROVE  \/ i = -1
             \/ i \in 0 .. NUM_DIRECT_BLOCKS - 1
             \/ \E j \in 0 .. max_index - 1 : i = NUM_DIRECT_BLOCKS + j
  <2>1. CASE i >= NUM_DIRECT_BLOCKS
    <3>1. i - NUM_DIRECT_BLOCKS \in 0 .. max_index - 1
          /\ i = NUM_DIRECT_BLOCKS + (i - NUM_DIRECT_BLOCKS)
      BY <1>1, <2>1 DEF Places
    <3> QED  BY <3>1
  <2>2. CASE ~(i >= NUM_DIRECT_BLOCKS)
    BY <1>1, <2>2 DEF Places
  <2> QED  BY <2>1, <2>2
<1> QED  BY <1>3, <1>4, <1>5, <1>6, <1>7

\* The addresses of the indirect range have no gap.
NoGap(s) == \A i, j \in Places :
    i >= NUM_DIRECT_BLOCKS /\ i < j /\ AtOf(s, j) # 0 => AtOf(s, i) # 0

LEMMA ShrinkIndirectIs ==
    ASSUME NEW s, Owns(s), NEW m \in Nat, m <= NUM_DIRECT_BLOCKS
    PROVE  LET t == ShrinkIndirect(s, m * bsize)
           IN  /\ Cut(s, t) /\ t.ino.direct = s.ino.direct
               /\ t.ino.indirect = s.ino.indirect \/ t.ino.indirect = 0
<1>0. /\ NUM_DIRECT_BLOCKS \in Nat /\ max_index \in Nat /\ s \in States
      /\ MapOK(s.bbm, s.used)
  BY Facts DEF Owns
<1>1. PICK t : t = ShrinkIndirect(s, m * bsize)
  OBVIOUS
<1>2. CASE m * bsize >= MAX_INDIRECT_RANGE \/ s.ino.indirect = 0
  <2>1. t = s
    BY <1>1, <1>2 DEF ShrinkIndirect
  <2> QED  BY <1>1, <2>1, CutSelf
<1>3. CASE ~(m * bsize >= MAX_INDIRECT_RANGE \/ s.ino.indirect = 0)
  <2>1. ~(m * bsize > DIRECT_SIZE)
    <3>1. m * bsize <= NUM_DIRECT_BLOCKS * bsize /\ m * bsize \in Int
          /\ NUM_DIRECT_BLOCKS * bsize \in Int
      BY <1>0, MulOrder, Facts
    <3> QED  BY <3>1 DEF DIRECT_SIZE
  <2>2. PICK c : c = s.ino.indirect
    OBVIOUS
  <2>3. c \in Blocks /\ c # 0
    BY <1>0, <1>3, <2>2 DEF States, Inode
  <2>4. PICK addrs : addrs = s.tab[c]
    OBVIOUS
  <2>5. addrs \in [0 .. max_index - 1 -> Blocks]
    BY <1>0, <2>3, <2>4 DEF States, Tables
  <2>6. \A j \in 0 .. max_index - 1 :
           /\ NUM_DIRECT_BLOCKS + j \in Places
           /\ addrs[j] = AtOf(s, NUM_DIRECT_BLOCKS + j)
    BY <1>0, <2>2, <2>3, <2>4, PlacesOf
  <2>7. \A i \in Places : AtOf(s, i) # 0 => AtOf(s, i) \in s.bbm.bits
    BY HeldIs DEF Owns
  <2>8. \A i, j \in Places : AtOf(s, i) # 0 /\ AtOf(s, i) = AtOf(s, j) => i = j
    BY DEF Owns, Sole, AtOf
  <2>9. \A j \in 0 .. max_index - 1 : addrs[j] # 0 => addrs[j] \in s.bbm.bits
    BY <2>6, <2>7
  <2>10. ASSUME NEW j \in 0 .. max_index - 1, NEW k \in 0 .. max_index - 1,
                addrs[j] # 0, addrs[j] = addrs[k]
         PROVE  j = k
    <3>1. NUM_DIRECT_BLOCKS + j = NUM_DIRECT_BLOCKS + k
      BY <2>6, <2>8, <2>10
    <3> QED  BY <1>0, <3>1
  <2>11. PICK bs : bs = From(addrs, 0)
    OBVIOUS
  <2>12. PICK e, N : Lists(s, addrs, max_index, 0, e, bs, N)
    <3>1. Distinct(s, addrs, max_index) /\ 0 \in 0 .. max_index
      BY <1>0, <2>5, <2>9, <2>10 DEF Distinct
    <3> QED  BY <1>0, <2>11, <3>1, FromLists
  <2>13. PICK R : R = {addrs[j] : j \in 0 .. e - 1}
    OBVIOUS
  <2>14. PICK u : u = FreeBlocks(s, bs)
    OBVIOUS
  <2>15. Freed(s, R, u)
    <3>1. Listed(s, bs, N) /\ R = {bs[k] : k \in 1 .. N}
      BY <2>12, <2>13 DEF Lists
    <3> QED  BY <1>0, <2>14, <3>1, FreeBlocksIs
  <2>16. e \in 0 .. max_index /\ \A j \in 0 .. e - 1 : addrs[j] # 0 /\ j \in 0 .. max_index - 1
    BY <1>0, <2>12 DEF Lists, Ends
  <2>17. c \in s.bbm.bits /\ c \notin R
    <3>1. AtOf(s, -1) = c /\ -1 \in Places
      BY <1>0, <2>2, PlacesOf
    <3>2. ASSUME NEW j \in 0 .. e - 1  PROVE addrs[j] # c
      <4>1. addrs[j] = AtOf(s, NUM_DIRECT_BLOCKS + j) /\ NUM_DIRECT_BLOCKS + j \in Places
        BY <2>6, <2>16
      <4>2. NUM_DIRECT_BLOCKS + j # -1
        BY <1>0, <2>16
      <4> QED  BY <2>3, <2>8, <3>1, <4>1, <4>2
    <3> QED  BY <2>3, <2>7, <2>13, <3>1, <3>2
  <2>18. PICK v : v = FreeBlock(u, c)
    OBVIOUS
  <2>19. Freed(u, {c}, v)
    <3>1. u \in States /\ MapOK(u.bbm, u.used) /\ c \in u.bbm.bits
      BY <2>15, <2>17 DEF Freed
    <3> QED  BY <2>18, <3>1, FreeBlockIs
  <2>20. t = DropIndirect(v)
    <3>1. ShrinkIndirect(s, m * bsize) =
             [FreeBlock(FreeBlocks(s, From(s.tab[s.ino.indirect], 0)), s.ino.indirect)
                EXCEPT !.ino.indirect = 0]
      BY <1>3, <2>1, Zenon DEF ShrinkIndirect
    <3> QED  BY <1>1, <2>2, <2>4, <2>11, <2>14, <2>18, <3>1 DEF DropIndirect
  <2>21. v \in States /\ MapOK(v.bbm, v.used) /\ v.bbm.bits = s.bbm.bits \ (R \cup {c})
         /\ v.ino = s.ino /\ v.tab = s.tab /\ v.err = s.err
    BY <2>15, <2>19 DEF Freed
  <2>22. /\ t \in States /\ MapOK(t.bbm, t.used)
         /\ t.bbm.bits = s.bbm.bits \ (R \cup {c})
         /\ t.tab = s.tab
         /\ t.ino.direct = s.ino.direct /\ t.ino.indirect = 0
    BY <2>20, <2>21, DropIndirectUpdate
  <2>23. t.err = s.err
    <3>1. t.err = v.err
      BY <2>20, <2>21, DropIndirectUpdate
    <3> QED  BY <2>21, <3>1
  <2>24. ASSUME NEW i \in Places
         PROVE  \/ i \in 0 .. NUM_DIRECT_BLOCKS - 1 /\ AtOf(t, i) = AtOf(s, i)
                \/ AtOf(t, i) = 0
    <3>1. CASE i = -1
      BY <2>22, <3>1, PlacesOf
    <3>2. CASE i \in 0 .. NUM_DIRECT_BLOCKS - 1
      BY <1>0, <2>22, <3>2, PlacesOf
    <3>3. CASE i >= NUM_DIRECT_BLOCKS
      BY <2>22, <3>3, PlacesOf
    <3> QED  BY <1>0, <3>1, <3>2, <3>3 DEF Places
  <2>25. HeldOf(t) \subseteq t.bbm.bits
    <3> SUFFICES ASSUME NEW b \in HeldOf(t)  PROVE b \in s.bbm.bits /\ b \notin R /\ b # c
      BY <2>22
    <3>1. PICK i \in Places : b = AtOf(t, i) /\ b # 0
      BY HeldIs
    <3>2. i \in 0 .. NUM_DIRECT_BLOCKS - 1 /\ b = AtOf(s, i)
      BY <2>24, <3>1
    <3>3. b \in s.bbm.bits
      BY <2>7, <3>1, <3>2
    <3>4. b # c
      BY <1>0, <2>2, <2>8, <3>1, <3>2, PlacesOf
    <3>5. ASSUME NEW j \in 0 .. e - 1  PROVE b # addrs[j]
      <4>1. addrs[j] = AtOf(s, NUM_DIRECT_BLOCKS + j) /\ NUM_DIRECT_BLOCKS + j \in Places
        BY <2>6, <2>16
      <4>2. NUM_DIRECT_BLOCKS + j # i
        BY <1>0, <2>16, <3>2
      <4> QED  BY <2>8, <3>1, <3>2, <4>1, <4>2
    <3> QED  BY <2>13, <3>3, <3>4, <3>5
  <2>26. R \cup {c} \subseteq HeldOf(s)
    <3>1. c \in HeldOf(s)
      BY <1>0, <2>2, <2>3, HeldIs, PlacesOf
    <3>2. ASSUME NEW j \in 0 .. e - 1  PROVE addrs[j] \in HeldOf(s)
      BY <2>6, <2>16, HeldIs
    <3> QED  BY <2>13, <3>1, <3>2
  <2>27. Cut(s, t)
    BY <2>22, <2>23, <2>24, <2>25, <2>26 DEF Cut
  <2> QED  BY <1>1, <2>22, <2>27
<1> QED  BY <1>2, <1>3

LEMMA ShrinkDirectIs ==
    ASSUME NEW s, Owns(s), NEW m \in Nat, NEW n \in Nat, m <= n, m <= NUM_DIRECT_BLOCKS,
           \A i \in 0 .. NUM_DIRECT_BLOCKS - 1 : AtOf(s, i) # 0 <=> i < n
    PROVE  LET t == ShrinkDirect(s, m * bsize)
           IN  /\ Cut(s, t) /\ t.ino.indirect = s.ino.indirect
               /\ \A i \in 0 .. NUM_DIRECT_BLOCKS - 1 : AtOf(t, i) # 0 <=> i < m
<1>0. /\ NUM_DIRECT_BLOCKS \in Nat /\ max_index \in Nat /\ s \in States
      /\ MapOK(s.bbm, s.used)
  BY Facts DEF Owns
<1>1. PICK t : t = ShrinkDirect(s, m * bsize)
  OBVIOUS
<1>2. CASE m * bsize >= DIRECT_SIZE
  <2>1. t = s
    BY <1>1, <1>2 DEF ShrinkDirect
  <2>2. ~(m * bsize < DIRECT_SIZE)
    <3>1. m * bsize \in Int /\ DIRECT_SIZE \in Int
      BY <1>0, MulOrder, Facts DEF DIRECT_SIZE
    <3> QED  BY <1>2, <3>1
  <2>3. m = NUM_DIRECT_BLOCKS
    BY <1>0, <2>2, Ranges
  <2>4. \A i \in 0 .. NUM_DIRECT_BLOCKS - 1 : AtOf(s, i) # 0 <=> i < m
    BY <1>0, <2>3
  <2> QED  BY <1>1, <2>1, <2>4, CutSelf
<1>3. CASE ~(m * bsize >= DIRECT_SIZE)
  <2>1. PICK addrs : addrs = s.ino.direct
    OBVIOUS
  <2>2. addrs \in [0 .. NUM_DIRECT_BLOCKS - 1 -> Blocks]
    BY <1>0, <2>1 DEF States, Inode
  <2>3. \A i \in 0 .. NUM_DIRECT_BLOCKS - 1 : i \in Places /\ addrs[i] = AtOf(s, i)
    BY <1>0, <2>1, PlacesOf
  <2>4. \A i \in Places : AtOf(s, i) # 0 => AtOf(s, i) \in s.bbm.bits
    BY HeldIs DEF Owns
  <2>5. \A i, j \in Places : AtOf(s, i) # 0 /\ AtOf(s, i) = AtOf(s, j) => i = j
    BY DEF Owns, Sole, AtOf
  <2>6. Distinct(s, addrs, NUM_DIRECT_BLOCKS)
    BY <1>0, <2>2, <2>3, <2>4, <2>5 DEF Distinct
  <2>7. PICK bs : bs = From(addrs, m)
    OBVIOUS
  <2>8. PICK e, N : Lists(s, addrs, NUM_DIRECT_BLOCKS, m, e, bs, N)
    <3>1. m \in 0 .. NUM_DIRECT_BLOCKS
      BY <1>0
    <3> QED  BY <1>0, <2>6, <2>7, <3>1, FromLists
  <2>9. /\ e \in m .. NUM_DIRECT_BLOCKS /\ N = e - m /\ Len(bs) = N
        /\ \A j \in m .. e - 1 : addrs[j] # 0
        /\ e < NUM_DIRECT_BLOCKS => addrs[e] = 0
    BY <2>8 DEF Lists, Ends, Listed
  <2>10. PICK R : R = {addrs[j] : j \in m .. e - 1}
    OBVIOUS
  <2>11. PICK u : u = FreeBlocks(s, bs)
    OBVIOUS
  <2>12. Freed(s, R, u)
    <3>1. Listed(s, bs, N) /\ R = {bs[k] : k \in 1 .. N}
      BY <2>8, <2>10 DEF Lists
    <3> QED  BY <1>0, <2>11, <3>1, FreeBlocksIs
  <2>13. u \in States /\ MapOK(u.bbm, u.used) /\ u.bbm.bits = s.bbm.bits \ R
         /\ u.ino = s.ino /\ u.tab = s.tab /\ u.err = s.err
    BY <2>12 DEF Freed
  <2>14. PICK d : d = [i \in 0 .. NUM_DIRECT_BLOCKS - 1 |->
                         IF i \in m .. e - 1 THEN 0 ELSE addrs[i]]
    OBVIOUS
  <2>15. t = SetDirect(u, d)
    <3>1. (m * bsize) \div bsize = m
      BY UpMultiple
    <3>2. PICK f : f = [i \in DOMAIN u.ino.direct |->
                          IF i \in m .. m + Len(bs) - 1 THEN 0 ELSE u.ino.direct[i]]
      OBVIOUS
    <3>3. ShrinkDirect(s, m * bsize) = SetDirect(u, f)
      BY <1>3, <2>1, <2>7, <2>11, <3>1, <3>2, Zenon DEF ShrinkDirect, SetDirect
    <3>4. f = d
      <4>1. m + Len(bs) - 1 = e - 1
        BY <2>9
      <4>2. u.ino.direct = addrs /\ DOMAIN addrs = 0 .. NUM_DIRECT_BLOCKS - 1
        BY <2>1, <2>2, <2>13
      <4> QED  BY <2>14, <3>2, <4>1, <4>2
    <3> QED  BY <1>1, <3>3, <3>4
  <2>16. d \in [0 .. NUM_DIRECT_BLOCKS - 1 -> Blocks]
    <3>1. 0 \in Blocks
      BY Facts
    <3> QED  BY <2>2, <2>14, <3>1
  <2>17. /\ t \in States /\ MapOK(t.bbm, t.used)
         /\ t.bbm.bits = s.bbm.bits \ R
         /\ t.tab = s.tab
         /\ t.ino.direct = d /\ t.ino.indirect = s.ino.indirect
    BY <2>13, <2>15, <2>16, SetDirectUpdate
  <2>18. t.err = s.err
    <3>1. t.err = u.err
      BY <2>13, <2>15, <2>16, SetDirectUpdate
    <3> QED  BY <2>13, <3>1
  <2>19. ASSUME NEW i \in Places
         PROVE  \/ i \in m .. e - 1 /\ AtOf(t, i) = 0
                \/ i \notin m .. e - 1 /\ AtOf(t, i) = AtOf(s, i)
    <3>1. CASE i = -1
      <4>1. AtOf(t, i) = AtOf(s, i)
        BY <1>0, <2>17, <3>1, PlacesOf
      <4>2. i \notin m .. e - 1
        BY <3>1
      <4> QED  BY <4>1, <4>2
    <3>2. CASE i \in 0 .. NUM_DIRECT_BLOCKS - 1
      <4>1. AtOf(t, i) = d[i] /\ AtOf(s, i) = addrs[i]
        BY <2>3, <2>17, <3>2, PlacesOf
      <4> QED  BY <2>14, <3>2, <4>1
    <3>3. CASE i >= NUM_DIRECT_BLOCKS
      <4>1. AtOf(t, i) = AtOf(s, i)
        <5>1. s.ino \in Inode /\ s.tab \in Tables /\ t.ino \in Inode
          BY <1>0, <2>17 DEF States
        <5> QED  BY <2>17, <3>3, <5>1, AtIs DEF AtOf
      <4>2. i \notin m .. e - 1
        BY <1>0, <2>9, <3>3
      <4> QED  BY <4>1, <4>2
    <3> QED  BY <1>0, <3>1, <3>2, <3>3 DEF Places
  <2>20. HeldOf(t) \subseteq t.bbm.bits
    <3> SUFFICES ASSUME NEW b \in HeldOf(t)  PROVE b \in s.bbm.bits /\ b \notin R
      BY <2>17
    <3>1. PICK i \in Places : b = AtOf(t, i) /\ b # 0
      BY HeldIs
    <3>2. i \notin m .. e - 1 /\ b = AtOf(s, i)
      BY <2>19, <3>1
    <3>3. ASSUME NEW j \in m .. e - 1  PROVE b # addrs[j]
      <4>1. j \in 0 .. NUM_DIRECT_BLOCKS - 1 /\ j # i
        BY <1>0, <2>9, <3>2
      <4> QED  BY <2>3, <2>5, <3>1, <3>2, <4>1
    <3> QED  BY <2>4, <2>10, <3>1, <3>2, <3>3
  <2>21. R \subseteq HeldOf(s)
    <3>1. ASSUME NEW j \in m .. e - 1  PROVE addrs[j] \in HeldOf(s)
      <4>1. j \in 0 .. NUM_DIRECT_BLOCKS - 1 /\ addrs[j] # 0
        BY <1>0, <2>9
      <4> QED  BY <2>3, <4>1, HeldIs
    <3> QED  BY <2>10, <3>1
  <2>22. Cut(s, t)
    BY <2>17, <2>18, <2>19, <2>20, <2>21 DEF Cut
  <2>23. ASSUME NEW i \in 0 .. NUM_DIRECT_BLOCKS - 1  PROVE AtOf(t, i) # 0 <=> i < m
    <3>1. i \in Places /\ (AtOf(s, i) # 0 <=> i < n)
      BY <2>3
    <3>2. CASE i < m
      <4>1. i \notin m .. e - 1 /\ i < n
        BY <1>0, <3>2
      <4> QED  BY <2>19, <3>1, <3>2, <4>1
    <3>3. CASE i \in m .. e - 1
      <4>1. ~(i < m)
        BY <3>3
      <4> QED  BY <2>19, <3>1, <3>3, <4>1
    <3>4. CASE i >= e
      <4>1. e < NUM_DIRECT_BLOCKS /\ e \in 0 .. NUM_DIRECT_BLOCKS - 1
        BY <1>0, <2>9, <3>4
      <4>2. ~(e < n)
        BY <2>3, <2>9, <4>1
      <4>3. ~(i < n) /\ ~(i < m) /\ i \notin m .. e - 1
        BY <2>9, <3>4, <4>2
      <4> QED  BY <2>19, <3>1, <4>3
    <3> QED  BY <2>9, <3>2, <3>3, <3>4
  <2> QED  BY <1>1, <2>17, <2>22, <2>23
<1> QED  BY <1>2, <1>3

(***************************************************************************)
(* A file cut down to a size shrink_dstream gets right has the blocks of   *)
(* that size, where they were, and the others are free.                    *)
(***************************************************************************)
LEMMA ShrinkIs ==
    ASSUME NEW s, Ready(s), NEW z \in Nat, z <= s.ino.size, z % bsize # 1,
           z <= DIRECT_SIZE \/ RoundUp(z) = RoundUp(s.ino.size)
    PROVE  LET t == shrink_dstream(s, z)
           IN  /\ Cut(s, t) /\ t.ino.size = z
               /\ Shape(t.ino, t.tab, Up(z))
<1>0. /\ NUM_DIRECT_BLOCKS \in Nat /\ max_index \in Nat /\ s \in States
      /\ MapOK(s.bbm, s.used) /\ s.ino.size \in Nat /\ Owns(s)
  BY Facts DEF Ready, Owns, States, Inode
<1>1. PICK n \in Nat : n = Up(s.ino.size)
  BY <1>0, UpIs
<1>2. PICK m \in Nat : m = Up(z)
  BY UpIs
<1>3. m <= n /\ n <= NUM_DIRECT_BLOCKS + max_index
  BY <1>0, <1>1, <1>2, UpMono DEF Ready, Shape
<1>4. ShrunkSize(z) = m * bsize
  BY <1>2, ShrunkSizeIs
<1>5. PICK t : t = shrink_dstream(s, z)
  OBVIOUS
<1>6. RoundUp(s.ino.size) = n * bsize /\ RoundUp(z) = m * bsize
  BY <1>0, <1>1, <1>2, UpIs
<1>19. m = n \/ (m <= NUM_DIRECT_BLOCKS /\ m * bsize # RoundUp(s.ino.size))
  <2>1. CASE m * bsize = n * bsize
    BY <2>1, MulOrder, Facts
  <2>2. CASE m * bsize # n * bsize
    <3>1. z <= DIRECT_SIZE
      BY <1>6, <2>2
    <3>2. Up(DIRECT_SIZE) = NUM_DIRECT_BLOCKS /\ DIRECT_SIZE \in Nat
      BY <1>0, UpMultiple DEF DIRECT_SIZE
    <3>3. m <= NUM_DIRECT_BLOCKS
      BY <1>2, <3>1, <3>2, UpMono
    <3> QED  BY <1>6, <2>2, <3>3
  <2> QED  BY <2>1, <2>2
<1>7. PICK w : w = IF m * bsize = RoundUp(s.ino.size) THEN s
                   ELSE ShrinkDirect(ShrinkIndirect(s, m * bsize), m * bsize)
  OBVIOUS
<1>8. t = [w EXCEPT !.ino.size = z]
  BY <1>4, <1>5, <1>7, Zenon DEF shrink_dstream
<1>9. \A i \in 0 .. NUM_DIRECT_BLOCKS - 1 : AtOf(s, i) # 0 <=> i < n
  BY <1>1 DEF Ready, Shape, AtOf
<1>10. NoGap(s)
  BY DEF Ready, Shape, AtOf, NoGap
<1>11. /\ Cut(s, w) /\ NoGap(w)
       /\ \A i \in 0 .. NUM_DIRECT_BLOCKS - 1 : AtOf(w, i) # 0 <=> i < m
  <2>1. CASE m = n
    <3>1. w = s
      BY <1>6, <1>7, <2>1
    <3> QED  BY <1>0, <1>9, <1>10, <2>1, <3>1, CutSelf
  <2>2. CASE m <= NUM_DIRECT_BLOCKS /\ m * bsize # RoundUp(s.ino.size)
    <3>1. PICK v : v = ShrinkIndirect(s, m * bsize)
      OBVIOUS
    <3>2. /\ Cut(s, v) /\ v.ino.direct = s.ino.direct
          /\ v.ino.indirect = s.ino.indirect \/ v.ino.indirect = 0
      BY <1>0, <2>2, <3>1, ShrinkIndirectIs
    <3>3. Owns(v)
      BY <1>0, <3>2, CutOwns
    <3>4. v \in States /\ v.tab = s.tab
      BY <3>2 DEF Cut
    <3>5. \A i \in 0 .. NUM_DIRECT_BLOCKS - 1 : AtOf(v, i) # 0 <=> i < n
      BY <1>0, <1>9, <3>2, <3>4, PlacesOf
    <3>6. w = ShrinkDirect(v, m * bsize)
      BY <1>7, <2>2, <3>1
    <3>7. /\ Cut(v, w) /\ w.ino.indirect = v.ino.indirect
          /\ \A i \in 0 .. NUM_DIRECT_BLOCKS - 1 : AtOf(w, i) # 0 <=> i < m
      BY <1>3, <2>2, <3>3, <3>5, <3>6, ShrinkDirectIs
    <3>8. Cut(s, w)
      BY <1>0, <3>2, <3>7, CutCut
    <3>9. w \in States /\ w.tab = s.tab
      BY <3>8 DEF Cut
    <3>10. NoGap(w)
      <4>1. CASE w.ino.indirect = 0
        <5>1. \A i \in Places : i >= NUM_DIRECT_BLOCKS => AtOf(w, i) = 0
          BY <3>9, <4>1, PlacesOf
        <5>2. \A i, j \in Places : i >= NUM_DIRECT_BLOCKS /\ i < j => j >= NUM_DIRECT_BLOCKS
          BY <1>0 DEF Places
        <5> QED  BY <5>1, <5>2 DEF NoGap
      <4>2. CASE w.ino.indirect = s.ino.indirect
        <5>1. s.ino \in Inode /\ s.tab \in Tables /\ w.ino \in Inode
          BY <1>0, <3>9 DEF States
        <5>2. \A i \in Places : i >= NUM_DIRECT_BLOCKS => AtOf(w, i) = AtOf(s, i)
          BY <3>9, <4>2, <5>1, AtIs DEF AtOf
        <5>3. \A i, j \in Places : i >= NUM_DIRECT_BLOCKS /\ i < j => j >= NUM_DIRECT_BLOCKS
          BY <1>0 DEF Places
        <5> QED  BY <1>10, <5>2, <5>3 DEF NoGap
      <4> QED  BY <3>2, <3>7, <4>1, <4>2
    <3> QED  BY <3>7, <3>8, <3>10
  <2> QED  BY <1>19, <2>1, <2>2
<1>12. w \in States /\ MapOK(w.bbm, w.used)
  BY <1>11 DEF Cut
<1>13. /\ t \in States /\ t.bbm = w.bbm /\ t.used = w.used
       /\ t.tab = w.tab /\ t.ino.size = z
       /\ t.ino.direct = w.ino.direct /\ t.ino.indirect = w.ino.indirect
  BY <1>8, <1>12, SizeUpdate
<1>14. t.err = w.err
  BY <1>8, <1>12, SizeUpdate
<1>15. \A i : AtOf(t, i) = AtOf(w, i)
  BY <1>13 DEF AtOf, At
<1>16. HeldOf(t) = HeldOf(w)
  BY <1>15 DEF HeldOf, Held, AtOf
<1>17. Cut(s, t)
  BY <1>11, <1>13, <1>14, <1>15, <1>16 DEF Cut
<1>18. Shape(t.ino, t.tab, m)
  <2>1. \A i \in 0 .. NUM_DIRECT_BLOCKS - 1 : At(t.ino, t.tab, i) # 0 <=> i < m
    BY <1>11, <1>15 DEF AtOf
  <2>2. \A i, j \in Places :
          i >= NUM_DIRECT_BLOCKS /\ i < j /\ At(t.ino, t.tab, j) # 0
            => At(t.ino, t.tab, i) # 0
    BY <1>11, <1>15 DEF AtOf, NoGap
  <2>3. \A i \in Places : i >= NUM_DIRECT_BLOCKS /\ i < m
          => At(t.ino, t.tab, i) # 0
    <3>1. CASE m = n
      <4>1. w = s
        BY <1>6, <1>7, <3>1
      <4>2. \A i \in Places : At(t.ino, t.tab, i) = At(s.ino, s.tab, i)
        BY <1>15, <4>1 DEF AtOf
      <4> QED  BY <1>1, <3>1, <4>2 DEF Ready, Shape
    <3>2. CASE m <= NUM_DIRECT_BLOCKS
      BY <1>0, <3>2 DEF Places
    <3> QED  BY <1>19, <3>1, <3>2
  <2>4. m <= NUM_DIRECT_BLOCKS + max_index
    BY <1>0, <1>3
  <2> QED  BY <1>0, <2>1, <2>2, <2>3, <2>4 DEF Shape
<1> QED  BY <1>2, <1>5, <1>13, <1>17, <1>18
-----------------------------------------------------------------------------
(***************************************************************************)
(* From one file to all of them.                                           *)
(***************************************************************************)
\* What is said of the places of an inode depends on nothing else.
LEMMA SameAt ==
    ASSUME NEW o, NEW u, NEW p, NEW v, \A i \in Places : At(o, u, i) = At(p, v, i)
    PROVE  /\ \A n : Shape(o, u, n) => Shape(p, v, n)
           /\ Sole(o, u) => Sole(p, v)
           /\ Held(o, u) = Held(p, v)
<1>1. \A i \in 0 .. NUM_DIRECT_BLOCKS - 1 : i \in Places
  BY Facts DEF Places
<1>2. \A n : Shape(o, u, n) => Shape(p, v, n)
  BY <1>1 DEF Shape
<1>3. Sole(o, u) => Sole(p, v)
  BY DEF Sole
<1>4. Held(o, u) = Held(p, v)
  BY DEF Held
<1> QED  BY <1>2, <1>3, <1>4

LEMMA AgreeAt ==
    ASSUME NEW o, NEW u, NEW v, o.indirect # 0 => u[o.indirect] = v[o.indirect]
    PROVE  \A i \in Places : At(o, u, i) = At(o, v, i)
BY DEF At

\* The places of an inode on disk are places of the inode in core.
LEMMA WithinAt ==
    ASSUME NEW disk, NEW core, Within(disk, core), NEW tab
    PROVE  \A i \in Places : At(disk, tab, i) # 0 => At(core, tab, i) = At(disk, tab, i)
<1> SUFFICES ASSUME NEW i \in Places, At(disk, tab, i) # 0
             PROVE  At(core, tab, i) = At(disk, tab, i)
  OBVIOUS
<1>0. NUM_DIRECT_BLOCKS \in Nat /\ max_index \in Nat
  BY Facts
<1>1. CASE i = -1
  BY <1>1 DEF At, Within
<1>2. CASE i \in 0 .. NUM_DIRECT_BLOCKS - 1
  BY <1>0, <1>2 DEF At, Within
<1>3. CASE i >= NUM_DIRECT_BLOCKS
  <2>1. i # -1 /\ ~(i < NUM_DIRECT_BLOCKS)
    BY <1>0, <1>3 DEF Places
  <2> QED  BY <2>1 DEF At, Within
<1> QED  BY <1>0, <1>1, <1>2, <1>3 DEF Places

LEMMA BlankIs ==
    /\ Blank \in Inode /\ Up(Blank.size) = 0
    /\ \A tab : /\ \A i \in Places : At(Blank, tab, i) = 0
                /\ Shape(Blank, tab, 0) /\ Sole(Blank, tab) /\ Held(Blank, tab) = {}
    /\ Within(Blank, Blank)
<1>0. NUM_DIRECT_BLOCKS \in Nat /\ max_index \in Nat /\ 0 \in Blocks
  BY Facts
<1>1. Blank \in Inode /\ Blank.size = 0
  BY <1>0 DEF Blank, Inode
<1>2. Up(0) = 0
  <2>1. 0 \in Nat /\ 0 * bsize = 0
    BY Facts
  <2> QED  BY <2>1, UpMultiple
<1>3. ASSUME NEW tab, NEW i \in Places  PROVE At(Blank, tab, i) = 0
  <2>1. i = -1 \/ i \in 0 .. NUM_DIRECT_BLOCKS - 1 \/ (i # -1 /\ ~(i < NUM_DIRECT_BLOCKS))
    BY <1>0 DEF Places
  <2> QED  BY <2>1 DEF At, Blank
<1>4. ASSUME NEW tab
      PROVE  Shape(Blank, tab, 0) /\ Sole(Blank, tab) /\ Held(Blank, tab) = {}
  <2>1. \A i \in 0 .. NUM_DIRECT_BLOCKS - 1 : i \in Places /\ ~(i < 0)
    BY <1>0 DEF Places
  <2>2. \A i \in Places : ~(i >= NUM_DIRECT_BLOCKS /\ i < 0)
    BY <1>0 DEF Places
  <2>3. Shape(Blank, tab, 0)
    BY <1>0, <1>3, <2>1, <2>2 DEF Shape
  <2> QED  BY <1>3, <2>3 DEF Sole, Held
<1> QED  BY <1>1, <1>2, <1>3, <1>4 DEF Within

(***************************************************************************)
(* What the outcome t of a call on file f, and the inodes it leaves in     *)
(* core and on disk, must satisfy for the others' sake and its own.        *)
(***************************************************************************)
Fits(f, t, core, disk) ==
    /\ t \in States /\ MapOK(t.bbm, t.used) /\ core \in Inode /\ disk \in Inode
    /\ Reserved \subseteq t.bbm.bits
    /\ \A g \in Files : g # f => Held(mi[g], indirects) \subseteq t.bbm.bits
    /\ Shape(core, t.tab, Up(core.size))
    /\ Shape(disk, t.tab, Up(disk.size))
    /\ Within(disk, core)
    /\ Sole(core, t.tab)
    /\ Held(core, t.tab) \subseteq t.bbm.bits
    /\ \A b \in Held(core, t.tab) : b \in Held(mi[f], indirects) \/ b \notin bbm.bits
    /\ \A c \in bbm.bits : c # mi[f].indirect => t.tab[c] = indirects[c]

\* Where the places of the inodes are afterwards.
LEMMA StorePlaces ==
    ASSUME Inv, NEW f \in Files, NEW t, NEW core, NEW disk, Fits(f, t, core, disk),
           Store(f, t, core, disk)
    PROVE  /\ mi' \in [Files -> Inode] /\ ondisk' \in [Files -> Inode]
           /\ indirects' \in Tables
           /\ mi'[f] = core /\ ondisk'[f] = disk
           /\ \A g \in Files : g # f => mi'[g] = mi[g] /\ ondisk'[g] = ondisk[g]
           /\ \A i \in Places : At(core, t.tab, i) = At(core, indirects', i)
           /\ \A i \in Places : At(disk, t.tab, i) = At(disk, indirects', i)
           /\ \A g \in Files : g # f => \A i \in Places :
                /\ At(mi[g], indirects, i) = At(mi[g], indirects', i)
                /\ At(ondisk[g], indirects, i) = At(ondisk[g], indirects', i)
<1>0. /\ mi \in [Files -> Inode] /\ ondisk \in [Files -> Inode]
      /\ indirects \in Tables /\ Disjoint /\ Reserved \subseteq bbm.bits
      /\ \A g \in Files : FileOK(g)
  BY DEF Inv, TypeOK
<1>1. /\ bbm' = t.bbm /\ used_blocks' = t.used
      /\ mi' = [mi EXCEPT ![f] = core] /\ ondisk' = [ondisk EXCEPT ![f] = disk]
      /\ indirects' = Reachable(t.tab)
  BY DEF Store
<1>2. t \in States /\ t.tab \in Tables /\ core \in Inode /\ disk \in Inode
  BY DEF Fits, States
<1>3. /\ mi' \in [Files -> Inode] /\ ondisk' \in [Files -> Inode]
      /\ mi'[f] = core /\ ondisk'[f] = disk
      /\ \A g \in Files : g # f => mi'[g] = mi[g] /\ ondisk'[g] = ondisk[g]
  BY <1>0, <1>1, <1>2
<1>4. PICK tab : tab = indirects'
  OBVIOUS
<1>5. tab \in Tables
  <2>1. NoAddrs \in [0 .. max_index - 1 -> Blocks]
    BY Facts DEF NoAddrs
  <2> QED  BY <1>1, <1>2, <1>4, <2>1 DEF Reachable, Tables
<1>6. ASSUME NEW g \in Files, NEW o, o = mi'[g] \/ o = ondisk'[g]
      PROVE  \A i \in Places : At(o, t.tab, i) = At(o, tab, i)
  <2>1. o.indirect \in Blocks
    BY <1>3, <1>6 DEF Inode
  <2>2. o.indirect # 0 => tab[o.indirect] = t.tab[o.indirect]
    BY <1>1, <1>4, <1>6, <2>1 DEF Reachable
  <2> QED  BY <2>2, AgreeAt
<1>7. ASSUME NEW g \in Files, g # f, NEW o, o = mi[g] \/ o = ondisk[g]
      PROVE  \A i \in Places : At(o, indirects, i) = At(o, tab, i)
  <2>1. CASE o.indirect = 0
    BY <2>1, AgreeAt
  <2>2. CASE o.indirect # 0
    <3>1. o.indirect = mi[g].indirect
      BY <1>0, <1>7, <2>2 DEF FileOK, Within
    <3>2. At(mi[g], indirects, -1) = mi[g].indirect /\ -1 \in Places
      BY Facts DEF At, Places
    <3>3. o.indirect \in Held(mi[g], indirects)
      BY <2>2, <3>1, <3>2 DEF Held
    <3>4. o.indirect \in bbm.bits
      BY <1>0, <3>3 DEF FileOK
    <3>5. o.indirect # mi[f].indirect
      <4>1. At(mi[f], indirects, -1) = mi[f].indirect
        BY DEF At
      <4>2. mi[f].indirect # 0 => mi[f].indirect \in Held(mi[f], indirects)
        BY <3>2, <4>1 DEF Held
      <4> QED  BY <1>0, <1>7, <2>2, <3>3, <4>2 DEF Disjoint
    <3>6. t.tab[o.indirect] = indirects[o.indirect]
      BY <3>4, <3>5 DEF Fits
    <3>7. \A i \in Places : At(o, indirects, i) = At(o, t.tab, i)
      BY <3>6, AgreeAt
    <3>8. \A i \in Places : At(o, t.tab, i) = At(o, tab, i)
      BY <1>3, <1>6, <1>7
    <3> QED  BY <3>7, <3>8
  <2> QED  BY <2>1, <2>2
<1>8. /\ \A i \in Places : At(core, t.tab, i) = At(core, tab, i)
      /\ \A i \in Places : At(disk, t.tab, i) = At(disk, tab, i)
  BY <1>3, <1>6
<1>9. \A g \in Files : g # f => \A i \in Places :
         /\ At(mi[g], indirects, i) = At(mi[g], tab, i)
         /\ At(ondisk[g], indirects, i) = At(ondisk[g], tab, i)
  BY <1>7
<1> QED  BY <1>3, <1>4, <1>5, <1>8, <1>9

LEMMA StoreInv ==
    ASSUME Inv, NEW f \in Files, NEW t, NEW core, NEW disk, Fits(f, t, core, disk),
           Store(f, t, core, disk),
           GoodBV(inode_map', num_inodes), ReservedInodes \subseteq (inode_map').bits,
           dead' \in BOOLEAN
    PROVE  Inv'
<1>0. /\ mi \in [Files -> Inode] /\ ondisk \in [Files -> Inode]
      /\ indirects \in Tables /\ Disjoint /\ Reserved \subseteq bbm.bits
      /\ \A g \in Files : FileOK(g)
  BY DEF Inv, TypeOK
<1>1. /\ bbm' = t.bbm /\ used_blocks' = t.used
      /\ mi' = [mi EXCEPT ![f] = core] /\ ondisk' = [ondisk EXCEPT ![f] = disk]
      /\ indirects' = Reachable(t.tab)
  BY DEF Store
<1>2. t \in States /\ t.tab \in Tables /\ core \in Inode /\ disk \in Inode
  BY DEF Fits, States
<1>3. /\ mi' \in [Files -> Inode] /\ ondisk' \in [Files -> Inode]
      /\ mi'[f] = core /\ ondisk'[f] = disk
      /\ \A g \in Files : g # f => mi'[g] = mi[g] /\ ondisk'[g] = ondisk[g]
  BY StorePlaces
<1>4. PICK tab : tab = indirects'
  OBVIOUS
<1>5. tab \in Tables
  BY <1>4, StorePlaces
<1>6. /\ \A i \in Places : At(core, t.tab, i) = At(core, tab, i)
      /\ \A i \in Places : At(disk, t.tab, i) = At(disk, tab, i)
  BY <1>4, StorePlaces
<1>7. \A g \in Files : g # f => \A i \in Places :
         /\ At(mi[g], indirects, i) = At(mi[g], tab, i)
         /\ At(ondisk[g], indirects, i) = At(ondisk[g], tab, i)
  BY <1>4, StorePlaces
<1>8. ASSUME NEW g \in Files, g # f
      PROVE  /\ Held(mi'[g], tab) = Held(mi[g], indirects)
             /\ Shape(mi'[g], tab, NumBlocksOf(mi'[g]))
             /\ Shape(ondisk'[g], tab, NumBlocksOf(ondisk'[g]))
             /\ Within(ondisk'[g], mi'[g])
             /\ Sole(mi'[g], tab)
             /\ Held(mi'[g], tab) \subseteq (bbm').bits \ Reserved
  <2>1. mi'[g] = mi[g] /\ ondisk'[g] = ondisk[g] /\ FileOK(g)
    BY <1>0, <1>3, <1>8
  <2>2. \A i \in Places : At(mi[g], indirects, i) = At(mi[g], tab, i)
    BY <1>7, <1>8
  <2>3. \A i \in Places : At(ondisk[g], indirects, i) = At(ondisk[g], tab, i)
    BY <1>7, <1>8
  <2>4. /\ Shape(mi[g], indirects, NumBlocksOf(mi[g])) => Shape(mi[g], tab, NumBlocksOf(mi[g]))
        /\ Sole(mi[g], indirects) => Sole(mi[g], tab)
        /\ Held(mi[g], tab) = Held(mi[g], indirects)
    BY <2>2, SameAt
  <2>5. Shape(ondisk[g], indirects, NumBlocksOf(ondisk[g]))
          => Shape(ondisk[g], tab, NumBlocksOf(ondisk[g]))
    BY <2>3, SameAt
  <2>6. Held(mi[g], indirects) \subseteq t.bbm.bits \ Reserved
    BY <1>8, <2>1 DEF FileOK, Fits
  <2> QED  BY <1>1, <2>1, <2>4, <2>5, <2>6 DEF FileOK
<1>9. /\ Held(core, tab) = Held(core, t.tab)
      /\ Shape(core, tab, NumBlocksOf(core))
      /\ Shape(disk, tab, NumBlocksOf(disk))
      /\ Within(disk, core)
      /\ Sole(core, tab)
      /\ Held(core, tab) \subseteq (bbm').bits \ Reserved
  <2>1. core.size \in Nat /\ disk.size \in Nat
    BY <1>2 DEF Inode
  <2>2. NumBlocksOf(core) = Up(core.size) /\ NumBlocksOf(disk) = Up(disk.size)
    BY <2>1, NumBlocksIs
  <2>3. \A i \in Places : At(core, t.tab, i) = At(core, tab, i)
    BY <1>3, <1>6
  <2>4. \A i \in Places : At(disk, t.tab, i) = At(disk, tab, i)
    BY <1>3, <1>6
  <2>5. /\ Shape(core, t.tab, Up(core.size)) => Shape(core, tab, Up(core.size))
        /\ Sole(core, t.tab) => Sole(core, tab)
        /\ Held(core, tab) = Held(core, t.tab)
    BY <2>3, SameAt
  <2>6. Shape(disk, t.tab, Up(disk.size)) => Shape(disk, tab, Up(disk.size))
    BY <2>4, SameAt
  <2>7. Held(core, t.tab) \subseteq t.bbm.bits \ Reserved
    <3>1. Held(mi[f], indirects) \cap Reserved = {}
      BY <1>0 DEF FileOK
    <3> QED  BY <1>0, <3>1 DEF Fits
  <2> QED  BY <1>1, <2>2, <2>5, <2>6, <2>7 DEF Fits
<1>10. \A g \in Files :
         /\ Shape(mi'[g], tab, NumBlocksOf(mi'[g]))
         /\ Shape(ondisk'[g], tab, NumBlocksOf(ondisk'[g]))
         /\ Within(ondisk'[g], mi'[g])
         /\ Sole(mi'[g], tab)
         /\ Held(mi'[g], tab) \subseteq (bbm').bits \ Reserved
  BY <1>3, <1>8, <1>9
<1>11. ASSUME NEW g \in Files, NEW h \in Files, g # h
       PROVE  Held(mi'[g], tab) \cap Held(mi'[h], tab) = {}
  <2>1. ASSUME NEW k \in Files, k # f
        PROVE  Held(mi'[k], tab) \cap Held(mi'[f], tab) = {}
    <3>1. Held(mi'[k], tab) = Held(mi[k], indirects) /\ Held(mi'[f], tab) = Held(core, t.tab)
      BY <1>3, <1>8, <1>9, <2>1
    <3>2. Held(mi[k], indirects) \subseteq bbm.bits
      BY <1>0 DEF FileOK
    <3>3. Held(mi[k], indirects) \cap Held(mi[f], indirects) = {}
      BY <1>0, <2>1 DEF Disjoint
    <3> QED  BY <3>1, <3>2, <3>3 DEF Fits
  <2>2. CASE g = f
    BY <1>11, <2>1, <2>2
  <2>3. CASE h = f
    BY <1>11, <2>1, <2>3
  <2>4. CASE g # f /\ h # f
    <3>1. Held(mi'[g], tab) = Held(mi[g], indirects) /\ Held(mi'[h], tab) = Held(mi[h], indirects)
      BY <1>8, <2>4
    <3> QED  BY <1>0, <1>11, <3>1 DEF Disjoint
  <2> QED  BY <2>2, <2>3, <2>4
<1>12. TypeOK'
  BY <1>3, <1>4, <1>5 DEF TypeOK
<1>13. MapOK(bbm', used_blocks') /\ Reserved \subseteq (bbm').bits
  BY <1>1 DEF Fits
<1>14. \A g \in Files : FileOK(g)'
  BY <1>4, <1>10 DEF FileOK
<1>15. Disjoint'
  BY <1>4, <1>11 DEF Disjoint
<1> QED  BY <1>12, <1>13, <1>14, <1>15 DEF Inv

\* The file a call begins with.
LEMMA ViewIs ==
    ASSUME Inv, NEW f \in Files, NEW v, v = View(f)
    PROVE  /\ v.bbm = bbm /\ v.used = used_blocks /\ v.ino = mi[f] /\ v.tab = indirects
           /\ Ready(v) /\ Owns(v)
<1>1. v.bbm = bbm /\ v.used = used_blocks /\ v.ino = mi[f] /\ v.tab = indirects
  BY DEF View
<1>2. ~v.err
  BY DEF View
<1>3. mi[f] \in Inode /\ indirects \in Tables /\ MapOK(bbm, used_blocks) /\ FileOK(f)
      /\ Reserved \subseteq bbm.bits
  BY DEF Inv, TypeOK
<1>4. bbm \in BVs(num_blocks) /\ bbm.bits \subseteq Blocks
  BY <1>3 DEF MapOK, GoodBV, BVs, Blocks
<1>5. used_blocks \in Int
  <2>1. Cardinality(bbm.bits) \in Nat
    BY <1>4, BlocksFinite
  <2> QED  BY <1>3, <2>1 DEF MapOK
<1>6. v \in States
  BY <1>3, <1>4, <1>5 DEF View, States
<1>7. mi[f].size \in Nat
  BY <1>3 DEF Inode
<1>8. NumBlocksOf(mi[f]) = Up(mi[f].size)
  BY <1>7, NumBlocksIs
<1>9. Shape(v.ino, v.tab, Up(v.ino.size)) /\ Sole(v.ino, v.tab) /\ HeldOf(v) \subseteq v.bbm.bits
  BY <1>1, <1>3, <1>8 DEF FileOK, HeldOf
<1>10. 0 \in v.bbm.bits
  BY <1>1, <1>3, Facts
<1>11. MapOK(v.bbm, v.used)
  BY <1>1, <1>3
<1> QED  BY <1>1, <1>2, <1>6, <1>9, <1>10, <1>11 DEF Ready, Owns

\* The blocks of the other files are not those of f, and stay.
LEMMA OthersKeep ==
    ASSUME Inv, NEW f \in Files, NEW v, v = View(f)
    PROVE  /\ \A g \in Files : g # f =>
                Held(mi[g], indirects) \subseteq v.bbm.bits \ HeldOf(v)
           /\ Reserved \subseteq v.bbm.bits \ HeldOf(v)
<1>1. v.bbm = bbm /\ HeldOf(v) = Held(mi[f], indirects)
  BY ViewIs DEF HeldOf
<1>2. Reserved \subseteq bbm.bits /\ \A g \in Files : FileOK(g)
  BY DEF Inv
<1>3. \A g \in Files : Held(mi[g], indirects) \subseteq bbm.bits \ Reserved
  BY <1>2 DEF FileOK
<1>4. \A g \in Files : g # f => Held(mi[g], indirects) \cap Held(mi[f], indirects) = {}
  BY DEF Inv, Disjoint
<1> QED  BY <1>1, <1>2, <1>3, <1>4

(***************************************************************************)
(* After growing, or a failure on the way, the file fits: with its inode   *)
(* written, or with the old inode still on disk.                           *)
(***************************************************************************)
LEMMA GrownFits ==
    ASSUME Inv, NEW f \in Files, NEW v, v = View(f), NEW t,
           Kept(v, Up(v.ino.size), t), Shape(t.ino, t.tab, Up(t.ino.size)),
           NEW disk, disk = t.ino \/ disk = ondisk[f]
    PROVE  Fits(f, t, t.ino, disk)
<1>0. NUM_DIRECT_BLOCKS \in Nat /\ max_index \in Nat
  BY Facts
<1>1. /\ v.bbm = bbm /\ v.ino = mi[f] /\ v.tab = indirects
      /\ Ready(v) /\ v \in States /\ 0 \in v.bbm.bits
  BY ViewIs DEF Ready
<1>2. PICK n \in Nat : n = Up(v.ino.size)
  <2>1. v.ino.size \in Nat
    BY <1>1 DEF States, Inode
  <2> QED  BY <2>1, UpIs
<1>3. /\ t \in States /\ MapOK(t.bbm, t.used) /\ Sole(t.ino, t.tab)
      /\ HeldOf(t) \subseteq t.bbm.bits /\ bbm.bits \subseteq t.bbm.bits
      /\ \A i \in Places : AtOf(t, i) = AtOf(v, i) \/ AtOf(t, i) \in Blocks \ bbm.bits
      /\ \A i \in Places : i < n /\ AtOf(v, i) # 0 => AtOf(t, i) = AtOf(v, i)
      /\ \A c \in bbm.bits : c # mi[f].indirect => t.tab[c] = indirects[c]
  BY <1>1, <1>2 DEF Kept
<1>4. t.ino \in Inode /\ ondisk[f] \in Inode /\ v.tab \in Tables /\ t.tab \in Tables
  BY <1>1, <1>3 DEF States, Inv, TypeOK
<1>5. ASSUME NEW b \in HeldOf(t)  PROVE b \in HeldOf(v) \/ b \notin bbm.bits
  <2>1. PICK i \in Places : b = AtOf(t, i) /\ b # 0
    BY HeldIs
  <2> QED  BY <1>3, <2>1, HeldIs
<1>6. Reserved \subseteq t.bbm.bits
      /\ \A g \in Files : g # f => Held(mi[g], indirects) \subseteq t.bbm.bits
  BY <1>1, <1>3, OthersKeep
<1>7. /\ Shape(ondisk[f], indirects, Up(ondisk[f].size))
      /\ Within(ondisk[f], mi[f])
  <2>1. ondisk[f].size \in Nat
    BY <1>4 DEF Inode
  <2>2. NumBlocksOf(ondisk[f]) = Up(ondisk[f].size)
    BY <2>1, NumBlocksIs
  <2> QED  BY <2>2 DEF Inv, FileOK
<1>8. \A i \in 0 .. NUM_DIRECT_BLOCKS - 1 : AtOf(v, i) # 0 => i < n
  BY <1>1, <1>2 DEF Ready, Shape, AtOf
<1>9. Within(ondisk[f], t.ino)
  <2>1. ASSUME ondisk[f].indirect # 0  PROVE t.ino.indirect = ondisk[f].indirect
    <3>1. mi[f].indirect = ondisk[f].indirect
      BY <1>7, <2>1 DEF Within
    <3>2. AtOf(v, -1) = mi[f].indirect /\ AtOf(t, -1) = t.ino.indirect /\ -1 \in Places /\ -1 < n
      BY <1>1, <1>2, <1>3, PlacesOf
    <3> QED  BY <1>3, <2>1, <3>1, <3>2
  <2>2. ASSUME NEW i \in 0 .. NUM_DIRECT_BLOCKS - 1, ondisk[f].direct[i] # 0
        PROVE  t.ino.direct[i] = ondisk[f].direct[i]
    <3>1. mi[f].direct[i] = ondisk[f].direct[i]
      BY <1>7, <2>2 DEF Within
    <3>2. AtOf(v, i) = mi[f].direct[i] /\ AtOf(t, i) = t.ino.direct[i] /\ i \in Places
      BY <1>1, <1>3, PlacesOf
    <3>3. i < n
      BY <1>8, <2>2, <3>1, <3>2
    <3> QED  BY <1>3, <2>2, <3>1, <3>2, <3>3
  <2> QED  BY <2>1, <2>2 DEF Within
<1>10. Shape(ondisk[f], t.tab, Up(ondisk[f].size))
  <2>1. CASE ondisk[f].indirect = 0
    <3>1. \A i \in Places : At(ondisk[f], indirects, i) = At(ondisk[f], t.tab, i)
      BY <2>1, AgreeAt
    <3> QED  BY <1>7, <3>1, SameAt
  <2>2. CASE ondisk[f].indirect # 0
    <3>1. PICK o : o = ondisk[f]
      OBVIOUS
    <3>2. o.indirect # 0 /\ o.indirect = v.ino.indirect /\ o.indirect = t.ino.indirect
          /\ o \in Inode
      BY <1>1, <1>4, <1>7, <1>9, <2>2, <3>1 DEF Within
    <3>3. \A i \in Places : i >= NUM_DIRECT_BLOCKS =>
             /\ At(o, indirects, i) = AtOf(v, i)
             /\ At(o, t.tab, i) = AtOf(t, i)
      <4>1. \A i \in Places : i >= NUM_DIRECT_BLOCKS => i # -1 /\ ~(i < NUM_DIRECT_BLOCKS)
        BY <1>0 DEF Places
      <4> QED  BY <1>1, <3>2, <4>1 DEF At, AtOf
    <3>4. \A i \in 0 .. NUM_DIRECT_BLOCKS - 1 : At(o, indirects, i) = At(o, t.tab, i)
      BY <1>1, <1>4, <3>2, AtIs
    <3>5. \A i \in Places : AtOf(v, i) # 0 => AtOf(t, i) # 0
      BY <1>1, <1>3
    <3>6. \A i, j \in Places :
             i >= NUM_DIRECT_BLOCKS /\ i < j /\ AtOf(t, j) # 0 => AtOf(t, i) # 0
      BY DEF Shape, AtOf
    <3>7. PICK m : m = Up(o.size)
      OBVIOUS
    <3>8. Shape(o, indirects, m)
      BY <1>7, <3>1, <3>7
    <3>9. \A i \in 0 .. NUM_DIRECT_BLOCKS - 1 : At(o, t.tab, i) # 0 <=> i < m
      BY <3>4, <3>8 DEF Shape
    <3>10. \A i \in Places : i >= NUM_DIRECT_BLOCKS /\ i < m => At(o, t.tab, i) # 0
      BY <3>3, <3>5, <3>8 DEF Shape
    <3>11. \A i, j \in Places :
             i >= NUM_DIRECT_BLOCKS /\ i < j /\ At(o, t.tab, j) # 0 => At(o, t.tab, i) # 0
      <4>1. \A i, j \in Places : i >= NUM_DIRECT_BLOCKS /\ i < j => j >= NUM_DIRECT_BLOCKS
        BY <1>0 DEF Places
      <4> QED  BY <3>3, <3>6, <4>1
    <3>12. m <= NUM_DIRECT_BLOCKS + max_index
      BY <3>8 DEF Shape
    <3> QED  BY <3>1, <3>7, <3>9, <3>10, <3>11, <3>12 DEF Shape
  <2> QED  BY <2>1, <2>2
<1>11. Within(t.ino, t.ino)
  BY DEF Within
<1>12. \A b \in Held(t.ino, t.tab) : b \in Held(mi[f], indirects) \/ b \notin bbm.bits
  BY <1>1, <1>5 DEF HeldOf
<1>13. Held(t.ino, t.tab) \subseteq t.bbm.bits
  BY <1>3 DEF HeldOf
<1>14. disk \in Inode /\ Shape(disk, t.tab, Up(disk.size)) /\ Within(disk, t.ino)
  BY <1>4, <1>9, <1>10, <1>11
<1> QED  BY <1>3, <1>4, <1>6, <1>12, <1>13, <1>14 DEF Fits

\* After shrinking, and after removing what is left.
LEMMA CutFits ==
    ASSUME Inv, NEW f \in Files, NEW v, v = View(f), NEW t, Cut(v, t)
    PROVE  /\ Shape(t.ino, t.tab, Up(t.ino.size)) => Fits(f, t, t.ino, t.ino)
           /\ Fits(f, t, Blank, Blank)
<1>1. /\ v.bbm = bbm /\ v.ino = mi[f] /\ v.tab = indirects /\ Owns(v)
  BY ViewIs
<1>2. Owns(t) /\ HeldOf(t) \subseteq HeldOf(v)
  BY <1>1, CutOwns
<1>3. /\ t \in States /\ MapOK(t.bbm, t.used) /\ t.tab = indirects
      /\ bbm.bits \ HeldOf(v) \subseteq t.bbm.bits
      /\ HeldOf(t) \subseteq t.bbm.bits
  BY <1>1 DEF Cut
<1>4. t.ino \in Inode
  BY <1>3 DEF States
<1>5. Reserved \subseteq t.bbm.bits
      /\ \A g \in Files : g # f => Held(mi[g], indirects) \subseteq t.bbm.bits
  BY <1>1, <1>3, OthersKeep
<1>6. \A c \in bbm.bits : c # mi[f].indirect => t.tab[c] = indirects[c]
  BY <1>3
<1>7. ASSUME Shape(t.ino, t.tab, Up(t.ino.size))  PROVE Fits(f, t, t.ino, t.ino)
  <2>1. Sole(t.ino, t.tab) /\ Within(t.ino, t.ino)
    BY <1>2 DEF Owns, Within
  <2>2. \A b \in Held(t.ino, t.tab) : b \in Held(mi[f], indirects)
    BY <1>1, <1>2 DEF HeldOf
  <2>3. Held(t.ino, t.tab) \subseteq t.bbm.bits
    BY <1>3 DEF HeldOf
  <2> QED  BY <1>3, <1>4, <1>5, <1>6, <1>7, <2>1, <2>2, <2>3 DEF Fits
<1>8. Fits(f, t, Blank, Blank)
  BY <1>3, <1>5, <1>6, BlankIs DEF Fits
<1> QED  BY <1>7, <1>8

\* The inode read again from the disk.
LEMMA ReloadFits ==
    ASSUME Inv, NEW f \in Files, NEW v, v = View(f)
    PROVE  Fits(f, v, ondisk[f], ondisk[f])
<1>1. /\ v.bbm = bbm /\ v.ino = mi[f] /\ v.tab = indirects /\ Owns(v) /\ Ready(v)
  BY ViewIs
<1>2. PICK o : o = ondisk[f]
  OBVIOUS
<1>3. o \in Inode /\ FileOK(f)
  BY <1>2 DEF Inv, TypeOK
<1>4. o.size \in Nat
  BY <1>3 DEF Inode
<1>5. NumBlocksOf(o) = Up(o.size)
  BY <1>4, NumBlocksIs
<1>6. Shape(o, indirects, Up(o.size)) /\ Within(o, mi[f])
  BY <1>2, <1>3, <1>5 DEF FileOK
<1>7. \A i \in Places : At(o, indirects, i) # 0 => At(mi[f], indirects, i) = At(o, indirects, i)
  BY <1>6, WithinAt
<1>8. Sole(o, indirects)
  BY <1>3, <1>7 DEF FileOK, Sole
<1>9. Held(o, indirects) \subseteq Held(mi[f], indirects)
  BY <1>7 DEF Held
<1>10. Within(o, o)
  BY DEF Within
<1>11. Held(mi[f], indirects) \subseteq bbm.bits
  BY <1>3 DEF FileOK
<1>12. Reserved \subseteq v.bbm.bits
       /\ \A g \in Files : g # f => Held(mi[g], indirects) \subseteq v.bbm.bits
  BY OthersKeep
<1>13. v \in States /\ MapOK(v.bbm, v.used)
  BY <1>1 DEF Ready
<1> QED  BY <1>1, <1>2, <1>3, <1>6, <1>8, <1>9, <1>10, <1>11, <1>12, <1>13 DEF Fits
-----------------------------------------------------------------------------
(***************************************************************************)
(* The calls.                                                              *)
(***************************************************************************)
\* A call left file f as it was or longer, or cut it down.
Longer(v, t) == Kept(v, Up(v.ino.size), t) /\ Shape(t.ino, t.tab, Up(t.ino.size))

Shorter(v, t) ==
    /\ Cut(v, t) /\ ~t.err /\ Shape(t.ino, t.tab, Up(t.ino.size))
    /\ t.ino.size \in Nat

LEMMA WriteIs ==
    ASSUME Inv, NEW f \in Files, NEW end \in WriteEnds, Write(f, end)
    PROVE  /\ \E t : Longer(View(f), t) /\ UpdateInode(f, t)
           /\ inode_map' = inode_map /\ dead' = dead
<1>1. PICK v : v = View(f)
  OBVIOUS
<1>2. v.ino = mi[f] /\ Ready(v)
  BY <1>1, ViewIs
<1>3. v.ino.size \in Nat /\ end \in Nat
  BY <1>2, Facts DEF Ready, States, Inode
<1>4. PICK t : t = IF end > mi[f].size THEN grow_dstream(v, end) ELSE v
  OBVIOUS
<1>5. UpdateInode(f, t) /\ inode_map' = inode_map /\ dead' = dead
  BY <1>1, <1>4 DEF Write
<1>6. CASE end > mi[f].size
  <2>1. t = grow_dstream(v, end) /\ end >= v.ino.size
    BY <1>2, <1>3, <1>4, <1>6
  <2>2. Longer(v, t)
    BY <1>2, <1>3, <2>1, GrowIs DEF Longer
  <2> QED  BY <1>1, <1>5, <2>2
<1>7. CASE ~(end > mi[f].size)
  <2>1. t = v
    BY <1>4, <1>7
  <2>2. Longer(v, t)
    BY <1>2, <2>1, ReadyKept DEF Longer, Ready
  <2> QED  BY <1>1, <1>5, <2>2
<1> QED  BY <1>6, <1>7

LEMMA SetFileSizeIs ==
    ASSUME Inv, ~miscut', NEW f \in Files, NEW z \in Sizes, SetFileSize(f, z)
    PROVE  /\ \E t : (Longer(View(f), t) \/ Shorter(View(f), t)) /\ UpdateInode(f, t)
           /\ inode_map' = inode_map /\ dead' = dead
<1>1. PICK v : v = View(f)
  OBVIOUS
<1>2. v.ino = mi[f] /\ Ready(v) /\ ~v.err
  BY <1>1, ViewIs DEF Ready
<1>3. v.ino.size \in Nat /\ z \in Nat
  BY <1>2, Facts DEF Ready, States, Inode
<1>4. PICK t : t = IF z < mi[f].size THEN shrink_dstream(v, z) ELSE grow_dstream(v, z)
  OBVIOUS
<1>5. UpdateInode(f, t) /\ inode_map' = inode_map /\ dead' = dead
  BY <1>1, <1>4 DEF SetFileSize
<1>6. CASE z < mi[f].size
  <2>1. t = shrink_dstream(v, z) /\ z <= v.ino.size
    BY <1>2, <1>3, <1>4, <1>6
  <2>2. z % bsize # 1 /\ (z <= DIRECT_SIZE \/ RoundUp(z) = RoundUp(v.ino.size))
    <3>1. ~Miscut(mi[f].size, z)
      BY DEF SetFileSize
    <3>2. z % bsize # 1 /\ ~(z > DIRECT_SIZE /\ RoundUp(z) # RoundUp(mi[f].size))
      BY <1>6, <3>1 DEF Miscut
    <3>3. DIRECT_SIZE \in Nat
      BY Facts, UpMultiple DEF DIRECT_SIZE
    <3> QED  BY <1>2, <1>3, <3>2, <3>3
  <2>3. Cut(v, t) /\ t.ino.size = z /\ Shape(t.ino, t.tab, Up(z))
    BY <1>2, <1>3, <2>1, <2>2, ShrinkIs
  <2>4. ~t.err
    BY <1>2, <2>3 DEF Cut
  <2>5. Shorter(v, t)
    BY <1>3, <2>3, <2>4 DEF Shorter
  <2> QED  BY <1>1, <1>5, <2>5
<1>7. CASE ~(z < mi[f].size)
  <2>1. t = grow_dstream(v, z) /\ z >= v.ino.size
    BY <1>2, <1>3, <1>4, <1>7
  <2>2. Longer(v, t)
    BY <1>2, <1>3, <2>1, GrowIs DEF Longer
  <2> QED  BY <1>1, <1>5, <2>2
<1> QED  BY <1>6, <1>7

\* The inodes a call leaves fit, and it stores them.
LEMMA UpdateFits ==
    ASSUME Inv, NEW f \in Files, NEW t, Longer(View(f), t) \/ Shorter(View(f), t),
           UpdateInode(f, t)
    PROVE  \E disk : Fits(f, t, t.ino, disk) /\ Store(f, t, t.ino, disk)
<1>1. PICK disk : disk = IF t.err THEN ondisk[f] ELSE t.ino
  OBVIOUS
<1>2. Store(f, t, t.ino, disk)
  BY <1>1 DEF UpdateInode
<1>3. CASE Longer(View(f), t)
  <2>1. disk = t.ino \/ disk = ondisk[f]
    BY <1>1
  <2>2. Fits(f, t, t.ino, disk)
    BY <1>3, <2>1, GrownFits DEF Longer
  <2> QED  BY <1>2, <2>2
<1>4. CASE Shorter(View(f), t)
  <2>1. disk = t.ino
    BY <1>1, <1>4 DEF Shorter
  <2>2. Fits(f, t, t.ino, t.ino)
    BY <1>4, CutFits DEF Shorter
  <2> QED  BY <1>2, <2>1, <2>2
<1> QED  BY <1>3, <1>4

LEMMA RemoveIs ==
    ASSUME Inv, NEW f \in Files, Remove(f)
    PROVE  /\ \E t : Fits(f, t, Blank, Blank) /\ Store(f, t, Blank, Blank)
           /\ GoodBV(inode_map', num_inodes) /\ (inode_map').bits = inode_map.bits \ {f}
           /\ dead' = dead
<1>1. PICK v : v = View(f)
  OBVIOUS
<1>2. v.ino = mi[f] /\ Ready(v)
  BY <1>1, ViewIs
<1>3. v.ino.size \in Nat
  BY <1>2 DEF Ready, States, Inode
<1>4. PICK t : t = shrink_dstream(v, 0)
  OBVIOUS
<1>5. Store(f, t, Blank, Blank) /\ inode_map' = UnSetBV(inode_map, f) /\ dead' = dead
  BY <1>1, <1>4 DEF Remove
<1>6. 0 <= v.ino.size /\ 0 % bsize # 1 /\ 0 <= DIRECT_SIZE
  <2>1. bsize \in Nat \ {0} /\ 0 * bsize <= 0 /\ 0 < (0 + 1) * bsize
    BY Facts
  <2>2. 0 \div bsize = 0
    BY <2>1, DivIs
  <2>3. 0 % bsize = 0
    BY <2>1, <2>2, ModIs
  <2>4. 0 <= DIRECT_SIZE
    <3>1. NUM_DIRECT_BLOCKS * bsize \in Nat
      BY Facts, UpMultiple
    <3> QED  BY <3>1 DEF DIRECT_SIZE
  <2> QED  BY <1>3, <2>3, <2>4
<1>7. Cut(v, t)
  BY <1>2, <1>4, <1>6, ShrinkIs
<1>8. Fits(f, t, Blank, Blank)
  BY <1>1, <1>7, CutFits
<1>9. num_inodes \in Nat \ {0} /\ f \in 0 .. num_inodes - 1 /\ GoodBV(inode_map, num_inodes)
  BY Facts DEF Inv, TypeOK, Files, Inodes
<1>10. GoodBV(inode_map', num_inodes) /\ (inode_map').bits = inode_map.bits \ {f}
  BY <1>5, <1>9, UnSetIs
<1> QED  BY <1>5, <1>8, <1>10

\* GetFreeRangeOfBits on the inode map, whose flag UnSetBV does not clear.
GotSome(bv, n, r) ==
    /\ GoodBV(r.bv, n)
    /\ \/ r.start = -1 /\ r.bv.bits = bv.bits
       \/ r.start \in Free(bv) /\ r.bv.bits = bv.bits \cup {r.start}

LEMMA GetSome ==
    ASSUME NEW n \in Nat \ {0}, NEW bv, GoodBV(bv, n)
    PROVE  GotSome(bv, n, GetFreeRangeOfBits(bv, 1))
<1>1. PICK r : r = GetFreeRangeOfBits(bv, 1)
  OBVIOUS
<1>2. CASE bv.is_full
  <2>1. r = [start |-> -1, bv |-> bv]
    BY <1>1, <1>2 DEF GetFreeRangeOfBits
  <2>2. r.start = -1 /\ r.bv = bv
    BY <2>1
  <2> QED  BY <1>1, <2>2 DEF GotSome
<1>3. CASE ~bv.is_full
  <2>1. FullOK(bv, n)
    BY <1>3 DEF FullOK
  <2> QED  BY <2>1, GetOne DEF GotOne, GotSome
<1> QED  BY <1>2, <1>3

LEMMA CreateIs ==
    ASSUME Inv, Create
    PROVE  \E f \in Files :
              /\ f \notin inode_map.bits
              /\ (inode_map').bits = inode_map.bits \cup {f}
              /\ GoodBV(inode_map', num_inodes)
              /\ mi' = [mi EXCEPT ![f] = Blank] /\ ondisk' = [ondisk EXCEPT ![f] = Blank]
              /\ bbm' = bbm /\ used_blocks' = used_blocks /\ indirects' = indirects
              /\ dead' = dead
<1>1. PICK r : r = GetFreeRangeOfBits(inode_map, 1)
  OBVIOUS
<1>2. /\ r.start # -1 /\ inode_map' = r.bv
      /\ mi' = [mi EXCEPT ![r.start] = Blank] /\ ondisk' = [ondisk EXCEPT ![r.start] = Blank]
      /\ bbm' = bbm /\ used_blocks' = used_blocks /\ indirects' = indirects
      /\ dead' = dead
  BY <1>1 DEF Create
<1>3. GoodBV(inode_map, num_inodes) /\ ReservedInodes \subseteq inode_map.bits
  BY DEF Inv, TypeOK
<1>4. GotSome(inode_map, num_inodes, r)
  BY <1>1, <1>3, GetSome, Facts
<1>5. r.start \in Free(inode_map) /\ GoodBV(r.bv, num_inodes)
      /\ r.bv.bits = inode_map.bits \cup {r.start}
  BY <1>2, <1>4 DEF GotSome
<1>6. r.start \in Files /\ r.start \notin inode_map.bits
  BY <1>3, <1>5 DEF Free, Positions, Files, Inodes, GoodBV, BVs
<1> QED  BY <1>2, <1>5, <1>6

LEMMA CreateInv ==
    ASSUME Inv, Create
    PROVE  Inv'
<1>1. PICK f \in Files :
         /\ (inode_map').bits = inode_map.bits \cup {f}
         /\ GoodBV(inode_map', num_inodes)
         /\ mi' = [mi EXCEPT ![f] = Blank] /\ ondisk' = [ondisk EXCEPT ![f] = Blank]
         /\ bbm' = bbm /\ used_blocks' = used_blocks /\ indirects' = indirects
         /\ dead' = dead
  BY CreateIs
<1>2. /\ mi \in [Files -> Inode] /\ ondisk \in [Files -> Inode]
      /\ indirects \in Tables /\ Disjoint /\ Reserved \subseteq bbm.bits
      /\ ReservedInodes \subseteq inode_map.bits /\ dead \in BOOLEAN
      /\ MapOK(bbm, used_blocks)
      /\ \A g \in Files : FileOK(g)
  BY DEF Inv, TypeOK
<1>3. /\ mi' \in [Files -> Inode] /\ ondisk' \in [Files -> Inode]
      /\ mi'[f] = Blank /\ ondisk'[f] = Blank
      /\ \A g \in Files : g # f => mi'[g] = mi[g] /\ ondisk'[g] = ondisk[g]
  BY <1>1, <1>2, BlankIs
<1>4. TypeOK'
  BY <1>1, <1>2, <1>3 DEF TypeOK
<1>5. MapOK(bbm', used_blocks') /\ Reserved \subseteq (bbm').bits
  BY <1>1, <1>2
<1>6. ASSUME NEW g \in Files  PROVE FileOK(g)'
  <2>1. CASE g # f
    BY <1>1, <1>2, <1>3, <2>1 DEF FileOK
  <2>2. CASE g = f
    <3>1. NumBlocksOf(Blank) = 0
      <4>1. Blank.size \in Nat
        BY BlankIs DEF Inode
      <4> QED  BY <4>1, BlankIs, NumBlocksIs
    <3> QED  BY <1>1, <1>3, <2>2, <3>1, BlankIs DEF FileOK
  <2> QED  BY <2>1, <2>2
<1>7. Disjoint'
  <2>1. ASSUME NEW g \in Files, NEW h \in Files, g # h
        PROVE  Held(mi'[g], indirects') \cap Held(mi'[h], indirects') = {}
    <3>1. CASE g = f \/ h = f
      <4>1. Held(mi'[f], indirects') = {}
        BY <1>3, BlankIs
      <4> QED  BY <3>1, <4>1
    <3>2. CASE g # f /\ h # f
      BY <1>1, <1>2, <1>3, <2>1, <3>2 DEF Disjoint
    <3> QED  BY <3>1, <3>2
  <2> QED  BY <2>1 DEF Disjoint
<1> QED  BY <1>4, <1>5, <1>6, <1>7 DEF Inv
-----------------------------------------------------------------------------
(***************************************************************************)
(* The invariant.                                                          *)
(***************************************************************************)
LEMMA NewIs ==
    ASSUME NEW n \in Nat \ {0}, NEW S, S \subseteq 0 .. n - 1
    PROVE  GoodBV(NewBV(n, S), n) /\ FullOK(NewBV(n, S), n) /\ NewBV(n, S).bits = S
<1>1. PICK w : w = NewBV(n, S)
  OBVIOUS
<1>2. w = [numbits |-> n, bits |-> S, next_free |-> 0, is_full |-> FALSE]
  BY <1>1 DEF NewBV
<1>3. S \in SUBSET (0 .. n - 1)
  OBVIOUS
<1>4. w \in BVs(n)
  BY <1>2, <1>3 DEF BVs
<1>5. w.bits = S /\ w.next_free = 0 /\ w.numbits = n
  BY <1>2
<1>6. ~w.is_full
  BY <1>2
<1>7. Total(w) \in Nat /\ n <= Total(w)
  BY <1>4, TotalIs
<1>8. GoodBV(w, n)
  BY <1>4, <1>5, <1>7 DEF GoodBV
<1>9. FullOK(w, n)
  BY <1>6 DEF FullOK
<1> QED  BY <1>1, <1>5, <1>8, <1>9

LEMMA InitInv == Init => Inv
<1> SUFFICES ASSUME Init  PROVE Inv
  OBVIOUS
<1>1. /\ bbm = NewBV(num_blocks, Reserved) /\ used_blocks = Cardinality(Reserved)
      /\ inode_map = NewBV(num_inodes, ReservedInodes)
      /\ mi = [f \in Files |-> Blank] /\ ondisk = [f \in Files |-> Blank]
      /\ indirects = [b \in Blocks |-> NoAddrs] /\ dead = FALSE
  BY DEF Init
<1>2. GoodBV(bbm, num_blocks) /\ FullOK(bbm, num_blocks) /\ bbm.bits = Reserved
  BY <1>1, NewIs, Facts DEF Blocks
<1>3. GoodBV(inode_map, num_inodes) /\ inode_map.bits = ReservedInodes
  BY <1>1, NewIs, Facts DEF Inodes
<1>4. MapOK(bbm, used_blocks)
  BY <1>1, <1>2 DEF MapOK
<1>5. indirects \in Tables
  <2>1. NoAddrs \in [0 .. max_index - 1 -> Blocks]
    BY Facts DEF NoAddrs
  <2> QED  BY <1>1, <2>1 DEF Tables
<1>6. \A f \in Files : mi[f] = Blank /\ ondisk[f] = Blank
  BY <1>1
<1>7. TypeOK
  BY <1>1, <1>3, <1>5, BlankIs DEF TypeOK
<1>8. NumBlocksOf(Blank) = 0
  <2>1. Blank.size \in Nat
    BY BlankIs DEF Inode
  <2> QED  BY <2>1, BlankIs, NumBlocksIs
<1>9. \A f \in Files : FileOK(f)
  BY <1>6, <1>8, BlankIs DEF FileOK
<1>10. Disjoint
  BY <1>6, BlankIs DEF Disjoint
<1> QED  BY <1>2, <1>4, <1>7, <1>9, <1>10 DEF Inv

LEMMA NextInv ==
    ASSUME Inv, [Next]_vars, ~miscut'
    PROVE  Inv'
<1>0. /\ GoodBV(inode_map, num_inodes) /\ ReservedInodes \subseteq inode_map.bits
      /\ dead \in BOOLEAN
  BY DEF Inv, TypeOK
<1>1. CASE Create
  BY <1>1, CreateInv
<1>2. CASE CreateDies
  <2>1. PICK r : r = GetFreeRangeOfBits(inode_map, 1)
    OBVIOUS
  <2>2. /\ r.start = -1 /\ inode_map' = r.bv /\ dead' = TRUE
        /\ bbm' = bbm /\ used_blocks' = used_blocks /\ mi' = mi
        /\ ondisk' = ondisk /\ indirects' = indirects
    BY <1>2, <2>1 DEF CreateDies
  <2>3. GotSome(inode_map, num_inodes, r)
    BY <1>0, <2>1, GetSome, Facts
  <2>4. GoodBV(inode_map', num_inodes) /\ (inode_map').bits = inode_map.bits
    <3>1. -1 \notin Free(inode_map)
      BY <1>0 DEF Free, Positions, GoodBV, BVs
    <3> QED  BY <2>2, <2>3, <3>1 DEF GotSome
  <2>5. TypeOK'
    BY <1>0, <2>2, <2>4 DEF Inv, TypeOK
  <2>6. (\A f \in Files : FileOK(f))' /\ Disjoint'
    BY <2>2 DEF Inv, FileOK, Disjoint
  <2> QED  BY <2>2, <2>5, <2>6 DEF Inv
<1>3. ASSUME NEW f \in Files, Remove(f)  PROVE Inv'
  <2>1. PICK t : Fits(f, t, Blank, Blank) /\ Store(f, t, Blank, Blank)
    BY <1>3, RemoveIs
  <2>2. GoodBV(inode_map', num_inodes) /\ (inode_map').bits = inode_map.bits \ {f}
        /\ dead' = dead
    BY <1>3, RemoveIs
  <2>3. ReservedInodes \subseteq (inode_map').bits
    BY <1>0, <2>2 DEF Files
  <2> QED  BY <1>0, <2>1, <2>2, <2>3, StoreInv
<1>4. ASSUME NEW f \in Files, Reload(f)  PROVE Inv'
  <2>1. Store(f, View(f), ondisk[f], ondisk[f]) /\ inode_map' = inode_map /\ dead' = dead
    BY <1>4 DEF Reload
  <2>2. Fits(f, View(f), ondisk[f], ondisk[f])
    BY ReloadFits
  <2> QED  BY <1>0, <2>1, <2>2, StoreInv
<1>5. ASSUME NEW f \in Files, NEW n \in WriteEnds, Write(f, n)  PROVE Inv'
  <2>1. PICK t : Longer(View(f), t) /\ UpdateInode(f, t)
    BY <1>5, WriteIs
  <2>2. PICK disk : Fits(f, t, t.ino, disk) /\ Store(f, t, t.ino, disk)
    BY <2>1, UpdateFits
  <2>3. inode_map' = inode_map /\ dead' = dead
    BY <1>5, WriteIs
  <2> QED  BY <1>0, <2>2, <2>3, StoreInv
<1>6. ASSUME NEW f \in Files, NEW n \in Sizes, SetFileSize(f, n)  PROVE Inv'
  <2>1. PICK t : (Longer(View(f), t) \/ Shorter(View(f), t)) /\ UpdateInode(f, t)
    BY <1>6, SetFileSizeIs
  <2>2. PICK disk : Fits(f, t, t.ino, disk) /\ Store(f, t, t.ino, disk)
    BY <2>1, UpdateFits
  <2>3. inode_map' = inode_map /\ dead' = dead
    BY <1>6, SetFileSizeIs
  <2> QED  BY <1>0, <2>2, <2>3, StoreInv
<1>7. CASE UNCHANGED vars
  <2>1. /\ bbm' = bbm /\ used_blocks' = used_blocks /\ inode_map' = inode_map /\ mi' = mi
        /\ ondisk' = ondisk /\ indirects' = indirects /\ dead' = dead
    BY <1>7 DEF vars
  <2>2. TypeOK' /\ (\A f \in Files : FileOK(f))' /\ Disjoint'
    BY <2>1 DEF Inv, TypeOK, FileOK, Disjoint
  <2> QED  BY <2>1, <2>2 DEF Inv
<1> QED  BY <1>1, <1>2, <1>3, <1>4, <1>5, <1>6, <1>7 DEF Next

\* The flag is never taken back.
LEMMA MiscutStays ==
    ASSUME [Next]_vars, miscut
    PROVE  miscut'
BY DEF Next, Create, CreateDies, Remove, Reload, Write, SetFileSize, vars

(***************************************************************************)
(* Whatever is written, cut, removed and read again, and wherever the disk *)
(* fills up: each file has the blocks of its size, its own, set in the     *)
(* map, in core and on disk, until a file is cut to a size that            *)
(* shrink_dstream gets wrong.                                              *)
(***************************************************************************)
THEOREM StreamInvariant == Spec => [](~miscut => Inv)
<1>1. Init => (~miscut => Inv)
  BY InitInv
<1>2. (~miscut => Inv) /\ [Next]_vars => (~miscut => Inv)'
  BY NextInv, MiscutStays
<1> QED  BY <1>1, <1>2, PTL DEF Spec

\* The blocks of the size of an inode, as file_pos_to_disk_addr finds them.
LEMMA AddrAt ==
    ASSUME NEW o \in Inode, NEW tab, NEW n, n = NumBlocksOf(o), Shape(o, tab, n),
           NEW i \in 0 .. n - 1
    PROVE  /\ i \in Places /\ At(o, tab, i) # 0
           /\ (IF i < NUM_DIRECT_BLOCKS THEN o.direct[i]
               ELSE tab[o.indirect][i - NUM_DIRECT_BLOCKS]) = At(o, tab, i)
<1>0. NUM_DIRECT_BLOCKS \in Nat /\ max_index \in Nat /\ n \in Nat
  <2>1. o.size \in Nat
    BY DEF Inode
  <2> QED  BY <2>1, NumBlocksIs, Facts
<1>1. n <= NUM_DIRECT_BLOCKS + max_index
  BY DEF Shape
<1>2. i \in Places /\ i # -1
  BY <1>0, <1>1 DEF Places
<1>3. At(o, tab, i) # 0
  <2>1. CASE i < NUM_DIRECT_BLOCKS
    <3>1. i \in 0 .. NUM_DIRECT_BLOCKS - 1 /\ i < n
      BY <1>0, <2>1
    <3> QED  BY <3>1 DEF Shape
  <2>2. CASE i >= NUM_DIRECT_BLOCKS
    <3>1. i < n
      BY <1>0
    <3> QED  BY <1>2, <2>2, <3>1 DEF Shape
  <2> QED  BY <1>0, <2>1, <2>2
<1> QED  BY <1>2, <1>3 DEF At

LEMMA UsesAt ==
    ASSUME Inv, NEW f \in Files, NEW u \in Uses(f)
    PROVE  /\ u = <<f, u[2]>> /\ u[1] = f /\ u[2] \in Places
           /\ BlockOf(u) = At(mi[f], indirects, u[2])
           /\ BlockOf(u) # 0 /\ BlockOf(u) \in Held(mi[f], indirects)
<1>1. mi[f] \in Inode /\ Shape(mi[f], indirects, NumBlocksOf(mi[f]))
  BY DEF Inv, TypeOK, FileOK
<1>2. CASE mi[f].indirect # 0 /\ u = <<f, -1>>
  <2>1. u[1] = f /\ u[2] = -1 /\ -1 \in Places
    BY <1>2, Facts DEF Places
  <2>2. BlockOf(u) = mi[f].indirect /\ At(mi[f], indirects, -1) = mi[f].indirect
    BY <2>1 DEF BlockOf, At
  <2> QED  BY <1>2, <2>1, <2>2 DEF Held
<1>3. CASE \E i \in 0 .. NumBlocksOf(mi[f]) - 1 : u = <<f, i>>
  <2>1. PICK i \in 0 .. NumBlocksOf(mi[f]) - 1 : u = <<f, i>>
    BY <1>3
  <2>2. /\ i \in Places /\ At(mi[f], indirects, i) # 0
        /\ AddrOf(mi[f], i) = At(mi[f], indirects, i)
    BY <1>1, AddrAt DEF AddrOf
  <2>3. u[1] = f /\ u[2] = i /\ i # -1
    BY <2>1
  <2>4. BlockOf(u) = At(mi[f], indirects, i)
    BY <2>2, <2>3 DEF BlockOf
  <2> QED  BY <2>1, <2>2, <2>3, <2>4 DEF Held
<1> QED  BY <1>2, <1>3 DEF Uses

(***************************************************************************)
(* No disk block serves two purposes, unless a file was cut to a size that *)
(* shrink_dstream gets wrong.                                              *)
(***************************************************************************)
THEOREM StreamNoSharedBlock == Spec => []NoSharedBlock
<1>1. (~miscut => Inv) => NoSharedBlock
  <2> SUFFICES ASSUME Inv  PROVE OneUsePerBlock
    BY DEF NoSharedBlock
  <2>1. ASSUME NEW u \in AllUses, NEW w \in AllUses, BlockOf(u) = BlockOf(w)  PROVE u = w
    <3>1. PICK f \in Files : u \in Uses(f)
      BY DEF AllUses
    <3>2. PICK g \in Files : w \in Uses(g)
      BY DEF AllUses
    <3>3. /\ u = <<f, u[2]>> /\ u[2] \in Places
          /\ BlockOf(u) = At(mi[f], indirects, u[2])
          /\ BlockOf(u) # 0 /\ BlockOf(u) \in Held(mi[f], indirects)
      BY <3>1, UsesAt
    <3>4. /\ w = <<g, w[2]>> /\ w[2] \in Places
          /\ BlockOf(w) = At(mi[g], indirects, w[2])
          /\ BlockOf(w) \in Held(mi[g], indirects)
      BY <3>2, UsesAt
    <3>5. f = g
      BY <2>1, <3>3, <3>4 DEF Inv, Disjoint
    <3>6. u[2] = w[2]
      BY <2>1, <3>3, <3>4, <3>5 DEF Inv, FileOK, Sole
    <3> QED  BY <3>3, <3>4, <3>5, <3>6
  <2>2. ASSUME NEW u \in AllUses  PROVE BlockOf(u) \notin Reserved
    <3>1. PICK f \in Files : u \in Uses(f)
      BY DEF AllUses
    <3>2. BlockOf(u) \in Held(mi[f], indirects)
      BY <3>1, UsesAt
    <3> QED  BY <3>2 DEF Inv, FileOK
  <2> QED  BY <2>1, <2>2 DEF OneUsePerBlock
<1> QED  BY <1>1, StreamInvariant, PTL

(***************************************************************************)
(* The block map has the blocks of the files and its count is right,       *)
(* unless a file was cut to a size that shrink_dstream gets wrong.         *)
(***************************************************************************)
THEOREM StreamMapCovers == Spec => []MapCovers
<1>1. (~miscut => Inv) => MapCovers
  <2> SUFFICES ASSUME ~miscut, Inv  PROVE MapCovers
    BY DEF MapCovers
  <2>1. ASSUME NEW u \in AllUses  PROVE BlockOf(u) \in bbm.bits
    <3>1. PICK f \in Files : u \in Uses(f)
      BY DEF AllUses
    <3>2. BlockOf(u) \in Held(mi[f], indirects)
      BY <3>1, UsesAt
    <3> QED  BY <3>2 DEF Inv, FileOK
  <2> QED  BY <2>1 DEF MapCovers, Inv, MapOK
<1> QED  BY <1>1, StreamInvariant, PTL

\* One byte past a boundary the rounding of shrink_dstream is a block short.
LEMMA ShrunkSizeNear ==
    ASSUME NEW n \in Nat
    PROVE  \E m \in Nat : /\ ShrunkSize(n) = m * bsize
                          /\ m = Up(n) \/ (n % bsize = 1 /\ m = Up(n) - 1)
<1>1. CASE n % bsize # 1
  BY <1>1, ShrunkSizeIs, UpIs
<1>2. CASE n % bsize = 1
  <2>1. PICK q : q = n \div bsize
    OBVIOUS
  <2>2. bsize \in Nat \ {0} /\ bsize \in Nat \ {0, 1} /\ q \in Nat
    BY <2>1, DivBounds, Facts
  <2>3. n = q * bsize + 1 /\ q * bsize \in Int
    BY <1>2, <2>1, <2>2, ModIs, MulOrder
  <2>4. (q + 1) * bsize = q * bsize + bsize /\ q + 1 \in Nat /\ q + 1 - 1 = q
    BY <2>2, MulOrder
  <2>5. (n - 1 + bsize - 1) \div bsize = q
    <3>1. n - 1 + bsize - 1 \in Int /\ q * bsize <= n - 1 + bsize - 1
          /\ n - 1 + bsize - 1 < (q + 1) * bsize
      BY <2>2, <2>3, <2>4
    <3> QED  BY <2>2, <3>1, DivIs
  <2>6. Up(n) = q + 1
    <3>1. PICK r \in Nat : r = q + 1
      BY <2>4
    <3>2. r - 1 = q /\ r * bsize = q * bsize + bsize
      <4>1. r - 1 = q
        BY <2>2, <3>1
      <4>2. r * bsize = q * bsize + bsize
        BY <2>4, <3>1, Zenon
      <4> QED  BY <4>1, <4>2
    <3>3. n <= r * bsize
      <4>1. PICK p \in Int : p = q * bsize
        BY <2>3
      <4>2. n = p + 1 /\ r * bsize = p + bsize
        BY <2>3, <3>2, <4>1
      <4>3. p + 1 <= p + bsize
        BY <2>2
      <4> QED  BY <4>2, <4>3
    <3>4. (r - 1) * bsize < n
      BY <2>3, <3>2
    <3> QED  BY <3>1, <3>3, <3>4, UpAt
  <2>7. ShrunkSize(n) = q * bsize /\ q = Up(n) - 1
    BY <2>2, <2>5, <2>6 DEF ShrunkSize
  <2> QED  BY <1>2, <2>2, <2>7
<1> QED  BY <1>1, <1>2

\* Freeing blocks of the indirect range, from index k on, leaves the inode.
LEMMA IndirectFreed ==
    ASSUME NEW s, Owns(s), s.ino.indirect # 0, NEW k \in 0 .. max_index
    PROVE  \E R : Freed(s, R, FreeBlocks(s, From(s.tab[s.ino.indirect], k)))
<1>0. /\ NUM_DIRECT_BLOCKS \in Nat /\ max_index \in Nat /\ s \in States
      /\ MapOK(s.bbm, s.used)
  BY Facts DEF Owns
<1>1. PICK addrs : addrs = s.tab[s.ino.indirect]
  OBVIOUS
<1>2. addrs \in [0 .. max_index - 1 -> Blocks]
  BY <1>0, <1>1 DEF States, Tables, Inode
<1>3. \A j \in 0 .. max_index - 1 :
         /\ NUM_DIRECT_BLOCKS + j \in Places
         /\ addrs[j] = AtOf(s, NUM_DIRECT_BLOCKS + j)
  BY <1>0, <1>1, PlacesOf
<1>4. \A i \in Places : AtOf(s, i) # 0 => AtOf(s, i) \in s.bbm.bits
  BY HeldIs DEF Owns
<1>5. \A i, j \in Places : AtOf(s, i) # 0 /\ AtOf(s, i) = AtOf(s, j) => i = j
  BY DEF Owns, Sole, AtOf
<1>6. \A j \in 0 .. max_index - 1 : addrs[j] # 0 => addrs[j] \in s.bbm.bits
  BY <1>3, <1>4
<1>7. ASSUME NEW i \in 0 .. max_index - 1, NEW j \in 0 .. max_index - 1,
             addrs[i] # 0, addrs[i] = addrs[j]
      PROVE  i = j
  <2>1. NUM_DIRECT_BLOCKS + i = NUM_DIRECT_BLOCKS + j
    BY <1>3, <1>5, <1>7
  <2> QED  BY <1>0, <2>1
<1>8. Distinct(s, addrs, max_index)
  BY <1>0, <1>2, <1>6, <1>7 DEF Distinct
<1>9. PICK bs : bs = From(addrs, k)
  OBVIOUS
<1>10. PICK e, N : Lists(s, addrs, max_index, k, e, bs, N)
  BY <1>0, <1>8, <1>9, FromLists
<1>11. Listed(s, bs, N)
  BY <1>10 DEF Lists
<1>12. Freed(s, {bs[j] : j \in 1 .. N}, FreeBlocks(s, bs))
  BY <1>0, <1>11, FreeBlocksIs
<1> QED  BY <1>1, <1>9, <1>12

(***************************************************************************)
(* A cut to whatever size leaves the blocks below the rounded size.        *)
(***************************************************************************)
LEMMA ShrinkKeeps ==
    ASSUME NEW s, Ready(s), NEW z \in Nat, z <= s.ino.size, NEW m \in Nat,
           ShrunkSize(z) = m * bsize, m <= Up(z), NEW t, t = shrink_dstream(s, z)
    PROVE  /\ t \in States /\ ~t.err /\ t.tab = s.tab /\ t.ino.size = z
           /\ \A i \in Places : i >= 0 /\ i < m => AtOf(t, i) # 0
<1>0. /\ NUM_DIRECT_BLOCKS \in Nat /\ max_index \in Nat /\ s \in States
      /\ MapOK(s.bbm, s.used) /\ s.ino.size \in Nat /\ Owns(s) /\ ~s.err
  BY Facts DEF Ready, Owns, States, Inode
<1>1. PICK n \in Nat : n = Up(s.ino.size)
  BY <1>0, UpIs
<1>2. m <= n /\ n <= NUM_DIRECT_BLOCKS + max_index
  BY <1>0, <1>1, UpIs, UpMono DEF Ready, Shape
<1>3. \A i \in 0 .. NUM_DIRECT_BLOCKS - 1 : AtOf(s, i) # 0 <=> i < n
  BY <1>1 DEF Ready, Shape, AtOf
<1>4. \A i \in Places : i >= 0 /\ i < n => AtOf(s, i) # 0
  <2>1. \A i \in Places : i >= 0 => i \in 0 .. NUM_DIRECT_BLOCKS - 1 \/ i >= NUM_DIRECT_BLOCKS
    BY <1>0 DEF Places
  <2> QED  BY <1>1, <1>3, <2>1 DEF Ready, Shape, AtOf
<1>5. PICK w : w = IF m * bsize = RoundUp(s.ino.size) THEN s
                   ELSE ShrinkDirect(ShrinkIndirect(s, m * bsize), m * bsize)
  OBVIOUS
<1>6. t = [w EXCEPT !.ino.size = z]
  BY <1>5, Zenon DEF shrink_dstream
<1>7. /\ w \in States /\ ~w.err /\ w.tab = s.tab
      /\ \A i \in Places : i >= 0 /\ i < m => AtOf(w, i) # 0
  <2>1. CASE m * bsize = RoundUp(s.ino.size)
    <3>1. w = s
      BY <1>5, <2>1
    <3>2. \A i \in Places : i < m => i < n
      BY <1>2 DEF Places
    <3> QED  BY <1>0, <1>4, <3>1, <3>2
  <2>2. CASE m * bsize # RoundUp(s.ino.size) /\ m <= NUM_DIRECT_BLOCKS
    <3>1. PICK v : v = ShrinkIndirect(s, m * bsize)
      OBVIOUS
    <3>2. /\ Cut(s, v) /\ v.ino.direct = s.ino.direct
      BY <1>0, <2>2, <3>1, ShrinkIndirectIs
    <3>3. Owns(v)
      BY <1>0, <3>2, CutOwns
    <3>4. v \in States /\ v.tab = s.tab
      BY <3>2 DEF Cut
    <3>5. \A i \in 0 .. NUM_DIRECT_BLOCKS - 1 : AtOf(v, i) # 0 <=> i < n
      BY <1>0, <1>3, <3>2, <3>4, PlacesOf
    <3>6. w = ShrinkDirect(v, m * bsize)
      BY <1>5, <2>2, <3>1
    <3>7. Cut(v, w) /\ \A i \in 0 .. NUM_DIRECT_BLOCKS - 1 : AtOf(w, i) # 0 <=> i < m
      BY <1>2, <2>2, <3>3, <3>5, <3>6, ShrinkDirectIs
    <3>8. Cut(s, w)
      BY <1>0, <3>2, <3>7, CutCut
    <3>9. w \in States /\ w.tab = s.tab /\ w.err = s.err
      BY <3>8 DEF Cut
    <3>10. \A i \in Places : i >= 0 /\ i < m => i \in 0 .. NUM_DIRECT_BLOCKS - 1
      BY <1>0, <2>2 DEF Places
    <3> QED  BY <1>0, <3>7, <3>9, <3>10
  <2>3. CASE m * bsize # RoundUp(s.ino.size) /\ m > NUM_DIRECT_BLOCKS
    <3>1. PICK v : v = ShrinkIndirect(s, m * bsize)
      OBVIOUS
    <3>2. ~(m * bsize < DIRECT_SIZE) /\ (m * bsize - DIRECT_SIZE) \div bsize = m - NUM_DIRECT_BLOCKS
      BY <1>0, <2>3, Ranges
    <3>3. m * bsize \in Int /\ DIRECT_SIZE \in Int /\ m * bsize > DIRECT_SIZE
      BY <1>0, <2>3, MulOrder, Facts DEF DIRECT_SIZE
    <3>4. w = v
      BY <1>5, <2>3, <3>1, <3>3 DEF ShrinkDirect
    <3>5. v \in States /\ v.ino = s.ino /\ v.tab = s.tab /\ v.err = s.err
      <4>1. CASE m * bsize >= MAX_INDIRECT_RANGE \/ s.ino.indirect = 0
        BY <1>0, <3>1, <4>1 DEF ShrinkIndirect
      <4>2. CASE ~(m * bsize >= MAX_INDIRECT_RANGE \/ s.ino.indirect = 0)
        <5>1. PICK k : k = m - NUM_DIRECT_BLOCKS
          OBVIOUS
        <5>2. k \in 0 .. max_index /\ k # 0
          BY <1>0, <1>2, <2>3, <5>1
        <5>3. v = FreeBlocks(s, From(s.tab[s.ino.indirect], k))
          BY <3>1, <3>2, <3>3, <4>2, <5>1, <5>2, Zenon DEF ShrinkIndirect
        <5>4. PICK R : Freed(s, R, v)
          BY <1>0, <4>2, <5>2, <5>3, IndirectFreed
        <5> QED  BY <5>4 DEF Freed
      <4> QED  BY <4>1, <4>2
    <3>6. \A i : AtOf(w, i) = AtOf(s, i)
      BY <3>4, <3>5 DEF AtOf
    <3>7. \A i \in Places : i < m => i < n
      BY <1>2 DEF Places
    <3> QED  BY <1>0, <1>4, <3>4, <3>5, <3>6, <3>7
  <2> QED  BY <1>0, <2>1, <2>2, <2>3
<1>8. w \in States
  BY <1>7
<1>9. /\ t \in States /\ t.tab = w.tab /\ t.ino.size = z
      /\ t.ino.direct = w.ino.direct /\ t.ino.indirect = w.ino.indirect
  BY <1>6, <1>8, SizeUpdate
<1>10. t.err = w.err
  BY <1>6, <1>8, SizeUpdate
<1>11. \A i : AtOf(t, i) = AtOf(w, i)
  BY <1>9 DEF AtOf, At
<1> QED  BY <1>7, <1>9, <1>10, <1>11

\* The place of a block that is there, as file_pos_to_disk_addr finds it.
LEMMA PlaceAddr ==
    ASSUME NEW o, NEW tab, NEW i \in Places, i >= 0, At(o, tab, i) # 0
    PROVE  (IF i < NUM_DIRECT_BLOCKS THEN o.direct[i]
            ELSE tab[o.indirect][i - NUM_DIRECT_BLOCKS]) # 0
BY DEF At, Places

(***************************************************************************)
(* The first cut that shrink_dstream gets wrong: of the file that is cut   *)
(* at most the last block is missing, of the others none.                  *)
(***************************************************************************)
LEMMA MiscutMaps ==
    ASSUME Inv, NEW f \in Files, NEW z \in Sizes, SetFileSize(f, z), ~miscut, miscut',
           NEW g \in Files, NEW i \in 0 .. NumBlocksOf(mi'[g]) - 1
    PROVE  \/ AddrOf(mi[g], i)' # 0
           \/ LastByteCut(g) /\ i = NumBlocksOf(mi'[g]) - 1
<1>0. /\ mi \in [Files -> Inode] /\ ondisk \in [Files -> Inode] /\ indirects \in Tables
      /\ \A h \in Files : FileOK(h) /\ NUM_DIRECT_BLOCKS \in Nat /\ max_index \in Nat
  BY Facts DEF Inv, TypeOK
<1>1. PICK v : v = View(f)
  OBVIOUS
<1>2. v.ino = mi[f] /\ v.tab = indirects /\ Ready(v)
  BY <1>1, ViewIs
<1>3. mi[f].size \in Nat /\ z \in Nat
  BY <1>0, Facts DEF Inode
<1>4. Miscut(mi[f].size, z)
  BY DEF SetFileSize
<1>5. z < mi[f].size
  BY <1>4 DEF Miscut
<1>6. PICK t : t = shrink_dstream(v, z)
  OBVIOUS
<1>7. UpdateInode(f, t)
  BY <1>1, <1>5, <1>6 DEF SetFileSize
<1>8. PICK m \in Nat : /\ ShrunkSize(z) = m * bsize
                       /\ m = Up(z) \/ (z % bsize = 1 /\ m = Up(z) - 1)
  BY <1>3, ShrunkSizeNear
<1>9. /\ t \in States /\ ~t.err /\ t.tab = indirects /\ t.ino.size = z
      /\ \A j \in Places : j >= 0 /\ j < m => AtOf(t, j) # 0
  <2>1. z <= v.ino.size /\ m <= Up(z)
    BY <1>2, <1>3, <1>5, <1>8, UpIs
  <2> QED  BY <1>2, <1>3, <1>6, <1>8, <2>1, ShrinkKeeps
<1>10. t.ino \in Inode
  BY <1>9 DEF States
<1>11. /\ mi' = [mi EXCEPT ![f] = t.ino] /\ indirects' = Reachable(indirects)
  BY <1>7, <1>9 DEF UpdateInode, Store
<1>12. PICK o, tab : o = mi'[g] /\ tab = indirects'
  OBVIOUS
<1>13. o \in Inode /\ (g = f => o = t.ino) /\ (g # f => o = mi[g])
  BY <1>0, <1>10, <1>11, <1>12
<1>14. o.indirect # 0 => indirects[o.indirect] = tab[o.indirect]
  BY <1>11, <1>12, <1>13 DEF Reachable, Inode
<1>15. \A j \in Places : At(o, indirects, j) = At(o, tab, j)
  BY <1>14, AgreeAt
<1>16. NumBlocksOf(o) = Up(o.size) /\ NumBlocksOf(o) \in Nat /\ i \in 0 .. NumBlocksOf(o) - 1
  BY <1>12, <1>13, NumBlocksIs DEF Inode
<1>17. AddrOf(mi[g], i)' = IF i < NUM_DIRECT_BLOCKS THEN o.direct[i]
                           ELSE tab[o.indirect][i - NUM_DIRECT_BLOCKS]
  BY <1>12 DEF AddrOf
<1>18. CASE g # f
  <2>1. Shape(o, indirects, NumBlocksOf(o))
    BY <1>0, <1>13, <1>18 DEF FileOK
  <2>2. i \in Places /\ At(o, indirects, i) # 0
    BY <1>13, <1>16, <2>1, AddrAt
  <2>3. At(o, tab, i) # 0 /\ i >= 0
    BY <1>15, <1>16, <2>2
  <2> QED  BY <1>17, <2>2, <2>3, PlaceAddr
<1>19. CASE g = f
  <2>1. o = t.ino /\ NumBlocksOf(o) = Up(z)
    BY <1>9, <1>13, <1>16, <1>19
  <2>2. CASE i < m
    <3>1. Up(z) <= NUM_DIRECT_BLOCKS + max_index
      <4>1. Up(z) <= Up(mi[f].size) /\ Up(z) \in Nat /\ Up(mi[f].size) \in Nat
        BY <1>3, <1>5, UpMono, UpIs
      <4>2. Up(mi[f].size) <= NUM_DIRECT_BLOCKS + max_index
        BY <1>2 DEF Ready, Shape
      <4> QED  BY <1>0, <4>1, <4>2
    <3>2. i \in Places /\ i >= 0
      BY <1>0, <1>16, <2>1, <3>1 DEF Places
    <3>3. At(o, indirects, i) # 0
      BY <1>9, <2>1, <2>2, <3>2 DEF AtOf
    <3>4. At(o, tab, i) # 0
      BY <1>15, <3>2, <3>3
    <3> QED  BY <1>17, <3>2, <3>4, PlaceAddr
  <2>3. CASE ~(i < m)
    <3>1. z % bsize = 1 /\ i = NumBlocksOf(o) - 1
      BY <1>8, <1>16, <2>1, <2>3
    <3>2. LastByteCut(g)
      BY <1>5, <1>9, <1>12, <1>19, <2>1, <3>1 DEF LastByteCut
    <3> QED  BY <1>12, <3>1, <3>2
  <2> QED  BY <2>2, <2>3
<1> QED  BY <1>18, <1>19

(***************************************************************************)
(* Every byte below the size of a file has a block, up to and with the     *)
(* first cut that shrink_dstream gets wrong, which costs at most the block *)
(* of the last byte.                                                       *)
(***************************************************************************)
THEOREM StreamEveryByteMapped == Spec => EveryByteMapped
<1> DEFINE Mapped == ~miscut => \A f \in Files :
              \A i \in 0 .. NumBlocksOf(mi'[f]) - 1 :
                  AddrOf(mi[f], i)' = 0 => LastByteCut(f) /\ i = NumBlocksOf(mi'[f]) - 1
<1>1. (~miscut => Inv) /\ [Next]_vars => [Mapped]_vars
  <2> SUFFICES ASSUME Inv, Next, ~miscut, NEW f \in Files,
                      NEW i \in 0 .. NumBlocksOf(mi'[f]) - 1
               PROVE  \/ AddrOf(mi[f], i)' # 0
                      \/ LastByteCut(f) /\ i = NumBlocksOf(mi'[f]) - 1
    OBVIOUS
  <2>1. CASE ~miscut'
    <3>1. Inv'
      BY <2>1, NextInv
    <3>2. mi'[f] \in Inode /\ Shape(mi'[f], indirects', NumBlocksOf(mi'[f]))
      BY <3>1 DEF Inv, TypeOK, FileOK
    <3>3. At(mi'[f], indirects', i) # 0 /\ AddrOf(mi[f], i)' = At(mi'[f], indirects', i)
      BY <3>2, AddrAt DEF AddrOf
    <3> QED  BY <3>3
  <2>2. CASE miscut'
    <3>1. PICK g \in Files, z \in Sizes : SetFileSize(g, z)
      BY <2>2 DEF Next, Create, CreateDies, Remove, Reload, Write
    <3> QED  BY <2>2, <3>1, MiscutMaps
  <2> QED  BY <2>1, <2>2
<1> QED  BY <1>1, StreamInvariant, PTL DEF Spec, EveryByteMapped

(***************************************************************************)
(* The assertion of grow_dstream never fails, unless a file was cut to a   *)
(* size that shrink_dstream gets wrong.                                    *)
(***************************************************************************)
THEOREM StreamGrowNeverDies == Spec => []GrowNeverDies
<1>1. (~miscut => Inv) => GrowNeverDies
  <2> SUFFICES ASSUME Inv, NEW f \in Files, NEW n \in WriteEnds \cup Sizes,
                      GrowDies(mi[f], n)
               PROVE  FALSE
    BY DEF GrowNeverDies
  <2>1. mi[f] \in Inode /\ indirects \in Tables
        /\ Shape(mi[f], indirects, NumBlocksOf(mi[f]))
    BY DEF Inv, TypeOK, FileOK
  <2>2. PICK k \in Nat : k = NumBlocksOf(mi[f]) /\ k = Up(mi[f].size)
    <3>1. mi[f].size \in Nat
      BY <2>1 DEF Inode
    <3> QED  BY <3>1, NumBlocksIs
  <2>3. RoundUp(mi[f].size) = k * bsize
    <3>1. mi[f].size \in Nat
      BY <2>1 DEF Inode
    <3> QED  BY <2>2, <3>1, UpIs
  <2>4. k * bsize < DIRECT_SIZE /\ mi[f].direct[(k * bsize) \div bsize] # 0
    BY <2>3 DEF GrowDies
  <2>5. k < NUM_DIRECT_BLOCKS /\ (k * bsize) \div bsize = k
    BY <2>4, Ranges, UpMultiple
  <2>6. k \in 0 .. NUM_DIRECT_BLOCKS - 1 /\ ~(k < k)
    BY <2>5, Facts
  <2>7. At(mi[f], indirects, k) = mi[f].direct[k]
    BY <2>1, <2>6, AtIs
  <2>8. At(mi[f], indirects, k) = 0
    BY <2>1, <2>2, <2>6 DEF Shape
  <2> QED  BY <2>4, <2>5, <2>7, <2>8
<1> QED  BY <1>1, StreamInvariant, PTL

(***************************************************************************)
(* In a map of whole chunks the search of GetFreeRangeOfBits finds a free  *)
(* block whenever there is one, and gives out no block that is not free,   *)
(* as long as no file was cut to a size that shrink_dstream gets wrong.    *)
(***************************************************************************)
THEOREM StreamSearchFinds ==
    Spec => [](num_blocks % BITS_IN_CHUNK = 0 /\ ~miscut => SearchFinds)
<1>1. ASSUME num_blocks % BITS_IN_CHUNK = 0  PROVE Inv => SearchFinds
  <2> SUFFICES ASSUME Inv  PROVE SearchFinds
    OBVIOUS
  <2>1. GoodBV(bbm, num_blocks) /\ FullOK(bbm, num_blocks)
    BY DEF Inv, MapOK
  <2>2. PICK r : r = GetFreeRangeOfBits(bbm, 1)
    OBVIOUS
  <2>3. GotOne(bbm, num_blocks, r)
    BY <2>1, <2>2, GetOne, Facts
  <2>4. Positions(bbm) = Blocks
    BY <2>1 DEF Positions, Blocks, GoodBV, BVs
  <2>5. r.start = -1 \/ r.start \in Free(bbm)
    BY <2>3 DEF GotOne
  <2>6. r.start = -1 => bbm.bits = Blocks
    BY <1>1, <2>3 DEF GotOne, Blocks
  <2>7. r.start \in Free(bbm) => r.start \in FreeRanges(bbm, 1) /\ bbm.bits # Blocks
    <3> SUFFICES ASSUME r.start \in Free(bbm)
                 PROVE  r.start \in FreeRanges(bbm, 1) /\ bbm.bits # Blocks
      OBVIOUS
    <3>1. r.start \in Blocks /\ r.start \in Int /\ r.start \notin bbm.bits
      BY <2>4, Facts DEF Free, Blocks
    <3>2. r.start .. r.start + 1 - 1 = {r.start}
      BY <3>1
    <3> QED  BY <2>4, <3>1, <3>2 DEF FreeRanges
  <2> QED  BY <2>2, <2>5, <2>6, <2>7 DEF SearchFinds
<1>2. (~miscut => Inv) => (num_blocks % BITS_IN_CHUNK = 0 /\ ~miscut => SearchFinds)
  BY <1>1
<1> QED  BY <1>2, StreamInvariant, PTL

\* A block inside a file before and after a call.
LEMMA MinIs ==
    ASSUME NEW a \in Nat, NEW b \in Nat, NEW i \in 0 .. Min({a, b}) - 1
    PROVE  i \in 0 .. a - 1 /\ i \in 0 .. b - 1
<1>1. \E x \in {a, b} : \A y \in {a, b} : x =< y
  OBVIOUS
<1>2. PICK m : m = Min({a, b})
  OBVIOUS
<1>3. m \in {a, b} /\ \A y \in {a, b} : m =< y
  BY <1>1, <1>2 DEF Min
<1> QED  BY <1>2, <1>3

\* The places of file f inside its sizes before and after are the same.
SamePlaces(f) == \A i \in Places :
    i >= 0 /\ i < NumBlocksOf(mi[f]) /\ i < NumBlocksOf(mi'[f])
      => At(mi'[f], indirects', i) = At(mi[f], indirects, i)

LEMMA OthersStay ==
    ASSUME Inv, NEW f \in Files, NEW t, NEW core, NEW disk, Fits(f, t, core, disk),
           Store(f, t, core, disk), NEW g \in Files, g # f
    PROVE  SamePlaces(g)
BY StorePlaces DEF SamePlaces

LEMMA UpdateStays ==
    ASSUME Inv, NEW f \in Files, NEW t, Longer(View(f), t) \/ Shorter(View(f), t),
           UpdateInode(f, t)
    PROVE  \A g \in Files : SamePlaces(g)
<1>1. PICK disk : Fits(f, t, t.ino, disk) /\ Store(f, t, t.ino, disk)
  BY UpdateFits
<1>2. \A g \in Files : g # f => SamePlaces(g)
  BY <1>1, OthersStay
<1>3. PICK v : v = View(f)
  OBVIOUS
<1>4. v.ino = mi[f] /\ v.tab = indirects /\ Ready(v) /\ mi[f].size \in Nat
  BY <1>3, ViewIs DEF Ready, States, Inode
<1>5. mi'[f] = t.ino /\ \A i \in Places : AtOf(t, i) = At(t.ino, indirects', i)
  BY <1>1, StorePlaces DEF AtOf
<1>6. ASSUME NEW i \in Places, i >= 0, i < NumBlocksOf(mi[f]), i < NumBlocksOf(t.ino)
      PROVE  AtOf(t, i) = AtOf(v, i)
  <2>0. NUM_DIRECT_BLOCKS \in Nat /\ max_index \in Nat
    BY Facts
  <2>1. NumBlocksOf(mi[f]) = Up(v.ino.size)
    BY <1>4, NumBlocksIs
  <2>2. i \in 0 .. NUM_DIRECT_BLOCKS - 1 \/ i >= NUM_DIRECT_BLOCKS
    BY <1>6, <2>0 DEF Places
  <2>3. CASE Longer(v, t)
    <3>1. AtOf(v, i) # 0
      BY <1>4, <1>6, <2>1, <2>2 DEF Ready, Shape, AtOf
    <3> QED  BY <1>6, <2>1, <2>3, <3>1 DEF Longer, Kept
  <2>4. CASE Shorter(v, t)
    <3>1. NumBlocksOf(t.ino) = Up(t.ino.size)
      BY <2>4, NumBlocksIs DEF Shorter
    <3>2. AtOf(t, i) # 0
      BY <1>6, <2>2, <2>4, <3>1 DEF Shorter, Shape, AtOf
    <3> QED  BY <2>4, <3>2 DEF Shorter, Cut
  <2> QED  BY <1>3, <2>3, <2>4
<1>7. SamePlaces(f)
  BY <1>4, <1>5, <1>6 DEF SamePlaces, AtOf
<1> QED  BY <1>2, <1>7

LEMMA NextStays ==
    ASSUME Inv, Next, ~miscut', NEW g \in Files, Live(g), Live(g)'
    PROVE  SamePlaces(g)
<1>1. CASE Create
  <2>1. PICK f \in Files :
           /\ f \notin inode_map.bits
           /\ mi' = [mi EXCEPT ![f] = Blank] /\ indirects' = indirects
    BY <1>1, CreateIs
  <2>2. g # f
    BY <2>1 DEF Live
  <2>3. mi'[g] = mi[g]
    BY <2>1, <2>2 DEF Inv, TypeOK
  <2> QED  BY <2>1, <2>3 DEF SamePlaces
<1>2. CASE CreateDies
  BY <1>2 DEF CreateDies, SamePlaces
<1>3. ASSUME NEW f \in Files, Remove(f)  PROVE SamePlaces(g)
  <2>1. PICK t : Fits(f, t, Blank, Blank) /\ Store(f, t, Blank, Blank)
    BY <1>3, RemoveIs
  <2>2. (inode_map').bits = inode_map.bits \ {f}
    BY <1>3, RemoveIs
  <2>3. g # f
    BY <2>2 DEF Live
  <2> QED  BY <2>1, <2>3, OthersStay
<1>4. ASSUME NEW f \in Files, Reload(f)  PROVE SamePlaces(g)
  <2>1. Store(f, View(f), ondisk[f], ondisk[f])
    BY <1>4 DEF Reload
  <2>2. Fits(f, View(f), ondisk[f], ondisk[f])
    BY ReloadFits
  <2>3. CASE g # f
    BY <2>1, <2>2, <2>3, OthersStay
  <2>4. CASE g = f
    <3>1. mi'[f] = ondisk[f]
      BY <2>1, <2>2, StorePlaces
    <3>2. \A i \in Places :
             At(ondisk[f], View(f).tab, i) = At(ondisk[f], indirects', i)
      BY <2>1, <2>2, StorePlaces
    <3>3. View(f).tab = indirects
      BY ViewIs
    <3>4. /\ Within(ondisk[f], mi[f]) /\ Shape(ondisk[f], indirects, NumBlocksOf(ondisk[f]))
      BY DEF Inv, FileOK
    <3>5. \A i \in Places : At(ondisk[f], indirects, i) # 0 =>
             At(mi[f], indirects, i) = At(ondisk[f], indirects, i)
      BY <3>4, WithinAt
    <3>6. \A i \in Places : i >= 0 /\ i < NumBlocksOf(ondisk[f])
                              => At(ondisk[f], indirects, i) # 0
      <4>1. \A i \in Places : i >= 0 =>
               i \in 0 .. NUM_DIRECT_BLOCKS - 1 \/ i >= NUM_DIRECT_BLOCKS
        BY Facts DEF Places
      <4> QED  BY <3>4, <4>1 DEF Shape
    <3> QED  BY <2>4, <3>1, <3>2, <3>3, <3>5, <3>6 DEF SamePlaces
  <2> QED  BY <2>3, <2>4
<1>5. ASSUME NEW f \in Files, NEW n \in WriteEnds, Write(f, n)  PROVE SamePlaces(g)
  <2>1. PICK t : Longer(View(f), t) /\ UpdateInode(f, t)
    BY <1>5, WriteIs
  <2> QED  BY <2>1, UpdateStays
<1>6. ASSUME NEW f \in Files, NEW n \in Sizes, SetFileSize(f, n)  PROVE SamePlaces(g)
  <2>1. PICK t : (Longer(View(f), t) \/ Shorter(View(f), t)) /\ UpdateInode(f, t)
    BY <1>6, SetFileSizeIs
  <2> QED  BY <2>1, UpdateStays
<1> QED  BY <1>1, <1>2, <1>3, <1>4, <1>5, <1>6 DEF Next

(***************************************************************************)
(* A block that is inside a file before and after a call is where it was:  *)
(* growing, running out of space, shrinking and reading the inode again    *)
(* move nothing, until a file is cut to a size that shrink_dstream gets    *)
(* wrong.                                                                  *)
(***************************************************************************)
THEOREM StreamBlocksStay == Spec => BlocksStay
<1> DEFINE Stay == ~miscut' => \A f \in Files : Live(f) /\ Live(f)' =>
              \A i \in 0 .. Min({NumBlocksOf(mi[f]), NumBlocksOf(mi'[f])}) - 1 :
                  AddrOf(mi[f], i)' = AddrOf(mi[f], i)
<1>1. (~miscut => Inv) /\ [Next]_vars => [Stay]_vars
  <2> SUFFICES ASSUME Inv, Next, ~miscut', NEW f \in Files, Live(f), Live(f)',
                      NEW i \in 0 .. Min({NumBlocksOf(mi[f]), NumBlocksOf(mi'[f])}) - 1
               PROVE  AddrOf(mi[f], i)' = AddrOf(mi[f], i)
    BY MiscutStays
  <2>1. Inv'
    BY NextInv
  <2>2. /\ mi[f] \in Inode /\ Shape(mi[f], indirects, NumBlocksOf(mi[f]))
        /\ mi'[f] \in Inode /\ Shape(mi'[f], indirects', NumBlocksOf(mi'[f]))
    BY <2>1 DEF Inv, TypeOK, FileOK
  <2>3. NumBlocksOf(mi[f]) \in Nat /\ NumBlocksOf(mi'[f]) \in Nat
    BY <2>2, NumBlocksIs DEF Inode
  <2>4. i \in 0 .. NumBlocksOf(mi[f]) - 1 /\ i \in 0 .. NumBlocksOf(mi'[f]) - 1
    BY <2>3, MinIs
  <2>5. AddrOf(mi[f], i) = At(mi[f], indirects, i) /\ i \in Places
    BY <2>2, <2>4, AddrAt DEF AddrOf
  <2>6. AddrOf(mi[f], i)' = At(mi'[f], indirects', i)
    BY <2>2, <2>4, AddrAt DEF AddrOf
  <2>7. SamePlaces(f)
    BY NextStays
  <2>8. i >= 0 /\ i < NumBlocksOf(mi[f]) /\ i < NumBlocksOf(mi'[f])
    BY <2>3, <2>4
  <2> QED  BY <2>5, <2>6, <2>7, <2>8 DEF SamePlaces
<1> QED  BY <1>1, StreamInvariant, PTL DEF Spec, BlocksStay
=============================================================================
