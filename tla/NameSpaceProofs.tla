-------------------------- MODULE NameSpaceProofs --------------------------
(***************************************************************************)
(* No call drops a reference it does not have, nobody is left behind in a  *)
(* name space that is unmounted, and the mount points and the mount table  *)
(* agree, for every number of threads, slots and devices, every path and   *)
(* every symbolic link.                                                    *)
(***************************************************************************)
EXTENDS NameSpace, FiniteSetTheorems, SequenceTheorems, TLAPS

Mounted(v) == nspace[v[1]].state = "mounted"

\* A vnode is a slot and a node.
LEMMA VnodeParts ==
    /\ 0 \in Slots /\ IsFiniteSet(Slots)
    /\ rootvn \in Vnodes
    /\ \A s \in Slots : /\ RootOf(s) \in Vnodes /\ <<s, "d">> \in Vnodes
                        /\ RootOf(s)[1] = s /\ RootOf(s) # NoVnode
    /\ \A v \in Vnodes : /\ v[1] \in Slots /\ v[2] \in Nodes(v[1]) /\ v = <<v[1], v[2]>>
                         /\ v # NoVnode
    /\ \A s \in Slots : \A n \in Nodes(s) : <<s, n>> \in Vnodes
<1>1. 0 \in Slots /\ IsFiniteSet(Slots)
  BY NameSpaceAssumption, FS_Interval DEF Slots
<1>2. \A s \in Slots : \A n \in Nodes(s) : <<s, n>> \in Vnodes
  BY DEF Vnodes
<1>3. \A v \in Vnodes : \E s \in Slots : \E n \in Nodes(s) : v = <<s, n>>
  BY DEF Vnodes
<1>4. \A s \in Slots : "r" \in Nodes(s) /\ "d" \in Nodes(s)
  BY DEF Nodes
<1> QED
  BY <1>1, <1>2, <1>3, <1>4, NoVnodeAssumption DEF RootOf, rootvn

\* The directory entry a walk finds is in the same name space.
LEMMA EntryPlace ==
    ASSUME NEW v \in Vnodes, NEW c, Entry(v, c) # NoVnode
    PROVE  Entry(v, c) \in Vnodes /\ Entry(v, c)[1] = v[1]
<1>1. CASE v[2] = "l"
  BY <1>1 DEF Entry
<1>2. CASE v[2] # "l" /\ c = "."
  BY <1>2 DEF Entry
<1>3. CASE v[2] # "l" /\ c = ".."
  BY <1>3, VnodeParts DEF Entry
<1>4. CASE v[2] # "l" /\ c \notin {".", ".."}
  <2>1. Entry(v, c) = <<v[1], c>> /\ c \in Nodes(v[1])
    BY <1>4 DEF Entry
  <2> QED
    BY <2>1, VnodeParts
<1> QED
  BY <1>1, <1>2, <1>3, <1>4

\* The holders of a vnode are counted by natural numbers.
HoldersCounted ==
    \A v : /\ IsFiniteSet(CallsAt(v)) /\ Cardinality(CallsAt(v)) \in Nat
           /\ IsFiniteSet(PairsAt(v)) /\ Cardinality(PairsAt(v)) \in Nat
           /\ IsFiniteSet(MountsOn(v)) /\ Cardinality(MountsOn(v)) \in Nat
           /\ RootRef(v) \in {0, 1}

LEMMA HolderSets == HoldersCounted
<1> SUFFICES ASSUME NEW v
             PROVE  /\ IsFiniteSet(CallsAt(v)) /\ Cardinality(CallsAt(v)) \in Nat
                    /\ IsFiniteSet(PairsAt(v)) /\ Cardinality(PairsAt(v)) \in Nat
                    /\ IsFiniteSet(MountsOn(v)) /\ Cardinality(MountsOn(v)) \in Nat
                    /\ RootRef(v) \in {0, 1}
  BY DEF HoldersCounted
<1>1. IsFiniteSet(CallsAt(v)) /\ IsFiniteSet(PairsAt(v)) /\ IsFiniteSet(MountsOn(v))
  BY NameSpaceAssumption, VnodeParts, FS_Subset DEF CallsAt, PairsAt, MountsOn
<1> QED
  BY <1>1, FS_CardinalityType DEF RootRef

LEMMA HolderSetsNext == HoldersCounted'
  BY HolderSets, PTL

\* One element more or less.
LEMMA SetMoves ==
    ASSUME NEW S, NEW T, NEW x, IsFiniteSet(S), IsFiniteSet(T), T \ {x} = S \ {x}
    PROVE  Cardinality(T) = Cardinality(S) - (IF x \in S THEN 1 ELSE 0)
                                           + (IF x \in T THEN 1 ELSE 0)
<1>1. Cardinality(S \ {x}) = IF x \in S THEN Cardinality(S) - 1 ELSE Cardinality(S)
  BY FS_RemoveElement
<1>2. Cardinality(T \ {x}) = IF x \in T THEN Cardinality(T) - 1 ELSE Cardinality(T)
  BY FS_RemoveElement
<1>3. Cardinality(S) \in Nat /\ Cardinality(T) \in Nat
  BY FS_CardinalityType
<1>4. Cardinality(S \ {x}) = Cardinality(T \ {x})
  OBVIOUS
<1> QED
  BY <1>1, <1>2, <1>3, <1>4

\* A step of thread t moves it from the vnodes it held to those it holds now.
LEMMA CallMoves ==
    ASSUME TypeOK, NEW t \in Threads, NEW c,
           th' = [th EXCEPT ![t] = c],
           NEW v
    PROVE  /\ Cardinality(CallsAt(v)') =
                 Cardinality(CallsAt(v)) + One(v, c.bvn) - One(v, th[t].bvn)
           /\ Cardinality(PairsAt(v)') =
                 Cardinality(PairsAt(v)) + One(v, c.first) - One(v, th[t].first)
<1>1. th'[t] = c /\ \A u \in Threads \ {t} : th'[u] = th[u]
  BY DEF TypeOK
<1>2. CallsAt(v)' \ {t} = CallsAt(v) \ {t} /\ PairsAt(v)' \ {t} = PairsAt(v) \ {t}
  BY <1>1 DEF CallsAt, PairsAt
<1>3. /\ t \in CallsAt(v) <=> v = th[t].bvn
      /\ t \in CallsAt(v)' <=> v = c.bvn
      /\ t \in PairsAt(v) <=> v = th[t].first
      /\ t \in PairsAt(v)' <=> v = c.first
  BY <1>1 DEF CallsAt, PairsAt
<1>4. /\ IsFiniteSet(CallsAt(v)) /\ IsFiniteSet(PairsAt(v))
      /\ IsFiniteSet(CallsAt(v)') /\ IsFiniteSet(PairsAt(v)')
      /\ Cardinality(CallsAt(v)) \in Nat /\ Cardinality(PairsAt(v)) \in Nat
  BY HolderSets, HolderSetsNext DEF HoldersCounted
<1>5. Cardinality(CallsAt(v)') = Cardinality(CallsAt(v))
           - (IF t \in CallsAt(v) THEN 1 ELSE 0) + (IF t \in CallsAt(v)' THEN 1 ELSE 0)
  BY <1>2, <1>4, SetMoves
<1>6. Cardinality(PairsAt(v)') = Cardinality(PairsAt(v))
           - (IF t \in PairsAt(v) THEN 1 ELSE 0) + (IF t \in PairsAt(v)' THEN 1 ELSE 0)
  BY <1>2, <1>4, SetMoves
<1> QED
  BY <1>3, <1>4, <1>5, <1>6 DEF One

\* HeldIsMounted, holder by holder.
HeldParts ==
    /\ \A v \in Vnodes : files[v] > 0 => Mounted(v)
    /\ \A s \in Slots : nspace[s].mount # NoVnode => Mounted(nspace[s].mount)
    /\ \A t \in Threads : th[t].at # "sync" /\ th[t].bvn # NoVnode => Mounted(th[t].bvn)
    /\ \A t \in Threads : th[t].first # NoVnode => Mounted(th[t].first)

LEMMA HeldSplit == HeldIsMounted <=> HeldParts
<1>1. HeldIsMounted => HeldParts
  <2> SUFFICES ASSUME HeldIsMounted PROVE HeldParts
    OBVIOUS
  <2>1. \A v \in Vnodes : files[v] > 0 => v \in Held
    BY VnodeParts DEF Held
  <2>2. \A s \in Slots : nspace[s].mount # NoVnode => nspace[s].mount \in Held
    BY DEF Held
  <2>3. \A t \in Threads : th[t].at # "sync" /\ th[t].bvn # NoVnode => th[t].bvn \in Held
    BY DEF Held
  <2>4. \A t \in Threads : th[t].first # NoVnode => th[t].first \in Held
    BY DEF Held
  <2> QED
    BY <2>1, <2>2, <2>3, <2>4 DEF HeldIsMounted, HeldParts, Mounted
<1>2. HeldParts => HeldIsMounted
  <2> SUFFICES ASSUME HeldParts, NEW v \in Held PROVE nspace[v[1]].state = "mounted"
    BY DEF HeldIsMounted
  <2> QED
    BY DEF Held, HeldParts, Mounted
<1> QED
  BY <1>1, <1>2

LEMMA HeldSplitNext == HeldIsMounted' <=> HeldParts'
  BY HeldSplit, PTL
-----------------------------------------------------------------------------
(***************************************************************************)
(* Steps of a call that leave the mount table alone.                       *)
(***************************************************************************)
Busy == {"mounting", "unmounting", "closing"}

\* What is left of MountTreeSound, of the slots and of the list when only
\* calls change that neither mount nor unmount.
LEMMA TableKept ==
    ASSUME IInv, NEW t \in Threads, NEW c \in Calls,
           th[t].at \notin Busy, c.at \notin Busy,
           th' = [th EXCEPT ![t] = c], mountVars' = mountVars, dead' = dead
    PROVE  SlotsTold' /\ ListTold' /\ MountTreeSound'
<1>1. /\ nshead' = nshead /\ nspace' = nspace /\ mounted' = mounted
      /\ fsrcnt' = fsrcnt /\ dead' = dead
  BY DEF mountVars
<1>2. th'[t] = c /\ \A u \in Threads \ {t} : th'[u] = th[u]
  BY DEF IInv, TypeOK
<1>3. SlotsTold'
  <2>1. \A u \in Threads : th[u].at = "unmounting" => th'[u] = th[u]
    BY <1>2 DEF Busy
  <2> QED
    BY <1>1, <2>1 DEF IInv, SlotsTold, Alive
<1>4. ListTold'
  BY <1>1 DEF IInv, ListTold
<1>5. MountTreeSound'
  <2>1. Closing' = Closing /\ Live' = Live /\ FreeSlots' = FreeSlots
    BY <1>1, <1>2 DEF Busy, Closing, Live, FreeSlots
  <2>2. \A s : Parent(s)' = Parent(s)
    BY <1>1 DEF Parent
  <2>3. HangsTogether'
    BY <2>1, <2>2 DEF IInv, MountTreeSound, HangsTogether
  <2>4. PointsAgree'
    BY <1>1, <2>1 DEF IInv, MountTreeSound, PointsAgree
  <2>5. Listed'
    BY <1>1, <2>1 DEF IInv, MountTreeSound, Listed
  <2>6. TypeCounted'
    BY <1>1, <2>1 DEF IInv, MountTreeSound, TypeCounted, Alive
  <2> QED
    BY <2>3, <2>4, <2>5, <2>6 DEF MountTreeSound
<1> QED
  BY <1>3, <1>4, <1>5

\* A call at a place where it has only references to vnodes of mounted name
\* spaces, and does not hold a slot.
Settled(c) ==
    /\ c \in Calls /\ c.at \notin Busy /\ CallFits(c)
    /\ c.at # "sync" /\ c.bvn # NoVnode => Mounted(c.bvn)
    /\ c.first # NoVnode => Mounted(c.first)

\* The references of a call that goes from a to c.
Took(v, a, c) == One(v, c.bvn) - One(v, a.bvn) + One(v, c.first) - One(v, a.first)

\* A step of a call that counts what it takes, while open files come and go.
LEMMA CallStep ==
    ASSUME IInv, NEW t \in Threads, NEW c, Settled(c), th[t].at \notin Busy,
           th' = [th EXCEPT ![t] = c], mountVars' = mountVars, dead' = dead,
           files' \in [Vnodes -> Nat], rcnt' \in [Vnodes -> Int],
           \A v \in Vnodes : files'[v] > files[v] => Mounted(v),
           \A v \in Vnodes :
              rcnt'[v] >= rcnt[v] + Took(v, th[t], c) + files'[v] - files[v]
    PROVE  IInv'
<1>1. /\ nshead' = nshead /\ nspace' = nspace /\ mounted' = mounted
      /\ fsrcnt' = fsrcnt /\ dead' = dead
  BY DEF mountVars
<1>s. /\ c \in Calls /\ c.at \notin Busy /\ CallFits(c)
      /\ c.at # "sync" /\ c.bvn # NoVnode => Mounted(c.bvn)
      /\ c.first # NoVnode => Mounted(c.first)
  BY DEF Settled
<1>2. th'[t] = c /\ \A u \in Threads \ {t} : th'[u] = th[u]
  BY DEF IInv, TypeOK
<1>3. EveryRefCounted' /\ rcnt' \in [Vnodes -> Nat]
  <2> SUFFICES ASSUME NEW v \in Vnodes
               PROVE  rcnt'[v] >= HoldersOf(v)' /\ rcnt'[v] \in Nat
    BY DEF EveryRefCounted
  <2>1. /\ Cardinality(CallsAt(v)') =
              Cardinality(CallsAt(v)) + One(v, c.bvn) - One(v, th[t].bvn)
        /\ Cardinality(PairsAt(v)') =
              Cardinality(PairsAt(v)) + One(v, c.first) - One(v, th[t].first)
    BY CallMoves DEF IInv
  <2>2. MountsOn(v)' = MountsOn(v) /\ RootRef(v)' = RootRef(v)
    BY <1>1 DEF MountsOn, RootRef
  <2>3. rcnt[v] >= HoldersOf(v) /\ rcnt[v] \in Nat /\ files[v] \in Nat
    BY DEF IInv, EveryRefCounted, TypeOK
  <2>4. /\ Cardinality(CallsAt(v)) \in Nat /\ Cardinality(CallsAt(v)') \in Nat
        /\ Cardinality(PairsAt(v)) \in Nat /\ Cardinality(PairsAt(v)') \in Nat
        /\ Cardinality(MountsOn(v)) \in Nat /\ RootRef(v) \in {0, 1}
    BY HolderSets, HolderSetsNext DEF HoldersCounted
  <2>5. /\ One(v, c.bvn) \in Int /\ One(v, th[t].bvn) \in Int
        /\ One(v, c.first) \in Int /\ One(v, th[t].first) \in Int
    BY DEF One
  <2>6. /\ rcnt'[v] >= rcnt[v] + Took(v, th[t], c) + files'[v] - files[v]
        /\ rcnt'[v] \in Int /\ files'[v] \in Nat
    OBVIOUS
  <2> QED
    BY <2>1, <2>2, <2>3, <2>4, <2>5, <2>6 DEF HoldersOf, Took
<1>4. TypeOK'
  BY <1>1, <1>3, <1>s DEF IInv, TypeOK
<1>5. CallsTold'
  <2>1. \A u \in Threads : CallFits(th[u])'
    BY <1>1, <1>2, <1>s DEF IInv, CallsTold, CallFits
  <2> QED
    BY <1>2, <1>s, <2>1 DEF IInv, CallsTold, Busy
<1>6. HeldIsMounted'
  <2>1. HeldParts
    BY HeldSplit DEF IInv
  <2>2. \A v \in Vnodes : files[v] \in Nat /\ files'[v] \in Nat
    BY DEF IInv, TypeOK
  <2>3. \A v : Mounted(v)' <=> Mounted(v)
    BY <1>1 DEF Mounted
  <2>4. \A v \in Vnodes : files'[v] > 0 => Mounted(v)
    BY <2>1, <2>2 DEF HeldParts
  <2>5. HeldParts'
    BY <1>1, <1>2, <1>s, <2>1, <2>3, <2>4 DEF HeldParts
  <2> QED
    BY <2>5, HeldSplitNext
<1> QED
  BY <1>3, <1>4, <1>5, <1>6, <1>s, TableKept DEF IInv

\* The same while the open files stay.
LEMMA QuietStep ==
    ASSUME IInv, NEW t \in Threads, NEW c, Settled(c), th[t].at \notin Busy,
           th' = [th EXCEPT ![t] = c], mountVars' = mountVars, dead' = dead,
           files' = files, rcnt' \in [Vnodes -> Int],
           \A v \in Vnodes : rcnt'[v] >= rcnt[v] + Took(v, th[t], c)
    PROVE  IInv'
<1>1. files' \in [Vnodes -> Nat] /\ files \in [Vnodes -> Nat] /\ rcnt \in [Vnodes -> Nat]
  BY DEF IInv, TypeOK
<1>2. \A v \in Vnodes : ~(files'[v] > files[v])
  BY <1>1
<1>3. \A v \in Vnodes : Took(v, th[t], c) \in Int
  BY DEF Took, One
<1>4. \A v \in Vnodes :
         rcnt'[v] >= rcnt[v] + Took(v, th[t], c) + files'[v] - files[v]
  BY <1>1, <1>3
<1> QED
  BY <1>1, <1>2, <1>4, CallStep

\* No call: what Return leaves behind.
LEMMA IdleCall == Settled(Idle) /\ Idle.bvn = NoVnode /\ Idle.first = NoVnode
<1>1. <<>> \in Seq(STRING) /\ 0 \in 0 .. MAX_SYM_LINKS /\ 0 \in Devices \cup {0} /\ 0 \in Slots
  BY NameSpaceAssumption, VnodeParts
<1>2. Idle \in Calls
  BY <1>1 DEF Idle, Calls, Places
<1> QED
  BY <1>2 DEF Idle, CallFits, Settled, Busy

\* parse_path goes on, or has arrived.
LEMMA OnwardCall ==
    ASSUME NEW v \in Vnodes, NEW f \in Vnodes \cup {NoVnode}, NEW p \in Seq(STRING),
           NEW e \in BOOLEAN, NEW i \in 0 .. MAX_SYM_LINKS,
           NEW c, c = Onward(v, f, p, e, i),
           Mounted(v), f # NoVnode => Mounted(f)
    PROVE  Settled(c) /\ c.bvn = v /\ c.first = f
<1>1. v # NoVnode /\ 0 \in Slots /\ 0 \in Devices \cup {0}
  BY VnodeParts
<1>2. CASE p = <<>>
  <2>1. c = [Idle EXCEPT !.at = "got", !.bvn = v, !.first = f]
    BY <1>2 DEF Onward
  <2>2. <<>> \in Seq(STRING) /\ 0 \in 0 .. MAX_SYM_LINKS
    BY NameSpaceAssumption
  <2>3. c \in Calls /\ c.at = "got" /\ c.bvn = v /\ c.first = f /\ c.path = <<>>
    BY <1>1, <2>1, <2>2 DEF Idle, Calls, Places
  <2> QED
    BY <1>1, <2>3 DEF CallFits, Settled, Busy
<1>3. CASE p # <<>>
  <2>1. c = [Idle EXCEPT !.at = "walk", !.bvn = v, !.first = f,
                         !.path = p, !.eat = e, !.iter = i]
    BY <1>3 DEF Onward
  <2>2. c \in Calls /\ c.at = "walk" /\ c.bvn = v /\ c.first = f /\ c.path = p
    BY <1>1, <2>1 DEF Idle, Calls, Places
  <2> QED
    BY <1>1, <1>3, <2>2 DEF CallFits, Settled, Busy
<1> QED
  BY <1>2, <1>3

\* What the parts of the invariant say of a call under way.
LEMMA CallSays ==
    ASSUME IInv, NEW t \in Threads, th[t].at \notin {"idle", "stale"}
    PROVE  /\ th[t] \in Calls /\ CallFits(th[t])
           /\ th[t].bvn \in Vnodes /\ th[t].first \in Vnodes \cup {NoVnode}
           /\ th[t].at # "sync" => Mounted(th[t].bvn)
           /\ th[t].first # NoVnode => Mounted(th[t].first)
<1>1. th[t] \in Calls /\ CallFits(th[t])
  BY DEF IInv, TypeOK, CallsTold
<1>2. th[t].bvn \in Vnodes /\ th[t].first \in Vnodes \cup {NoVnode}
  BY <1>1 DEF Calls, CallFits
<1>3. HeldParts
  BY HeldSplit DEF IInv
<1> QED
  BY <1>1, <1>2, <1>3, VnodeParts DEF HeldParts

\* The base of a path is the root or an open file.
LEMMA BasesMounted ==
    ASSUME IInv, NEW b \in Bases
    PROVE  b \in Vnodes /\ Mounted(b)
<1>1. CASE b = rootvn
  BY <1>1, VnodeParts DEF IInv, SlotsTold, Mounted, rootvn
<1>2. CASE b # rootvn
  <2>1. HeldParts
    BY HeldSplit DEF IInv
  <2> QED
    BY <1>2, <2>1 DEF Bases, HeldParts
<1> QED
  BY <1>1, <1>2

LEMMA BeginStep ==
    ASSUME IInv, NEW t \in Threads, NEW b \in Bases, NEW f \in Vnodes \cup {NoVnode},
           NEW p \in Paths, NEW e \in BOOLEAN,
           \/ th[t].at = "idle" /\ f = NoVnode
           \/ th[t].at = "got" /\ th[t].first = NoVnode /\ f = th[t].bvn,
           Begin(t, b, f, p, e)
    PROVE  IInv'
<1>1. b \in Vnodes /\ Mounted(b)
  BY BasesMounted
<1>2. f # NoVnode => Mounted(f)
  BY CallSays
<1>3. PICK c : c = Onward(b, f, p, e, 0)
  OBVIOUS
<1>4. Settled(c) /\ c.bvn = b /\ c.first = f
  <2>1. PICK i \in 0 .. MAX_SYM_LINKS : i = 0
    BY NameSpaceAssumption
  <2>2. p \in Seq(STRING) /\ c = Onward(b, f, p, e, i)
    BY <1>3, <2>1, NameSpaceAssumption
  <2> QED
    BY <1>1, <1>2, <2>2, OnwardCall, SMTT(30)
<1>5. /\ th' = [th EXCEPT ![t] = c] /\ mountVars' = mountVars /\ dead' = dead
      /\ files' = files /\ rcnt' = Moved(b, NoVnode)
  BY <1>3 DEF Begin
<1>6. th[t].at = "idle" => th[t].bvn = NoVnode /\ th[t].first = NoVnode
  BY DEF IInv, CallsTold, CallFits
<1>7. rcnt \in [Vnodes -> Nat]
  BY DEF IInv, TypeOK
<1>8. rcnt' \in [Vnodes -> Int]
  BY <1>5, <1>7 DEF Moved, One
<1>9. \A v \in Vnodes : rcnt'[v] >= rcnt[v] + Took(v, th[t], c)
  BY <1>4, <1>5, <1>6, <1>7, VnodeParts DEF Moved, One, Took
<1>10. th[t].at \notin Busy
  BY DEF Busy
<1> QED
  BY <1>4, <1>5, <1>8, <1>9, <1>10, QuietStep

\* Up from the root of a name space is the vnode it covers.
LEMMA UpFromMounted ==
    ASSUME IInv, NEW v \in Vnodes, Mounted(v), NEW n
    PROVE  UpFrom(v, n) \in Vnodes /\ Mounted(UpFrom(v, n))
<1>1. CASE n = ".." /\ is_root(v)
  <2>1. v[1] \in Slots
    BY VnodeParts
  <2>2. UpFrom(v, n) = nspace[v[1]].mount /\ nspace[v[1]].mount # NoVnode
    BY <1>1 DEF UpFrom, is_root
  <2>3. nspace[v[1]].mount \in Vnodes \cup {NoVnode}
    BY <2>1 DEF IInv, TypeOK
  <2>4. HeldParts
    BY HeldSplit DEF IInv
  <2> QED
    BY <2>1, <2>2, <2>3, <2>4 DEF HeldParts
<1>2. CASE ~(n = ".." /\ is_root(v))
  BY <1>2 DEF UpFrom
<1> QED
  BY <1>1, <1>2

\* A walk has a component to go.
LEMMA WalkHas ==
    ASSUME IInv, NEW t \in Threads, th[t].at = "walk"
    PROVE  /\ th[t].path \in Seq(STRING) /\ th[t].path # <<>>
           /\ Rest(t) \in Seq(STRING) /\ Len(Rest(t)) = Len(th[t].path) - 1
<1>1. th[t] \in Calls /\ CallFits(th[t])
  BY DEF IInv, TypeOK, CallsTold
<1>2. th[t].path \in Seq(STRING) /\ th[t].path # <<>>
  BY <1>1 DEF Calls, CallFits
<1> QED
  BY <1>2, HeadTailProperties DEF Rest

LEMMA WalkEntryStep ==
    ASSUME IInv, NEW t \in Threads, WalkEntry(t)
    PROVE  IInv'
<1>1. th[t].at = "walk"
  BY DEF WalkEntry, At
<1>2. /\ th[t] \in Calls /\ CallFits(th[t]) /\ th[t].bvn \in Vnodes /\ Mounted(th[t].bvn)
      /\ th[t].first \in Vnodes \cup {NoVnode}
      /\ th[t].first # NoVnode => Mounted(th[t].first)
  BY <1>1, CallSays
<1>3. PICK up : up = UpFrom(th[t].bvn, Component(t))
  OBVIOUS
<1>4. PICK vn : vn = Entry(up, Component(t))
  OBVIOUS
<1>5. /\ vn # NoVnode /\ rcnt' = Moved(vn, th[t].bvn)
      /\ th' = [th EXCEPT ![t].at = "cross", ![t].bvn = vn, ![t].path = Rest(t)]
      /\ mountVars' = mountVars /\ dead' = dead /\ files' = files
  BY <1>3, <1>4 DEF WalkEntry
<1>6. up \in Vnodes /\ Mounted(up)
  BY <1>2, <1>3, UpFromMounted
<1>7. vn \in Vnodes /\ Mounted(vn)
  BY <1>4, <1>5, <1>6, EntryPlace DEF Mounted
<1>8. PICK c : c = [th[t] EXCEPT !.at = "cross", !.bvn = vn, !.path = Rest(t)]
  OBVIOUS
<1>9. th' = [th EXCEPT ![t] = c]
  BY <1>5, <1>8
<1>10. Rest(t) \in Seq(STRING)
  BY <1>1, WalkHas
<1>11. c \in Calls /\ c.at = "cross" /\ c.bvn = vn /\ c.first = th[t].first
  BY <1>2, <1>7, <1>8, <1>10 DEF Calls, Places
<1>12. Settled(c)
  BY <1>2, <1>5, <1>7, <1>11 DEF Settled, Busy, CallFits
<1>13. rcnt \in [Vnodes -> Nat]
  BY DEF IInv, TypeOK
<1>14. rcnt' \in [Vnodes -> Int]
  BY <1>5, <1>13 DEF Moved, One
<1>15. \A v \in Vnodes : rcnt'[v] >= rcnt[v] + Took(v, th[t], c)
  BY <1>5, <1>11, <1>13 DEF Moved, One, Took
<1>16. th[t].at \notin Busy
  BY <1>1 DEF Busy
<1> QED
  BY <1>5, <1>9, <1>12, <1>14, <1>15, <1>16, QuietStep

LEMMA WalkLinkStep ==
    ASSUME IInv, NEW t \in Threads, NEW target \in Targets, WalkLink(t, target)
    PROVE  IInv'
<1>1. th[t].at = "walk" /\ th[t].iter < MAX_SYM_LINKS
  BY DEF WalkLink, At
<1>2. /\ th[t] \in Calls /\ th[t].bvn \in Vnodes /\ Mounted(th[t].bvn)
      /\ th[t].first \in Vnodes \cup {NoVnode}
      /\ th[t].first # NoVnode => Mounted(th[t].first)
  BY <1>1, CallSays
<1>3. PICK next : next = IF target[1] THEN rootvn ELSE th[t].bvn
  OBVIOUS
<1>4. next \in Vnodes /\ Mounted(next)
  <2>1. rootvn \in Bases
    BY DEF Bases
  <2> QED
    BY <1>2, <1>3, <2>1, BasesMounted
<1>5. PICK p : p = target[2] \o Rest(t)
  OBVIOUS
<1>6. PICK i : i = th[t].iter + 1
  OBVIOUS
<1>7. p \in Seq(STRING)
  <2>1. Rest(t) \in Seq(STRING) /\ target[2] \in Seq(STRING)
    BY <1>1, WalkHas, NameSpaceAssumption
  <2> QED
    BY <1>5, <2>1, ConcatProperties
<1>8. i \in 0 .. MAX_SYM_LINKS /\ th[t].eat \in BOOLEAN
  BY <1>1, <1>2, <1>6, NameSpaceAssumption DEF Calls
<1>9. PICK c : c = Onward(next, th[t].first, p, th[t].eat, i)
  OBVIOUS
<1>10. Settled(c) /\ c.bvn = next /\ c.first = th[t].first
  BY <1>2, <1>4, <1>7, <1>8, <1>9, OnwardCall
<1>11. /\ th' = [th EXCEPT ![t] = c] /\ rcnt' = Moved(next, th[t].bvn)
       /\ mountVars' = mountVars /\ dead' = dead /\ files' = files
  BY <1>3, <1>5, <1>6, <1>9 DEF WalkLink
<1>12. rcnt \in [Vnodes -> Nat]
  BY DEF IInv, TypeOK
<1>13. rcnt' \in [Vnodes -> Int]
  BY <1>11, <1>12 DEF Moved, One
<1>14. \A v \in Vnodes : rcnt'[v] >= rcnt[v] + Took(v, th[t], c)
  BY <1>10, <1>11, <1>12 DEF Moved, One, Took
<1>15. th[t].at \notin Busy
  BY <1>1 DEF Busy
<1> QED
  BY <1>10, <1>11, <1>13, <1>14, <1>15, QuietStep

\* Nothing is mounted where the mount table has nothing.
LEMMA MountedOn ==
    ASSUME IInv, NEW v \in Vnodes, mounted[v] # 0
    PROVE  RootOf(mounted[v]) \in Vnodes /\ Mounted(RootOf(mounted[v]))
<1>1. PICK s \in Slots : s = mounted[v]
  BY DEF IInv, TypeOK
<1>2. s \in Live
  BY <1>1 DEF IInv, MountTreeSound, PointsAgree
<1> QED
  BY <1>1, <1>2, VnodeParts DEF Live, Mounted

LEMMA CrossStep ==
    ASSUME IInv, NEW t \in Threads, Cross(t)
    PROVE  IInv'
<1>1. th[t].at = "cross"
  BY DEF Cross, At
<1>2. /\ th[t] \in Calls /\ th[t].bvn \in Vnodes /\ Mounted(th[t].bvn)
      /\ th[t].first \in Vnodes \cup {NoVnode}
      /\ th[t].first # NoVnode => Mounted(th[t].first)
  BY <1>1, CallSays
<1>3. PICK next : next = IF mounted[th[t].bvn] # 0 THEN RootOf(mounted[th[t].bvn])
                                                   ELSE th[t].bvn
  OBVIOUS
<1>4. next \in Vnodes /\ Mounted(next)
  BY <1>2, <1>3, MountedOn
<1>5. /\ th[t].path \in Seq(STRING) /\ th[t].eat \in BOOLEAN
      /\ th[t].iter \in 0 .. MAX_SYM_LINKS
  BY <1>2 DEF Calls
<1>6. PICK c : c = Onward(next, th[t].first, th[t].path, th[t].eat, th[t].iter)
  OBVIOUS
<1>7. Settled(c) /\ c.bvn = next /\ c.first = th[t].first
  <2>1. PICK p \in Seq(STRING), e \in BOOLEAN, i \in 0 .. MAX_SYM_LINKS :
           p = th[t].path /\ e = th[t].eat /\ i = th[t].iter
    BY <1>5
  <2>2. c = Onward(next, th[t].first, p, e, i)
    BY <1>6, <2>1
  <2> QED
    BY <1>2, <1>4, <2>2, OnwardCall
<1>8. /\ th' = [th EXCEPT ![t] = c] /\ rcnt' = Moved(next, th[t].bvn)
      /\ mountVars' = mountVars /\ dead' = dead /\ files' = files
  BY <1>3, <1>6 DEF Cross
<1>9. rcnt \in [Vnodes -> Nat]
  BY DEF IInv, TypeOK
<1>10. rcnt' \in [Vnodes -> Int]
  BY <1>8, <1>9 DEF Moved, One
<1>11. \A v \in Vnodes : rcnt'[v] >= rcnt[v] + Took(v, th[t], c)
  BY <1>7, <1>8, <1>9 DEF Moved, One, Took
<1>12. th[t].at \notin Busy
  BY <1>1 DEF Busy
<1> QED
  BY <1>7, <1>8, <1>10, <1>11, <1>12, QuietStep

\* A call that returns drops no more than it has.
LEMMA ReturnStep ==
    ASSUME IInv, NEW t \in Threads, th[t].at \notin Busy, Return(t),
           mountVars' = mountVars, dead' = dead, files' = files,
           rcnt' \in [Vnodes -> Int],
           \A v \in Vnodes : rcnt'[v] >= rcnt[v] - One(v, th[t].bvn) - One(v, th[t].first)
    PROVE  IInv'
<1>1. PICK c : c = Idle
  OBVIOUS
<1>2. Settled(c) /\ c.bvn = NoVnode /\ c.first = NoVnode
  BY <1>1, IdleCall
<1>3. th' = [th EXCEPT ![t] = c]
  BY <1>1 DEF Return
<1>4. rcnt \in [Vnodes -> Nat]
  BY DEF IInv, TypeOK
<1>5. \A v \in Vnodes : rcnt'[v] >= rcnt[v] + Took(v, th[t], c)
  BY <1>2, <1>4, VnodeParts DEF Took, One
<1> QED
  BY <1>2, <1>3, <1>5, QuietStep

LEMMA ReturnsStep ==
    ASSUME IInv, NEW t \in Threads,
           \/ WalkFails(t) \/ AskAndDrop(t) \/ sys_link(t) \/ sys_rename(t)
           \/ RenameAcross(t) \/ UnmountRefused(t) \/ UnmountBusy(t) \/ SyncDone(t)
    PROVE  IInv'
<1>1. th[t].at \notin Busy /\ Return(t)
  BY DEF WalkFails, AskAndDrop, sys_link, sys_rename, DropBoth, RenameAcross,
         UnmountRefused, UnmountBusy, SyncDone, GotOne, GotTwo, At, Busy
<1>2. mountVars' = mountVars /\ dead' = dead /\ files' = files
  BY DEF WalkFails, AskAndDrop, sys_link, sys_rename, DropBoth, RenameAcross,
         UnmountRefused, UnmountBusy, SyncDone
<1>3. \/ rcnt' = [v \in Vnodes |-> rcnt[v] - One(v, th[t].bvn) - One(v, th[t].first)]
      \/ rcnt' = Dropped(th[t].bvn) \/ rcnt' = Dropped(th[t].first) \/ rcnt' = rcnt
  BY DEF WalkFails, AskAndDrop, sys_link, sys_rename, DropBoth, RenameAcross,
         UnmountRefused, UnmountBusy, SyncDone
<1>4. rcnt \in [Vnodes -> Nat]
  BY DEF IInv, TypeOK
<1>5. rcnt' \in [Vnodes -> Int]
  BY <1>3, <1>4 DEF Dropped, Moved, One
<1>6. \A v \in Vnodes : rcnt'[v] >= rcnt[v] - One(v, th[t].bvn) - One(v, th[t].first)
  BY <1>3, <1>4, VnodeParts DEF Dropped, Moved, One
<1> QED
  BY <1>1, <1>2, <1>5, <1>6, ReturnStep

\* The open file takes the reference over, or it is lost with the ofile.
LEMMA NewFileStep ==
    ASSUME IInv, NEW t \in Threads, GotOne(t), NEW v \in Vnodes, Mounted(v),
           NewFile(t, v), rcnt' = Moved(v, th[t].bvn)
    PROVE  IInv'
<1>1. th[t].at = "got" /\ th[t].first = NoVnode
  BY DEF GotOne, At
<1>2. /\ files' = [files EXCEPT ![v] = @ + 1] \/ files' = files
      /\ Return(t) /\ mountVars' = mountVars /\ dead' = dead
  BY DEF NewFile
<1>3. PICK c : c = Idle
  OBVIOUS
<1>4. Settled(c) /\ c.bvn = NoVnode /\ c.first = NoVnode
  BY <1>3, IdleCall
<1>5. th' = [th EXCEPT ![t] = c]
  BY <1>2, <1>3 DEF Return
<1>6. rcnt \in [Vnodes -> Nat] /\ files \in [Vnodes -> Nat]
  BY DEF IInv, TypeOK
<1>7. files' \in [Vnodes -> Nat] /\ rcnt' \in [Vnodes -> Int]
  BY <1>2, <1>6 DEF Moved, One
<1>8. \A w \in Vnodes : files'[w] = files[w] \/ (w = v /\ files'[w] = files[w] + 1)
  BY <1>2, <1>6
<1>9. \A w \in Vnodes : files'[w] > files[w] => Mounted(w)
  BY <1>6, <1>8
<1>10. \A w \in Vnodes :
          rcnt'[w] >= rcnt[w] + Took(w, th[t], c) + files'[w] - files[w]
  BY <1>1, <1>4, <1>6, <1>8, VnodeParts DEF Moved, One, Took
<1>11. th[t].at \notin Busy
  BY <1>1 DEF Busy
<1> QED
  BY <1>2, <1>4, <1>5, <1>7, <1>9, <1>10, <1>11, CallStep

LEMMA OpensStep ==
    ASSUME IInv, NEW t \in Threads, sys_opendir(t) \/ sys_open(t) \/ sys_open_creat(t)
    PROVE  IInv'
<1>1. GotOne(t) /\ th[t].at = "got"
  BY DEF sys_opendir, sys_open, sys_open_creat, GotOne, At
<1>2. th[t].bvn \in Vnodes /\ Mounted(th[t].bvn)
  BY <1>1, CallSays
<1>3. rcnt \in [Vnodes -> Nat]
  BY DEF IInv, TypeOK
<1>4. CASE sys_opendir(t) \/ sys_open(t)
  <2>1. NewFile(t, th[t].bvn) /\ rcnt' = rcnt
    BY <1>4 DEF sys_opendir, sys_open
  <2>2. Moved(th[t].bvn, th[t].bvn) = rcnt
    BY <1>3 DEF Moved, One
  <2> QED
    BY <1>1, <1>2, <2>1, <2>2, NewFileStep
<1>5. CASE sys_open_creat(t)
  <2>1. PICK vn : vn = Entry(th[t].bvn, "d")
    OBVIOUS
  <2>2. vn # NoVnode /\ NewFile(t, vn) /\ rcnt' = Moved(vn, th[t].bvn)
    BY <1>5, <2>1 DEF sys_open_creat
  <2>3. vn \in Vnodes /\ Mounted(vn)
    BY <1>2, <2>1, <2>2, EntryPlace DEF Mounted
  <2> QED
    BY <1>1, <2>2, <2>3, NewFileStep
<1> QED
  BY <1>4, <1>5

LEMMA CloseStep ==
    ASSUME IInv, NEW t \in Threads, NEW v \in Vnodes, sys_close(t, v)
    PROVE  IInv'
<1>1. /\ th[t].at = "idle" /\ files[v] > 0 /\ files' = [files EXCEPT ![v] = @ - 1]
      /\ rcnt' = Dropped(v) /\ mountVars' = mountVars /\ th' = th /\ dead' = dead
  BY DEF sys_close, At
<1>2. PICK c : c = th[t]
  OBVIOUS
<1>3. /\ rcnt \in [Vnodes -> Nat] /\ files \in [Vnodes -> Nat]
      /\ th \in [Threads -> Calls] /\ CallFits(th[t])
  BY DEF IInv, TypeOK, CallsTold
<1>4. th' = [th EXCEPT ![t] = c] /\ th[t].at \notin Busy
  BY <1>1, <1>2, <1>3 DEF Busy
<1>5. Settled(c)
  BY <1>1, <1>2, <1>3, <1>4 DEF Settled, CallFits
<1>6. files' \in [Vnodes -> Nat] /\ rcnt' \in [Vnodes -> Int]
  BY <1>1, <1>3 DEF Dropped, Moved, One
<1>7. \A w \in Vnodes : files'[w] = files[w] - One(w, v)
  BY <1>1, <1>3 DEF One
<1>8. \A w \in Vnodes : ~(files'[w] > files[w])
  BY <1>3, <1>7 DEF One
<1>9. \A w \in Vnodes :
          rcnt'[w] >= rcnt[w] + Took(w, th[t], c) + files'[w] - files[w]
  BY <1>1, <1>2, <1>3, <1>7, VnodeParts DEF Dropped, Moved, One, Took
<1> QED
  BY <1>1, <1>4, <1>5, <1>6, <1>8, <1>9, CallStep

\* The process stops: only its mount table and its open files are left.
LEMMA StopStep ==
    ASSUME IInv, NEW how \in {"null", "lock", "freed"}, Stop(how),
           mountVars' = mountVars, rcnt' = rcnt, files' = files
    PROVE  IInv'
<1>1. /\ nshead' = nshead /\ nspace' = nspace /\ mounted' = mounted /\ fsrcnt' = fsrcnt
      /\ dead' = how /\ dead' # "no" /\ th' = [t \in Threads |-> Idle]
  BY DEF Stop, mountVars
<1>2. \A t \in Threads : th'[t] = Idle
  BY <1>1
<1>3. /\ Idle \in Calls /\ CallFits(Idle) /\ Idle.at = "idle"
      /\ Idle.bvn = NoVnode /\ Idle.first = NoVnode
  BY IdleCall DEF Settled, Idle
<1>4. TypeOK'
  BY <1>1, <1>3 DEF IInv, TypeOK
<1>5. CallsTold'
  <2>1. CallFits(Idle)'
    BY <1>3 DEF CallFits, Idle
  <2> QED
    BY <1>2, <1>3, <2>1 DEF CallsTold, CallFits
<1>6. SlotsTold' /\ ListTold'
  BY <1>1 DEF IInv, SlotsTold, ListTold, Alive
<1>7. EveryRefCounted'
  <2> SUFFICES ASSUME NEW v \in Vnodes PROVE rcnt'[v] >= HoldersOf(v)'
    BY DEF EveryRefCounted
  <2>1. CallsAt(v)' = {} /\ PairsAt(v)' = {}
    BY <1>2, <1>3, VnodeParts DEF CallsAt, PairsAt
  <2>2. Cardinality(CallsAt(v)') = 0 /\ Cardinality(PairsAt(v)') = 0
    BY <2>1, FS_EmptySet
  <2>3. MountsOn(v)' = MountsOn(v) /\ RootRef(v)' = RootRef(v)
    BY <1>1 DEF MountsOn, RootRef
  <2>4. rcnt[v] >= HoldersOf(v) /\ rcnt[v] \in Nat /\ files[v] \in Nat
    BY DEF IInv, EveryRefCounted, TypeOK
  <2>5. /\ Cardinality(CallsAt(v)) \in Nat /\ Cardinality(PairsAt(v)) \in Nat
        /\ Cardinality(MountsOn(v)) \in Nat /\ RootRef(v) \in {0, 1}
    BY HolderSets DEF HoldersCounted
  <2> QED
    BY <2>2, <2>3, <2>4, <2>5 DEF HoldersOf
<1>8. HeldIsMounted'
  <2>1. HeldParts
    BY HeldSplit DEF IInv
  <2>2. HeldParts'
    BY <1>1, <1>2, <1>3, <2>1 DEF HeldParts, Mounted
  <2> QED
    BY <2>2, HeldSplitNext
<1>9. MountTreeSound'
  <2>1. Live' = Live /\ FreeSlots' = FreeSlots /\ \A s : Parent(s)' = Parent(s)
    BY <1>1 DEF Live, FreeSlots, Parent
  <2>2. HangsTogether'
    BY <2>1 DEF IInv, MountTreeSound, HangsTogether
  <2>3. PointsAgree'
    BY <1>1, <2>1 DEF IInv, MountTreeSound, PointsAgree
  <2>4. Listed'
    BY <1>1, <2>1 DEF IInv, MountTreeSound, Listed
  <2>5. TypeCounted'
    BY <1>1 DEF TypeCounted, Alive
  <2> QED
    BY <2>2, <2>3, <2>4, <2>5 DEF MountTreeSound
<1> QED
  BY <1>4, <1>5, <1>6, <1>7, <1>8, <1>9 DEF IInv

LEMMA StopsStep ==
    ASSUME IInv, NEW t \in Threads, sys_chdir(t) \/ MountBusy(t) \/ SyncStale(t)
    PROVE  IInv'
<1>1. /\ Stop("null") \/ Stop("lock") \/ Stop("freed")
      /\ mountVars' = mountVars /\ rcnt' = rcnt /\ files' = files
  BY DEF sys_chdir, MountBusy, SyncStale
<1>2. PICK how \in {"null", "lock", "freed"} : Stop(how)
  BY <1>1
<1> QED
  BY <1>1, <1>2, StopStep

LEMMA SyncAtStep ==
    ASSUME IInv, NEW t \in Threads, th[t].at \in {"idle", "sync"},
           NEW s \in Slots, nspace[s].state # "free", SyncAt(t, s)
    PROVE  IInv'
<1>1. CASE nspace[s].state = "mounting"
  <2>1. Stop("null") /\ mountVars' = mountVars /\ rcnt' = rcnt /\ files' = files
    BY <1>1 DEF SyncAt
  <2>2. PICK how \in {"null", "lock", "freed"} : how = "null"
    OBVIOUS
  <2> QED
    BY <2>1, <2>2, StopStep
<1>2. CASE nspace[s].state # "mounting"
  <2>1. PICK c : c = [Idle EXCEPT !.at = "sync", !.bvn = RootOf(s), !.slot = s]
    OBVIOUS
  <2>2. /\ rcnt' = Moved(RootOf(s), th[t].bvn) /\ th' = [th EXCEPT ![t] = c]
        /\ mountVars' = mountVars /\ dead' = dead /\ files' = files
    BY <1>2, <2>1 DEF SyncAt
  <2>3. RootOf(s) \in Vnodes /\ RootOf(s) # NoVnode
    BY VnodeParts
  <2>4. Idle \in Calls
    BY IdleCall DEF Settled
  <2>5. /\ c \in Calls /\ c.at = "sync" /\ c.bvn = RootOf(s) /\ c.slot = s
        /\ c.first = NoVnode /\ c.path = <<>>
    BY <2>1, <2>3, <2>4 DEF Calls, Places, Idle
  <2>6. nspace[s].state \in {"mounted", "shutdown"}
    BY <1>2 DEF IInv, TypeOK, States
  <2>7. Settled(c)
    BY <2>3, <2>5, <2>6 DEF Settled, CallFits, Busy
  <2>8. th[t].first = NoVnode /\ th[t].at \notin Busy
    BY DEF IInv, CallsTold, CallFits, Busy
  <2>9. rcnt \in [Vnodes -> Nat]
    BY DEF IInv, TypeOK
  <2>10. rcnt' \in [Vnodes -> Int]
    BY <2>2, <2>9 DEF Moved, One
  <2>11. \A v \in Vnodes : rcnt'[v] >= rcnt[v] + Took(v, th[t], c)
    BY <2>2, <2>5, <2>8, <2>9 DEF Moved, One, Took
  <2> QED
    BY <2>2, <2>7, <2>8, <2>10, <2>11, QuietStep
<1> QED
  BY <1>1, <1>2

\* The list is never empty: the root file system is on it.
LEMMA ListHas ==
    ASSUME IInv
    PROVE  /\ nshead \in Seq(Slots) /\ nshead # <<>>
           /\ \A i \in DOMAIN nshead : nshead[i] \in Slots /\ nspace[nshead[i]].state # "free"
           /\ Head(nshead) = nshead[1] /\ 1 \in DOMAIN nshead
           /\ Len(nshead) \in Nat /\ DOMAIN nshead = 1 .. Len(nshead)
<1>1. nshead \in Seq(Slots)
  BY DEF IInv, TypeOK
<1>2. PICK i \in DOMAIN nshead : nshead[i] = 0
  BY VnodeParts DEF IInv, SlotsTold, ListTold
<1>3. nshead # <<>>
  BY <1>1, <1>2
<1> QED
  BY <1>1, <1>3 DEF IInv, ListTold

LEMMA SyncsStep ==
    ASSUME IInv, NEW t \in Threads, sys_sync(t) \/ SyncNext(t)
    PROVE  IInv'
<1>1. CASE sys_sync(t)
  BY <1>1, ListHas, SyncAtStep DEF sys_sync, At
<1>2. CASE SyncNext(t)
  <2>1. PICK i \in 1 .. Len(nshead) - 1 : SyncAt(t, nshead[i + 1])
    BY <1>2 DEF SyncNext
  <2>2. i + 1 \in DOMAIN nshead
    BY <2>1, ListHas
  <2> QED
    BY <1>2, <2>1, <2>2, ListHas, SyncAtStep DEF SyncNext, At
<1> QED
  BY <1>1, <1>2
-----------------------------------------------------------------------------
(***************************************************************************)
(* Steps of sys_mount and sys_unmount.                                     *)
(***************************************************************************)
NsRecords == [state : States, dev : Devices \cup {0}, mount : Vnodes \cup {NoVnode}]

\* A slot that is not mounted, and will not be, changes.
LEMMA QuietSlot ==
    ASSUME IInv, NEW s \in Slots, NEW r \in NsRecords,
           nspace' = [nspace EXCEPT ![s] = r],
           nspace[s].state # "mounted", r.state # "mounted", mounted' = mounted
    PROVE  /\ nspace' \in [Slots -> NsRecords]
           /\ nspace'[s] = r /\ \A x \in Slots \ {s} : nspace'[x] = nspace[x]
           /\ \A v \in Vnodes : /\ Mounted(v)' <=> Mounted(v)
                                /\ MountsOn(v)' = MountsOn(v) /\ RootRef(v)' = RootRef(v)
           /\ PointsAgree' /\ HangsTogether'
<1>1. nspace \in [Slots -> NsRecords]
  BY DEF IInv, TypeOK, NsRecords
<1>2. /\ nspace' \in [Slots -> NsRecords]
      /\ nspace'[s] = r /\ \A x \in Slots \ {s} : nspace'[x] = nspace[x]
  BY <1>1
<1>3. \A x \in Slots : nspace'[x].state = "mounted" <=> nspace[x].state = "mounted"
  BY <1>2
<1>4. \A x \in Slots : nspace[x].state = "mounted" => nspace'[x] = nspace[x]
  BY <1>2
<1>5. \A v \in Vnodes : /\ Mounted(v)' <=> Mounted(v)
                        /\ MountsOn(v)' = MountsOn(v) /\ RootRef(v)' = RootRef(v)
  <2> TAKE v \in Vnodes
  <2>1. v[1] \in Slots
    BY VnodeParts
  <2>2. Mounted(v)' <=> Mounted(v)
    BY <1>3, <2>1 DEF Mounted
  <2>3. MountsOn(v)' = MountsOn(v)
    BY <1>3, <1>4 DEF MountsOn
  <2>4. RootRef(v)' = RootRef(v)
    BY <1>3, <2>1 DEF RootRef
  <2> QED
    BY <2>2, <2>3, <2>4
<1>6. Live' = Live
  BY <1>3 DEF Live
<1>7. \A x \in Live : Parent(x)' = Parent(x) /\ nspace'[x].mount = nspace[x].mount
  BY <1>4 DEF Live, Parent
<1>8. PointsAgree'
  BY <1>6, <1>7 DEF IInv, MountTreeSound, PointsAgree
<1>9. HangsTogether'
  BY <1>6, <1>7 DEF IInv, MountTreeSound, HangsTogether
<1> QED
  BY <1>2, <1>5, <1>8, <1>9

\* A list without repetition is as long as the set of its elements.
LEMMA ListLength ==
    ASSUME NEW S, NEW l \in Seq(S), IsFiniteSet(S),
           \A i, j \in DOMAIN l : l[i] = l[j] => i = j
    PROVE  Cardinality({l[i] : i \in DOMAIN l}) = Len(l)
<1>1. Len(l) \in Nat /\ DOMAIN l = 1 .. Len(l)
  OBVIOUS
<1> DEFINE R == {l[i] : i \in DOMAIN l}
<1>2. [i \in 1 .. Len(l) |-> l[i]] \in Bijection(1 .. Len(l), R)
  BY <1>1 DEF Bijection, Injection, Surjection, IsInjective
<1>3. ExistsBijection(1 .. Len(l), R)
  BY <1>2 DEF ExistsBijection
<1>4. IsFiniteSet(1 .. Len(l)) /\ Cardinality(1 .. Len(l)) = Len(l)
  BY <1>1, FS_Interval
<1> QED
  BY <1>3, <1>4, FS_Bijection

\* The list of the next state has each slot in use, and each once.
LEMMA ListedNext ==
    ASSUME nshead' \in Seq(Slots), ListTold'
    PROVE  Listed'
<1>1. {nshead'[i] : i \in DOMAIN nshead'} = (Slots \ FreeSlots)'
  <2>1. \A i \in DOMAIN nshead' : nshead'[i] \in Slots
    OBVIOUS
  <2> QED
    BY <2>1 DEF ListTold, FreeSlots
<1>2. Cardinality({nshead'[i] : i \in DOMAIN nshead'}) = Len(nshead')
  BY VnodeParts, ListLength DEF ListTold
<1> QED
  BY <1>1, <1>2 DEF Listed

\* A slot is taken: it goes to the front of the list.
LEMMA TakeSlot ==
    ASSUME IInv, NEW s \in Slots, nspace[s].state = "free",
           nspace'[s].state # "free", \A x \in Slots \ {s} : nspace'[x] = nspace[x],
           nshead' = <<s>> \o nshead
    PROVE  /\ nshead' \in Seq(Slots) /\ ListTold' /\ Listed'
           /\ Cardinality((Slots \ FreeSlots)') = Cardinality(Slots \ FreeSlots) + 1
<1>1. /\ nshead \in Seq(Slots) /\ Len(nshead) \in Nat
      /\ DOMAIN nshead = 1 .. Len(nshead) /\ <<s>> \in Seq(Slots) /\ Len(<<s>>) = 1
  BY ListHas
<1>2. /\ nshead' \in Seq(Slots) /\ Len(nshead') = Len(nshead) + 1
      /\ DOMAIN nshead' = 1 .. Len(nshead) + 1
      /\ nshead'[1] = s /\ \A i \in 2 .. Len(nshead) + 1 : nshead'[i] = nshead[i - 1]
  BY <1>1, ConcatProperties
<1>3. \A i \in DOMAIN nshead : /\ nshead[i] \in Slots \ {s} /\ nshead'[i + 1] = nshead[i]
                               /\ i + 1 \in DOMAIN nshead'
  BY <1>1, <1>2 DEF IInv, ListTold
<1>4. \A i \in DOMAIN nshead' : i = 1 \/ (i - 1 \in DOMAIN nshead /\ nshead'[i] = nshead[i - 1])
  BY <1>1, <1>2
<1>5. ListTold'
  <2>1. \A i \in DOMAIN nshead' : nspace'[nshead'[i]].state # "free"
    <3> TAKE i \in DOMAIN nshead'
    <3>1. CASE i = 1
      BY <1>2, <3>1
    <3>2. CASE i # 1
      <4>1. PICK m \in DOMAIN nshead : nshead'[i] = nshead[m]
        BY <1>4, <3>2
      <4>2. nshead[m] \in Slots \ {s} /\ nspace[nshead[m]].state # "free"
        BY <1>3 DEF IInv, ListTold
      <4> QED
        BY <4>1, <4>2
    <3> QED
      BY <3>1, <3>2
  <2>2. \A x \in Slots : nspace'[x].state # "free" => \E i \in DOMAIN nshead' : nshead'[i] = x
    <3> TAKE x \in Slots
    <3>1. CASE x = s
      BY <1>1, <1>2, <3>1
    <3>2. CASE x # s
      BY <1>3, <3>2 DEF IInv, ListTold
    <3> QED
      BY <3>1, <3>2
  <2>3. \A i, j \in DOMAIN nshead' : nshead'[i] = nshead'[j] => i = j
    <3> TAKE i, j \in DOMAIN nshead'
    <3>1. i \in Int /\ j \in Int
      BY <1>1, <1>2
    <3>2. CASE i = 1 \/ j = 1
      BY <1>2, <1>3, <1>4, <3>2
    <3>3. CASE i # 1 /\ j # 1
      BY <1>4, <3>1, <3>3 DEF IInv, ListTold
    <3> QED
      BY <3>2, <3>3
  <2> QED
    BY <2>1, <2>2, <2>3 DEF ListTold
<1>6. Listed'
  BY <1>2, <1>5, ListedNext
<1> QED
  BY <1>2, <1>5, <1>6 DEF IInv, MountTreeSound, Listed

\* A slot is given back: it is taken off the list.
LEMMA GiveSlot ==
    ASSUME IInv, NEW s \in Slots, nspace[s].state # "free",
           nspace'[s].state = "free", \A x \in Slots \ {s} : nspace'[x] = nspace[x],
           nshead' = Unlisted(s)
    PROVE  /\ nshead' \in Seq(Slots) /\ ListTold' /\ Listed'
           /\ Cardinality((Slots \ FreeSlots)') = Cardinality(Slots \ FreeSlots) - 1
<1>1. nshead \in Seq(Slots) /\ Len(nshead) \in Nat /\ DOMAIN nshead = 1 .. Len(nshead)
  BY ListHas
<1>2. PICK k : k = CHOOSE i \in DOMAIN nshead : nshead[i] = s
  OBVIOUS
<1>3. k \in DOMAIN nshead /\ nshead[k] = s
  BY <1>2 DEF IInv, ListTold
<1>4. nshead' = [i \in 1 .. Len(nshead) - 1 |-> IF i < k THEN nshead[i] ELSE nshead[i + 1]]
  BY <1>2 DEF Unlisted
<1>5. /\ Len(nshead) - 1 \in Nat
      /\ \A i \in 1 .. Len(nshead) - 1 : nshead'[i] \in Slots
  BY <1>1, <1>3, <1>4
<1>6. nshead' \in Seq(Slots) /\ Len(nshead') = Len(nshead) - 1
      /\ DOMAIN nshead' = 1 .. Len(nshead) - 1
  BY <1>4, <1>5
<1>7. \A i, j \in DOMAIN nshead : nshead[i] = nshead[j] => i = j
  BY DEF IInv, ListTold
<1>8. \A i \in DOMAIN nshead' : \E m \in DOMAIN nshead \ {k} :
         nshead'[i] = nshead[m] /\ m = IF i < k THEN i ELSE i + 1
  <2> TAKE i \in DOMAIN nshead'
  <2>1. PICK m : m = IF i < k THEN i ELSE i + 1
    OBVIOUS
  <2>2. m \in DOMAIN nshead \ {k}
    BY <1>1, <1>3, <1>6, <2>1
  <2>3. nshead'[i] = nshead[m]
    BY <1>4, <1>6, <2>1
  <2> QED
    BY <2>1, <2>2, <2>3
<1>9. \A m \in DOMAIN nshead \ {k} : \E i \in DOMAIN nshead' : nshead'[i] = nshead[m]
  <2> TAKE m \in DOMAIN nshead \ {k}
  <2>1. CASE m < k
    BY <1>1, <1>3, <1>4, <1>6, <2>1
  <2>2. CASE m > k
    <3>1. m - 1 \in DOMAIN nshead' /\ nshead'[m - 1] = nshead[m]
      BY <1>1, <1>3, <1>4, <1>6, <2>2
    <3> QED
      BY <3>1
  <2> QED
    BY <1>1, <1>3, <2>1, <2>2
<1>10. ListTold'
  <2>1. \A i \in DOMAIN nshead' : nspace'[nshead'[i]].state # "free"
    <3> TAKE i \in DOMAIN nshead'
    <3>1. PICK m \in DOMAIN nshead \ {k} : nshead'[i] = nshead[m]
      BY <1>8
    <3>2. nshead[m] \in Slots \ {s} /\ nspace[nshead[m]].state # "free"
      BY <1>1, <1>3, <1>7 DEF IInv, ListTold
    <3> QED
      BY <3>1, <3>2
  <2>2. \A x \in Slots : nspace'[x].state # "free" => \E i \in DOMAIN nshead' : nshead'[i] = x
    <3> SUFFICES ASSUME NEW x \in Slots, nspace'[x].state # "free"
                 PROVE  \E i \in DOMAIN nshead' : nshead'[i] = x
      OBVIOUS
    <3>1. x # s /\ nspace[x].state # "free"
      OBVIOUS
    <3>2. PICK m \in DOMAIN nshead : nshead[m] = x
      BY <3>1 DEF IInv, ListTold
    <3>3. m # k
      BY <1>3, <3>1, <3>2
    <3> QED
      BY <1>9, <3>2, <3>3
  <2>3. \A i, j \in DOMAIN nshead' : nshead'[i] = nshead'[j] => i = j
    <3> SUFFICES ASSUME NEW i \in DOMAIN nshead', NEW j \in DOMAIN nshead',
                        nshead'[i] = nshead'[j]
                 PROVE  i = j
      OBVIOUS
    <3>1. PICK m \in DOMAIN nshead \ {k} :
             nshead'[i] = nshead[m] /\ m = IF i < k THEN i ELSE i + 1
      BY <1>8
    <3>2. PICK n \in DOMAIN nshead \ {k} :
             nshead'[j] = nshead[n] /\ n = IF j < k THEN j ELSE j + 1
      BY <1>8
    <3>3. m = n
      BY <1>7, <3>1, <3>2
    <3>4. i \in Int /\ j \in Int /\ k \in Int
      BY <1>1, <1>3, <1>6
    <3> QED
      BY <3>1, <3>2, <3>3, <3>4
  <2> QED
    BY <2>1, <2>2, <2>3 DEF ListTold
<1>11. Listed'
  BY <1>6, <1>10, ListedNext
<1> QED
  BY <1>1, <1>6, <1>10, <1>11 DEF IInv, MountTreeSound, Listed

\* A slot that a call holds is neither free nor the root file system's.
LEMMA SlotHeld ==
    ASSUME IInv, NEW t \in Threads
    PROVE  /\ th[t].slot \in Slots
           /\ th[t].at \in {"mounting", "unmounting", "sync"} =>
                 nspace[th[t].slot].state # "free"
           /\ th[t].at \in {"mounting", "unmounting"} =>
                 th[t].slot # 0 /\ nspace[th[t].slot].state # "mounted"
<1>1. th[t] \in Calls /\ CallFits(th[t]) /\ nspace[0].state = "mounted"
  BY DEF IInv, TypeOK, CallsTold, SlotsTold
<1> QED
  BY <1>1 DEF Calls, CallFits

LEMMA MountBeginStep ==
    ASSUME IInv, NEW t \in Threads, NEW dev \in Devices, NEW s \in Slots,
           MountBegin(t, dev, s)
    PROVE  IInv'
<1>1. /\ Alive /\ th[t].at = "got" /\ th[t].first = NoVnode
      /\ nspace[s].state = "free" /\ fsrcnt' = fsrcnt + 1 /\ nshead' = <<s>> \o nshead
      /\ th' = [th EXCEPT ![t].at = "mounting", ![t].slot = s]
      /\ mounted' = mounted /\ rcnt' = rcnt /\ files' = files /\ dead' = dead
  BY DEF MountBegin, GotOne, At, FreeSlots
<1>2. PICK r : r = [FreeNs EXCEPT !.state = "mounting", !.dev = dev]
  OBVIOUS
<1>3. r \in NsRecords /\ r.state = "mounting" /\ r.mount = NoVnode
  BY <1>2 DEF FreeNs, NsRecords, States
<1>4. nspace' = [nspace EXCEPT ![s] = r]
  BY <1>2 DEF MountBegin
<1>5. /\ nspace' \in [Slots -> NsRecords]
      /\ nspace'[s] = r /\ \A x \in Slots \ {s} : nspace'[x] = nspace[x]
      /\ \A v \in Vnodes : /\ Mounted(v)' <=> Mounted(v)
                           /\ MountsOn(v)' = MountsOn(v) /\ RootRef(v)' = RootRef(v)
      /\ PointsAgree' /\ HangsTogether'
  BY <1>1, <1>3, <1>4, QuietSlot
<1>6. /\ nshead' \in Seq(Slots) /\ ListTold' /\ Listed'
      /\ Cardinality((Slots \ FreeSlots)') = Cardinality(Slots \ FreeSlots) + 1
  BY <1>1, <1>3, <1>5, TakeSlot
<1>7. PICK c : c = [th[t] EXCEPT !.at = "mounting", !.slot = s]
  OBVIOUS
<1>8. /\ th[t] \in Calls /\ CallFits(th[t]) /\ th[t].bvn \in Vnodes /\ Mounted(th[t].bvn)
  BY <1>1, CallSays
<1>9. /\ c \in Calls /\ c.at = "mounting" /\ c.slot = s /\ c.bvn = th[t].bvn
      /\ c.first = NoVnode /\ c.path = <<>>
  BY <1>1, <1>7, <1>8 DEF Calls, Places, CallFits
<1>10. th' = [th EXCEPT ![t] = c]
  BY <1>1, <1>7
<1>11. th'[t] = c /\ \A u \in Threads \ {t} : th'[u] = th[u]
  BY <1>10 DEF IInv, TypeOK
<1>12. s # 0
  BY <1>1 DEF IInv, SlotsTold
<1>13. TypeOK'
  <2>1. th' \in [Threads -> Calls]
    BY <1>9, <1>10 DEF IInv, TypeOK
  <2>2. fsrcnt' \in Nat /\ dead' \in {"no", "null", "lock", "freed"}
    BY <1>1 DEF IInv, TypeOK
  <2>3. mounted' \in [Vnodes -> Slots] /\ rcnt' \in [Vnodes -> Nat] /\ files' \in [Vnodes -> Nat]
    BY <1>1 DEF IInv, TypeOK
  <2> QED
    BY <1>5, <1>6, <2>1, <2>2, <2>3 DEF TypeOK, NsRecords
<1>14. CallsTold'
  <2>1. \A u \in Threads \ {t} : CallFits(th[u])'
    <3> TAKE u \in Threads \ {t}
    <3>1. CallFits(th[u]) /\ th'[u] = th[u]
      BY <1>11 DEF IInv, CallsTold
    <3>2. th[u].at \in {"mounting", "unmounting", "sync"} =>
             nspace'[th[u].slot] = nspace[th[u].slot]
      BY <1>1, <1>5, SlotHeld
    <3> QED
      BY <3>1, <3>2 DEF CallFits
  <2>2. CallFits(th[t])'
    BY <1>3, <1>5, <1>8, <1>9, <1>11, VnodeParts DEF CallFits
  <2>3. \A u \in Threads \ {t} : th[u].at = "mounting" => th[u].slot # s
    BY <1>1, SlotHeld
  <2> QED
    BY <1>9, <1>11, <2>1, <2>2, <2>3 DEF IInv, CallsTold
<1>15. SlotsTold'
  <2>1. \A u \in Threads : th[u].at = "unmounting" => th'[u] = th[u]
    BY <1>1, <1>11
  <2>2. 0 \in Slots
    BY VnodeParts
  <2>3. nspace'[0] = nspace[0]
    BY <1>5, <1>12, <2>2
  <2>4. \A x \in Slots \ {0} :
           nspace'[x].mount # NoVnode <=> nspace'[x].state \in {"mounted", "shutdown"}
    BY <1>3, <1>5 DEF IInv, SlotsTold
  <2>5. \A x \in Slots : nspace'[x].state = "shutdown" => nspace'[x] = nspace[x]
    BY <1>3, <1>5
  <2> QED
    <3>1. \A x \in Slots : nspace'[x].state = "shutdown" =>
             \E u \in Threads : th'[u].at = "unmounting" /\ th'[u].slot = x
      <4> SUFFICES ASSUME NEW x \in Slots, nspace'[x].state = "shutdown"
                   PROVE  \E u \in Threads : th'[u].at = "unmounting" /\ th'[u].slot = x
        OBVIOUS
      <4>1. PICK u \in Threads : th[u].at = "unmounting" /\ th[u].slot = x
        BY <1>1, <2>5 DEF IInv, SlotsTold
      <4> QED
        BY <2>1, <4>1
    <3>2. nspace'[0].state = "mounted" /\ nspace'[0].mount = NoVnode
      BY <2>3 DEF IInv, SlotsTold
    <3> QED
      BY <2>4, <3>1, <3>2 DEF SlotsTold
<1>16. EveryRefCounted'
  <2> SUFFICES ASSUME NEW v \in Vnodes PROVE rcnt'[v] >= HoldersOf(v)'
    BY DEF EveryRefCounted
  <2>1. \A u \in Threads : th'[u].bvn = th[u].bvn /\ th'[u].first = th[u].first
    BY <1>1, <1>9, <1>11
  <2>2. CallsAt(v)' = CallsAt(v) /\ PairsAt(v)' = PairsAt(v)
    BY <2>1 DEF CallsAt, PairsAt
  <2> QED
    BY <1>1, <1>5, <2>2 DEF IInv, EveryRefCounted, HoldersOf
<1>17. HeldIsMounted'
  <2>1. HeldParts
    BY HeldSplit DEF IInv
  <2>2. \A v \in Vnodes : Mounted(v)' <=> Mounted(v)
    BY <1>5
  <2>3. \A u \in Threads : /\ th'[u].at # "sync" => th[u].at # "sync"
                           /\ th'[u].bvn = th[u].bvn /\ th'[u].first = th[u].first
    BY <1>1, <1>9, <1>11
  <2>4. /\ \A u \in Threads : /\ th[u].bvn \in Vnodes \cup {NoVnode}
                              /\ th[u].first \in Vnodes \cup {NoVnode}
        /\ \A x \in Slots : nspace'[x].mount \in Vnodes \cup {NoVnode}
    BY <1>5 DEF IInv, TypeOK, Calls, NsRecords
  <2>5. \A x \in Slots : nspace'[x].mount # NoVnode => nspace'[x].mount = nspace[x].mount
    BY <1>3, <1>5
  <2>6. \A v \in Vnodes : files'[v] > 0 => Mounted(v)'
    BY <1>1, <2>1, <2>2 DEF HeldParts
  <2>7. \A x \in Slots : nspace'[x].mount # NoVnode => Mounted(nspace[x].mount)'
    BY <2>1, <2>2, <2>4, <2>5 DEF HeldParts
  <2>8. \A u \in Threads : /\ th'[u].at # "sync" /\ th'[u].bvn # NoVnode => Mounted(th[u].bvn)'
                           /\ th'[u].first # NoVnode => Mounted(th[u].first)'
    BY <2>1, <2>2, <2>3, <2>4 DEF HeldParts
  <2> QED
    BY <2>6, <2>7, <2>8, HeldSplitNext DEF HeldParts
<1>18. TypeCounted'
  <2>1. Closing' = Closing
    BY <1>1, <1>9, <1>11 DEF Closing
  <2>2. IsFiniteSet(Slots \ FreeSlots) /\ IsFiniteSet(Closing)
    BY VnodeParts, NameSpaceAssumption, FS_Subset DEF Closing
  <2>3. Cardinality(Slots \ FreeSlots) \in Nat /\ Cardinality(Closing) \in Nat
    BY <2>2, FS_CardinalityType
  <2>4. fsrcnt = Cardinality(Slots \ FreeSlots) + Cardinality(Closing)
    BY <1>1 DEF IInv, MountTreeSound, TypeCounted
  <2> QED
    BY <1>1, <1>6, <2>1, <2>3, <2>4 DEF TypeCounted
<1> QED
  BY <1>5, <1>6, <1>13, <1>14, <1>15, <1>16, <1>17, <1>18 DEF IInv, MountTreeSound

\* FreeNs is what a slot is before a mount and after an unmount.
LEMMA FreeRecord ==
    FreeNs \in NsRecords /\ FreeNs.state = "free" /\ FreeNs.mount = NoVnode
  BY DEF FreeNs, NsRecords, States

\* The numbers that fs->rcnt is made of.
LEMMA TypeCounts ==
    /\ Cardinality(Slots \ FreeSlots) \in Nat
    /\ IsFiniteSet(Closing) /\ Cardinality(Closing) \in Nat
<1>1. IsFiniteSet(Slots \ FreeSlots) /\ IsFiniteSet(Closing)
  BY VnodeParts, NameSpaceAssumption, FS_Subset DEF Closing
<1> QED
  BY <1>1, FS_CardinalityType

LEMMA TypeCountsNext == Cardinality((Slots \ FreeSlots)') \in Nat
<1>1. IsFiniteSet((Slots \ FreeSlots)')
  BY VnodeParts, FS_Subset
<1> QED
  BY <1>1, FS_CardinalityType

LEMMA MountFailsStep ==
    ASSUME IInv, NEW t \in Threads, MountFails(t)
    PROVE  IInv'
<1>1. /\ Alive /\ th[t].at = "mounting" /\ nshead' = Unlisted(th[t].slot)
      /\ nspace' = [nspace EXCEPT ![th[t].slot] = FreeNs] /\ fsrcnt' = fsrcnt - 1
      /\ rcnt' = Dropped(th[t].bvn) /\ th' = [th EXCEPT ![t] = Idle]
      /\ mounted' = mounted /\ files' = files /\ dead' = dead
  BY DEF MountFails, At, Return
<1>2. PICK s \in Slots : s = th[t].slot
  BY SlotHeld
<1>3. s # 0 /\ nspace[s].state = "mounting"
  BY <1>1, <1>2, SlotHeld DEF IInv, CallsTold, CallFits
<1>4. /\ nspace' \in [Slots -> NsRecords]
      /\ nspace'[s] = FreeNs /\ \A x \in Slots \ {s} : nspace'[x] = nspace[x]
      /\ \A v \in Vnodes : /\ Mounted(v)' <=> Mounted(v)
                           /\ MountsOn(v)' = MountsOn(v) /\ RootRef(v)' = RootRef(v)
      /\ PointsAgree' /\ HangsTogether'
  <2>1. PICK r \in NsRecords : r = FreeNs
    BY FreeRecord
  <2> QED
    BY <1>1, <1>2, <1>3, <2>1, FreeRecord, QuietSlot
<1>5. /\ nshead' \in Seq(Slots) /\ ListTold' /\ Listed'
      /\ Cardinality((Slots \ FreeSlots)') = Cardinality(Slots \ FreeSlots) - 1
  BY <1>1, <1>2, <1>3, <1>4, FreeRecord, GiveSlot
<1>6. /\ Idle \in Calls /\ Idle.at = "idle" /\ Idle.bvn = NoVnode /\ Idle.first = NoVnode
      /\ Idle.path = <<>>
  BY IdleCall DEF Settled, Idle
<1>7. th'[t] = Idle /\ \A u \in Threads \ {t} : th'[u] = th[u]
  BY <1>1 DEF IInv, TypeOK
<1>8. th[t].bvn \in Vnodes /\ th[t].first = NoVnode
  BY <1>1, CallSays DEF CallFits
<1>9. EveryRefCounted' /\ rcnt' \in [Vnodes -> Nat]
  <2> SUFFICES ASSUME NEW v \in Vnodes PROVE rcnt'[v] >= HoldersOf(v)' /\ rcnt'[v] \in Nat
    BY <1>1 DEF EveryRefCounted, Dropped, Moved
  <2>1. /\ Cardinality(CallsAt(v)') = Cardinality(CallsAt(v)) + One(v, Idle.bvn) - One(v, th[t].bvn)
        /\ Cardinality(PairsAt(v)') = Cardinality(PairsAt(v)) + One(v, Idle.first) - One(v, th[t].first)
    BY <1>1, CallMoves DEF IInv
  <2>2. One(v, Idle.bvn) = 0 /\ One(v, Idle.first) = 0 /\ One(v, th[t].first) = 0
        /\ One(v, th[t].bvn) \in {0, 1}
    BY <1>6, <1>8, VnodeParts DEF One
  <2>3. rcnt'[v] = rcnt[v] - One(v, th[t].bvn) /\ files'[v] = files[v]
    BY <1>1, VnodeParts DEF Dropped, Moved, One, IInv, TypeOK
  <2>4. rcnt[v] >= HoldersOf(v) /\ rcnt[v] \in Nat /\ files[v] \in Nat
    BY DEF IInv, EveryRefCounted, TypeOK
  <2>5. /\ Cardinality(CallsAt(v)) \in Nat /\ Cardinality(PairsAt(v)) \in Nat
        /\ Cardinality(CallsAt(v)') \in Nat
        /\ Cardinality(MountsOn(v)) \in Nat /\ RootRef(v) \in {0, 1}
    BY HolderSets, HolderSetsNext DEF HoldersCounted
  <2>6. MountsOn(v)' = MountsOn(v) /\ RootRef(v)' = RootRef(v)
    BY <1>4
  <2> QED
    BY <2>1, <2>2, <2>3, <2>4, <2>5, <2>6 DEF HoldersOf
<1>10. TypeCounted' /\ fsrcnt' \in Nat
  <2>1. Closing' = Closing
    BY <1>1, <1>6, <1>7 DEF Closing
  <2>2. fsrcnt = Cardinality(Slots \ FreeSlots) + Cardinality(Closing)
    BY <1>1 DEF IInv, MountTreeSound, TypeCounted
  <2>3. Cardinality((Slots \ FreeSlots)') \in Nat
    BY TypeCountsNext
  <2> QED
    BY <1>1, <1>5, <2>1, <2>2, <2>3, TypeCounts DEF TypeCounted
<1>11. TypeOK'
  <2>1. th' \in [Threads -> Calls]
    BY <1>1, <1>6 DEF IInv, TypeOK
  <2>2. /\ dead' \in {"no", "null", "lock", "freed"} /\ mounted' \in [Vnodes -> Slots]
        /\ files' \in [Vnodes -> Nat]
    BY <1>1 DEF IInv, TypeOK
  <2> QED
    BY <1>4, <1>5, <1>9, <1>10, <2>1, <2>2 DEF TypeOK, NsRecords
<1>12. CallsTold'
  <2>1. \A u \in Threads \ {t} : CallFits(th[u])'
    <3> TAKE u \in Threads \ {t}
    <3>1. CallFits(th[u]) /\ th'[u] = th[u]
      BY <1>7 DEF IInv, CallsTold
    <3>2. th[u].at \in {"mounting", "unmounting", "sync"} => th[u].slot # s
      BY <1>1, <1>2, <1>3, <3>1 DEF IInv, CallsTold, CallFits
    <3>3. th[u].at \in {"mounting", "unmounting", "sync"} =>
             nspace'[th[u].slot] = nspace[th[u].slot]
      BY <1>4, <3>2, SlotHeld
    <3> QED
      BY <3>1, <3>3 DEF CallFits
  <2>2. CallFits(th[t])'
    BY <1>6, <1>7 DEF CallFits
  <2> QED
    BY <1>6, <1>7, <2>1, <2>2 DEF IInv, CallsTold
<1>13. SlotsTold'
  <2>1. nspace'[0].state = "mounted" /\ nspace'[0].mount = NoVnode
    BY <1>3, <1>4, VnodeParts DEF IInv, SlotsTold
  <2>2. \A x \in Slots \ {0} :
           nspace'[x].mount # NoVnode <=> nspace'[x].state \in {"mounted", "shutdown"}
    BY <1>4, FreeRecord DEF IInv, SlotsTold
  <2>3. \A x \in Slots : nspace'[x].state = "shutdown" =>
           \E u \in Threads : th'[u].at = "unmounting" /\ th'[u].slot = x
    <3> SUFFICES ASSUME NEW x \in Slots, nspace'[x].state = "shutdown"
                 PROVE  \E u \in Threads : th'[u].at = "unmounting" /\ th'[u].slot = x
      OBVIOUS
    <3>1. nspace[x].state = "shutdown"
      BY <1>4, FreeRecord
    <3>2. PICK u \in Threads : th[u].at = "unmounting" /\ th[u].slot = x
      BY <1>1, <3>1 DEF IInv, SlotsTold
    <3> QED
      BY <1>1, <1>7, <3>2
  <2> QED
    BY <2>1, <2>2, <2>3 DEF SlotsTold
<1>14. HeldIsMounted'
  <2>1. HeldParts
    BY HeldSplit DEF IInv
  <2>2. \A v \in Vnodes : Mounted(v)' <=> Mounted(v)
    BY <1>4
  <2>3. /\ \A u \in Threads : /\ th[u].bvn \in Vnodes \cup {NoVnode}
                              /\ th[u].first \in Vnodes \cup {NoVnode}
        /\ \A x \in Slots : nspace'[x].mount \in Vnodes \cup {NoVnode}
    BY <1>4 DEF IInv, TypeOK, Calls, NsRecords
  <2>4. \A x \in Slots : nspace'[x].mount # NoVnode => nspace'[x].mount = nspace[x].mount
    BY <1>4, FreeRecord
  <2>5. \A v \in Vnodes : files'[v] > 0 => Mounted(v)'
    BY <1>1, <2>1, <2>2 DEF HeldParts
  <2>6. \A x \in Slots : nspace'[x].mount # NoVnode => Mounted(nspace[x].mount)'
    BY <2>1, <2>2, <2>3, <2>4 DEF HeldParts
  <2>7. \A u \in Threads : /\ th'[u].at # "sync" /\ th'[u].bvn # NoVnode => Mounted(th[u].bvn)'
                           /\ th'[u].first # NoVnode => Mounted(th[u].first)'
    BY <1>6, <1>7, <2>1, <2>2, <2>3 DEF HeldParts
  <2> QED
    BY <2>5, <2>6, <2>7, HeldSplitNext DEF HeldParts
<1> QED
  BY <1>4, <1>5, <1>9, <1>10, <1>11, <1>12, <1>13, <1>14 DEF IInv, MountTreeSound

LEMMA UnmountUnlistStep ==
    ASSUME IInv, NEW t \in Threads, UnmountUnlist(t)
    PROVE  IInv'
<1>1. Alive /\ th[t].at = "unmounting"
  BY DEF UnmountUnlist, At
<1>2. PICK s \in Slots : s = th[t].slot
  BY SlotHeld
<1>3. /\ nshead' = Unlisted(s) /\ nspace' = [nspace EXCEPT ![s] = FreeNs]
      /\ rcnt' = [v \in Vnodes |-> IF v[1] = s THEN 0 ELSE rcnt[v]]
      /\ mounted' = mounted /\ files' = files /\ fsrcnt' = fsrcnt /\ dead' = dead
  BY <1>2 DEF UnmountUnlist
<1>4. s # 0 /\ nspace[s].state = "shutdown" /\ nspace[s].mount = th[t].bvn
  BY <1>1, <1>2, SlotHeld DEF IInv, CallsTold, CallFits
<1>5. /\ nspace' \in [Slots -> NsRecords]
      /\ nspace'[s] = FreeNs /\ \A x \in Slots \ {s} : nspace'[x] = nspace[x]
      /\ \A v \in Vnodes : /\ Mounted(v)' <=> Mounted(v)
                           /\ MountsOn(v)' = MountsOn(v) /\ RootRef(v)' = RootRef(v)
      /\ PointsAgree' /\ HangsTogether'
  <2>1. PICK r \in NsRecords : r = FreeNs
    BY FreeRecord
  <2> QED
    BY <1>3, <1>4, <2>1, FreeRecord, QuietSlot
<1>6. /\ nshead' \in Seq(Slots) /\ ListTold' /\ Listed'
      /\ Cardinality((Slots \ FreeSlots)') = Cardinality(Slots \ FreeSlots) - 1
  BY <1>3, <1>4, <1>5, FreeRecord, GiveSlot
<1>7. \A u \in Threads : th[u] \in Calls /\ CallFits(th[u])
  BY DEF IInv, TypeOK, CallsTold
<1>8. PICK c : c = [th[t] EXCEPT !.at = "closing", !.dev = nspace[s].dev]
  OBVIOUS
<1>9. /\ c \in Calls /\ c.at = "closing" /\ c.bvn = th[t].bvn /\ c.first = NoVnode
      /\ c.path = <<>> /\ c.bvn # NoVnode
  <2>1. nspace[s].dev \in Devices \cup {0}
    BY DEF IInv, TypeOK
  <2>2. th[t].bvn # NoVnode /\ th[t].first = NoVnode /\ th[t].path = <<>>
    BY <1>1, <1>7 DEF CallFits
  <2> QED
    BY <1>7, <1>8, <2>1, <2>2 DEF Calls, Places
<1>10. th'[t] = c
  BY <1>1, <1>2, <1>8 DEF UnmountUnlist
<1>11. ASSUME NEW u \in Threads \ {t}, th[u].at = "sync", th[u].slot = s
       PROVE  /\ th'[u] \in Calls /\ th'[u].at = "stale" /\ th'[u].bvn = NoVnode
              /\ th'[u].first = NoVnode /\ th'[u].path = <<>>
              /\ th[u].bvn = RootOf(s) /\ th[u].first = NoVnode
  <2>1. th'[u] = [th[u] EXCEPT !.at = "stale", !.bvn = NoVnode]
    BY <1>2, <1>11 DEF UnmountUnlist
  <2> QED
    BY <1>7, <1>11, <2>1 DEF Calls, Places, CallFits
<1>12. ASSUME NEW u \in Threads \ {t}, ~(th[u].at = "sync" /\ th[u].slot = s)
       PROVE  th'[u] = th[u]
  BY <1>2, <1>12 DEF UnmountUnlist
<1>13. HeldParts
  BY HeldSplit DEF IInv
<1>14. EveryRefCounted' /\ rcnt' \in [Vnodes -> Nat]
  <2>1. rcnt \in [Vnodes -> Nat] /\ files \in [Vnodes -> Nat]
    BY DEF IInv, TypeOK
  <2>2. rcnt' \in [Vnodes -> Nat]
    BY <1>3, <2>1
  <2> SUFFICES ASSUME NEW v \in Vnodes PROVE rcnt'[v] >= HoldersOf(v)'
    BY <2>2 DEF EveryRefCounted
  <2>3. CASE v[1] = s
    <3>1. ~Mounted(v)
      BY <1>4, <2>3 DEF Mounted
    <3>2. \A u \in Threads : th'[u].bvn # v /\ th'[u].first # v
      <4> TAKE u \in Threads
      <4>1. CASE u = t
        BY <1>1, <1>9, <1>10, <1>13, <3>1, <4>1, VnodeParts DEF HeldParts
      <4>2. CASE u # t /\ th[u].at = "sync" /\ th[u].slot = s
        BY <1>11, <4>2, VnodeParts
      <4>3. CASE u # t /\ ~(th[u].at = "sync" /\ th[u].slot = s)
        <5>1. th'[u] = th[u]
          BY <1>12, <4>3
        <5>2. th[u].at = "sync" => th[u].bvn # v
          <6>1. PICK x \in Slots : x = th[u].slot
            BY SlotHeld
          <6>2. th[u].at = "sync" => th[u].bvn = RootOf(x) /\ x # s
            BY <1>7, <4>3, <6>1 DEF CallFits
          <6>3. RootOf(x)[1] = x
            BY VnodeParts
          <6> QED
            BY <2>3, <6>2, <6>3
        <5> QED
          BY <1>13, <3>1, <5>1, <5>2, VnodeParts DEF HeldParts
      <4> QED
        BY <4>1, <4>2, <4>3
    <3>3. CallsAt(v)' = {} /\ PairsAt(v)' = {}
      BY <3>2 DEF CallsAt, PairsAt
    <3>4. MountsOn(v) = {} /\ RootRef(v) = 0
      BY <1>4, <1>13, <2>3, <3>1, VnodeParts DEF MountsOn, RootRef, HeldParts
    <3>5. files[v] = 0
      BY <1>13, <2>1, <3>1 DEF HeldParts
    <3>6. Cardinality({}) = 0
      BY FS_EmptySet
    <3>7. MountsOn(v)' = {} /\ RootRef(v)' = 0 /\ files'[v] = 0
      BY <1>3, <1>5, <3>4, <3>5
    <3>8. HoldersOf(v)' = 0
      BY <3>3, <3>6, <3>7 DEF HoldersOf
    <3>9. rcnt'[v] = 0
      BY <1>3, <2>3
    <3> QED
      BY <3>8, <3>9
  <2>4. CASE v[1] # s
    <3>1. \A u \in Threads : /\ th'[u].bvn = v <=> th[u].bvn = v
                             /\ th'[u].first = v <=> th[u].first = v
      <4> TAKE u \in Threads
      <4>1. CASE u = t
        BY <1>1, <1>7, <1>9, <1>10, <4>1, VnodeParts DEF CallFits
      <4>2. CASE u # t /\ th[u].at = "sync" /\ th[u].slot = s
        <5>1. RootOf(s) # v /\ NoVnode # v
          BY <2>4, VnodeParts
        <5> QED
          BY <1>11, <4>2, <5>1
      <4>3. CASE u # t /\ ~(th[u].at = "sync" /\ th[u].slot = s)
        BY <1>12, <4>3
      <4> QED
        BY <4>1, <4>2, <4>3
    <3>2. CallsAt(v)' = CallsAt(v) /\ PairsAt(v)' = PairsAt(v)
      BY <3>1 DEF CallsAt, PairsAt
    <3>3. rcnt'[v] = rcnt[v] /\ files'[v] = files[v]
      BY <1>3, <2>4
    <3> QED
      BY <1>5, <3>2, <3>3 DEF IInv, EveryRefCounted, HoldersOf
  <2> QED
    BY <2>3, <2>4
<1>15. \A u \in Threads : th'[u] \in Calls
  BY <1>7, <1>9, <1>10, <1>11, <1>12
<1>16. TypeOK'
  <2>1. th' \in [Threads -> Calls]
    BY <1>15 DEF UnmountUnlist
  <2>2. /\ dead' \in {"no", "null", "lock", "freed"} /\ mounted' \in [Vnodes -> Slots]
        /\ files' \in [Vnodes -> Nat] /\ fsrcnt' \in Nat
    BY <1>3 DEF IInv, TypeOK
  <2> QED
    BY <1>5, <1>6, <1>14, <2>1, <2>2 DEF TypeOK, NsRecords
<1>17. CallsTold'
  <2>1. \A u \in Threads : CallFits(th[u])'
    <3> TAKE u \in Threads
    <3>1. CASE u = t
      BY <1>9, <1>10, <3>1 DEF CallFits
    <3>2. CASE u # t /\ th[u].at = "sync" /\ th[u].slot = s
      BY <1>11, <3>2 DEF CallFits
    <3>3. CASE u # t /\ ~(th[u].at = "sync" /\ th[u].slot = s)
      <4>1. CallFits(th[u]) /\ th'[u] = th[u]
        BY <1>7, <1>12, <3>3
      <4>2. th[u].at \in {"mounting", "unmounting", "sync"} => th[u].slot # s
        BY <1>1, <1>2, <1>4, <3>3, <4>1 DEF IInv, CallsTold, CallFits
      <4>3. th[u].at \in {"mounting", "unmounting", "sync"} =>
               nspace'[th[u].slot] = nspace[th[u].slot]
        BY <1>5, <4>2, SlotHeld
      <4> QED
        BY <4>1, <4>3 DEF CallFits
    <3> QED
      BY <3>1, <3>2, <3>3
  <2>2. \A u \in Threads : th'[u].at \in {"mounting", "unmounting"} => th'[u] = th[u]
    BY <1>9, <1>10, <1>11, <1>12
  <2> QED
    BY <2>1, <2>2 DEF IInv, CallsTold
<1>18. SlotsTold'
  <2>1. nspace'[0].state = "mounted" /\ nspace'[0].mount = NoVnode
    BY <1>4, <1>5, VnodeParts DEF IInv, SlotsTold
  <2>2. \A x \in Slots \ {0} :
           nspace'[x].mount # NoVnode <=> nspace'[x].state \in {"mounted", "shutdown"}
    BY <1>5, FreeRecord DEF IInv, SlotsTold
  <2>3. \A x \in Slots : nspace'[x].state = "shutdown" =>
           \E u \in Threads : th'[u].at = "unmounting" /\ th'[u].slot = x
    <3> SUFFICES ASSUME NEW x \in Slots, nspace'[x].state = "shutdown"
                 PROVE  \E u \in Threads : th'[u].at = "unmounting" /\ th'[u].slot = x
      OBVIOUS
    <3>1. nspace[x].state = "shutdown" /\ x # s
      BY <1>5, FreeRecord
    <3>2. PICK u \in Threads : th[u].at = "unmounting" /\ th[u].slot = x
      BY <1>1, <3>1 DEF IInv, SlotsTold
    <3>3. th'[u] = th[u]
      BY <1>2, <1>12, <3>1, <3>2
    <3> QED
      BY <3>2, <3>3
  <2> QED
    BY <2>1, <2>2, <2>3 DEF SlotsTold
<1>19. HeldIsMounted'
  <2>1. \A v \in Vnodes : Mounted(v)' <=> Mounted(v)
    BY <1>5
  <2>2. /\ \A u \in Threads : /\ th[u].bvn \in Vnodes \cup {NoVnode}
                              /\ th[u].first \in Vnodes \cup {NoVnode}
        /\ \A x \in Slots : nspace'[x].mount \in Vnodes \cup {NoVnode}
    BY <1>5 DEF IInv, TypeOK, Calls, NsRecords
  <2>3. \A x \in Slots : nspace'[x].mount # NoVnode => nspace'[x].mount = nspace[x].mount
    BY <1>5, FreeRecord
  <2>4. \A v \in Vnodes : files'[v] > 0 => Mounted(v)'
    BY <1>3, <1>13, <2>1 DEF HeldParts
  <2>5. \A x \in Slots : nspace'[x].mount # NoVnode => Mounted(nspace[x].mount)'
    BY <1>13, <2>1, <2>2, <2>3 DEF HeldParts
  <2>6. \A u \in Threads :
           \/ th'[u].bvn = NoVnode /\ th'[u].first = NoVnode
           \/ /\ th'[u].bvn = th[u].bvn /\ th'[u].first \in {th[u].first, NoVnode}
              /\ th'[u].at # "sync" => th[u].at # "sync"
    BY <1>1, <1>9, <1>10, <1>11, <1>12
  <2>7. \A u \in Threads : /\ th'[u].at # "sync" /\ th'[u].bvn # NoVnode => Mounted(th[u].bvn)'
                           /\ th'[u].first # NoVnode => Mounted(th[u].first)'
    BY <1>13, <2>1, <2>2, <2>6 DEF HeldParts
  <2> QED
    BY <2>4, <2>5, <2>7, HeldSplitNext DEF HeldParts
<1>20. TypeCounted'
  <2>1. Closing' = Closing \cup {t} /\ t \notin Closing
    BY <1>1, <1>9, <1>10, <1>11, <1>12 DEF Closing
  <2>2. Cardinality(Closing') = Cardinality(Closing) + 1
    BY <2>1, TypeCounts, FS_AddElement
  <2>3. fsrcnt = Cardinality(Slots \ FreeSlots) + Cardinality(Closing)
    BY <1>1 DEF IInv, MountTreeSound, TypeCounted
  <2> QED
    BY <1>3, <1>6, <2>2, <2>3, TypeCounts, TypeCountsNext DEF TypeCounted
<1> QED
  BY <1>5, <1>6, <1>14, <1>16, <1>17, <1>18, <1>19, <1>20 DEF IInv, MountTreeSound

LEMMA UnmountDoneStep ==
    ASSUME IInv, NEW t \in Threads, UnmountDone(t)
    PROVE  IInv'
<1>1. /\ Alive /\ th[t].at = "closing" /\ fsrcnt' = fsrcnt - 1
      /\ rcnt' = Dropped(th[t].bvn) /\ th' = [th EXCEPT ![t] = Idle]
      /\ nshead' = nshead /\ nspace' = nspace /\ mounted' = mounted
      /\ files' = files /\ dead' = dead
  BY DEF UnmountDone, At, Return
<1>2. /\ Idle \in Calls /\ Idle.at = "idle" /\ Idle.bvn = NoVnode /\ Idle.first = NoVnode
      /\ Idle.path = <<>>
  BY IdleCall DEF Settled, Idle
<1>3. th'[t] = Idle /\ \A u \in Threads \ {t} : th'[u] = th[u]
  BY <1>1 DEF IInv, TypeOK
<1>4. th[t].bvn \in Vnodes /\ th[t].first = NoVnode
  BY <1>1, CallSays DEF CallFits
<1>5. EveryRefCounted' /\ rcnt' \in [Vnodes -> Nat]
  <2> SUFFICES ASSUME NEW v \in Vnodes PROVE rcnt'[v] >= HoldersOf(v)' /\ rcnt'[v] \in Nat
    BY <1>1 DEF EveryRefCounted, Dropped, Moved
  <2>1. /\ Cardinality(CallsAt(v)') = Cardinality(CallsAt(v)) + One(v, Idle.bvn) - One(v, th[t].bvn)
        /\ Cardinality(PairsAt(v)') = Cardinality(PairsAt(v)) + One(v, Idle.first) - One(v, th[t].first)
    BY <1>1, CallMoves DEF IInv
  <2>2. One(v, Idle.bvn) = 0 /\ One(v, Idle.first) = 0 /\ One(v, th[t].first) = 0
        /\ One(v, th[t].bvn) \in {0, 1}
    BY <1>2, <1>4, VnodeParts DEF One
  <2>3. rcnt'[v] = rcnt[v] - One(v, th[t].bvn) /\ files'[v] = files[v]
    BY <1>1, VnodeParts DEF Dropped, Moved, One, IInv, TypeOK
  <2>4. rcnt[v] >= HoldersOf(v) /\ rcnt[v] \in Nat /\ files[v] \in Nat
    BY DEF IInv, EveryRefCounted, TypeOK
  <2>5. /\ Cardinality(CallsAt(v)) \in Nat /\ Cardinality(PairsAt(v)) \in Nat
        /\ Cardinality(CallsAt(v)') \in Nat
        /\ Cardinality(MountsOn(v)) \in Nat /\ RootRef(v) \in {0, 1}
    BY HolderSets, HolderSetsNext DEF HoldersCounted
  <2>6. MountsOn(v)' = MountsOn(v) /\ RootRef(v)' = RootRef(v)
    BY <1>1 DEF MountsOn, RootRef
  <2> QED
    BY <2>1, <2>2, <2>3, <2>4, <2>5, <2>6 DEF HoldersOf
<1>6. MountTreeSound' /\ fsrcnt' \in Nat
  <2>1. Live' = Live /\ FreeSlots' = FreeSlots /\ \A s : Parent(s)' = Parent(s)
    BY <1>1 DEF Live, FreeSlots, Parent
  <2>2. HangsTogether'
    BY <2>1 DEF IInv, MountTreeSound, HangsTogether
  <2>3. PointsAgree'
    BY <1>1, <2>1 DEF IInv, MountTreeSound, PointsAgree
  <2>4. Listed'
    BY <1>1, <2>1 DEF IInv, MountTreeSound, Listed
  <2>5. Closing' = Closing \ {t} /\ t \in Closing
    BY <1>1, <1>2, <1>3 DEF Closing
  <2>6. Cardinality(Closing') = Cardinality(Closing) - 1
    BY <2>5, TypeCounts, FS_RemoveElement, ZenonT(60)
  <2>7. Cardinality(Closing') \in Nat
    <3>1. IsFiniteSet(Closing')
      BY <2>5, TypeCounts, FS_Subset
    <3> QED
      BY <3>1, FS_CardinalityType
  <2>8. fsrcnt = Cardinality(Slots \ FreeSlots) + Cardinality(Closing)
    BY <1>1 DEF IInv, MountTreeSound, TypeCounted
  <2>9. TypeCounted' /\ fsrcnt' \in Nat
    BY <1>1, <2>1, <2>6, <2>7, <2>8, TypeCounts DEF TypeCounted
  <2> QED
    BY <2>2, <2>3, <2>4, <2>9 DEF MountTreeSound
<1>7. TypeOK'
  <2>1. th' \in [Threads -> Calls]
    BY <1>1, <1>2 DEF IInv, TypeOK
  <2> QED
    BY <1>1, <1>5, <1>6, <2>1 DEF IInv, TypeOK
<1>8. CallsTold'
  <2>1. \A u \in Threads \ {t} : CallFits(th[u])'
    BY <1>1, <1>3 DEF IInv, CallsTold, CallFits
  <2>2. CallFits(th[t])'
    BY <1>2, <1>3 DEF CallFits
  <2> QED
    BY <1>2, <1>3, <2>1, <2>2 DEF IInv, CallsTold
<1>9. SlotsTold'
  <2>1. \A x \in Slots : nspace[x].state = "shutdown" =>
           \E u \in Threads : th'[u].at = "unmounting" /\ th'[u].slot = x
    <3> SUFFICES ASSUME NEW x \in Slots, nspace[x].state = "shutdown"
                 PROVE  \E u \in Threads : th'[u].at = "unmounting" /\ th'[u].slot = x
      OBVIOUS
    <3>1. PICK u \in Threads : th[u].at = "unmounting" /\ th[u].slot = x
      BY <1>1 DEF IInv, SlotsTold
    <3> QED
      BY <1>1, <1>3, <3>1
  <2> QED
    BY <1>1, <2>1 DEF IInv, SlotsTold
<1>10. ListTold'
  BY <1>1 DEF IInv, ListTold
<1>11. HeldIsMounted'
  <2>1. HeldParts
    BY HeldSplit DEF IInv
  <2>2. HeldParts'
    BY <1>1, <1>2, <1>3, <2>1 DEF HeldParts, Mounted
  <2> QED
    BY <2>2, HeldSplitNext
<1> QED
  BY <1>5, <1>6, <1>7, <1>8, <1>9, <1>10, <1>11 DEF IInv

\* Only sys_sync has references to a name space that is not mounted.
LEMMA NobodyThere ==
    ASSUME IInv, NEW v \in Vnodes, ~Mounted(v)
    PROVE  /\ \A u \in Threads : th[u].bvn = v => th[u].at = "sync"
           /\ \A u \in Threads : th[u].first # v
           /\ \A x \in Slots : nspace[x].mount # v
           /\ files[v] = 0
<1>1. HeldParts
  BY HeldSplit DEF IInv
<1>2. files[v] \in Nat /\ v # NoVnode
  BY VnodeParts DEF IInv, TypeOK
<1> QED
  BY <1>1, <1>2 DEF HeldParts

\* The states of the slots in use change, and which are free does not.
LEMMA ListStays ==
    ASSUME IInv, nshead' = nshead,
           \A x \in Slots : nspace'[x].state = "free" <=> nspace[x].state = "free"
    PROVE  ListTold' /\ Listed' /\ FreeSlots' = FreeSlots
<1>1. \A i \in DOMAIN nshead : nshead[i] \in Slots
  BY ListHas
<1>2. FreeSlots' = FreeSlots
  BY DEF FreeSlots
<1>3. ListTold'
  BY <1>1 DEF IInv, ListTold
<1>4. Listed'
  BY <1>2 DEF IInv, MountTreeSound, Listed
<1> QED
  BY <1>2, <1>3, <1>4

LEMMA MountDoneStep ==
    ASSUME IInv, NEW t \in Threads, MountDone(t)
    PROVE  IInv'
<1>1. Alive /\ th[t].at = "mounting"
  BY DEF MountDone, At
<1>2. PICK s \in Slots : s = th[t].slot
  BY SlotHeld
<1>3. PICK m \in Vnodes : m = th[t].bvn
  BY <1>1, CallSays
<1>4. /\ m # rootvn /\ mounted[m] = 0
      /\ nspace' = [nspace EXCEPT ![s].state = "mounted", ![s].mount = m]
      /\ mounted' = [mounted EXCEPT ![m] = s]
      /\ rcnt' = [rcnt EXCEPT ![RootOf(s)] = 1]
      /\ th' = [th EXCEPT ![t] = Idle]
      /\ nshead' = nshead /\ files' = files /\ fsrcnt' = fsrcnt /\ dead' = dead
  BY <1>2, <1>3 DEF MountDone, Return
<1>5. s # 0 /\ nspace[s].state = "mounting" /\ Mounted(m) /\ m[1] # s /\ th[t].first = NoVnode
  BY <1>1, <1>2, <1>3, SlotHeld, CallSays DEF CallFits, Mounted
<1>6. nspace \in [Slots -> NsRecords] /\ rcnt \in [Vnodes -> Nat] /\ files \in [Vnodes -> Nat]
      /\ mounted \in [Vnodes -> Slots] /\ th \in [Threads -> Calls]
  BY DEF IInv, TypeOK, NsRecords
<1>7. /\ nspace' \in [Slots -> NsRecords]
      /\ nspace'[s].state = "mounted" /\ nspace'[s].mount = m
      /\ \A x \in Slots \ {s} : nspace'[x] = nspace[x]
  <2>1. PICK r : r = [nspace[s] EXCEPT !.state = "mounted", !.mount = m]
    OBVIOUS
  <2>2. r \in NsRecords /\ r.state = "mounted" /\ r.mount = m
    BY <1>6, <2>1 DEF NsRecords, States
  <2>3. nspace' = [nspace EXCEPT ![s] = r]
    BY <1>4, <2>1
  <2> QED
    BY <1>6, <2>2, <2>3
<1>8. /\ Idle \in Calls /\ Idle.at = "idle" /\ Idle.bvn = NoVnode /\ Idle.first = NoVnode
      /\ Idle.path = <<>>
  BY IdleCall DEF Settled, Idle
<1>9. th'[t] = Idle /\ \A u \in Threads \ {t} : th'[u] = th[u]
  BY <1>4, <1>6
<1>10. \A v \in Vnodes : Mounted(v)' <=> Mounted(v) \/ v[1] = s
  <2> TAKE v \in Vnodes
  <2>1. v[1] \in Slots
    BY VnodeParts
  <2> QED
    BY <1>7, <2>1 DEF Mounted
<1>11. HeldParts
  BY HeldSplit DEF IInv
<1>12. rcnt' \in [Vnodes -> Nat] /\ mounted' \in [Vnodes -> Slots]
  BY <1>4, <1>6
<1>13. EveryRefCounted'
  <2> SUFFICES ASSUME NEW v \in Vnodes PROVE rcnt'[v] >= HoldersOf(v)'
    BY DEF EveryRefCounted
  <2>1. CASE v[1] = s
    <3>1. ~Mounted(v) /\ v # m
      BY <1>5, <2>1 DEF Mounted
    <3>2. /\ \A u \in Threads : th[u].bvn = v => th[u].at = "sync"
          /\ \A u \in Threads : th[u].first # v
          /\ \A x \in Slots : nspace[x].mount # v
          /\ files[v] = 0
      BY <3>1, NobodyThere
    <3>3. \A u \in Threads : th[u].at = "sync" => th[u].bvn # v
      <4> TAKE u \in Threads
      <4>1. PICK x \in Slots : x = th[u].slot
        BY SlotHeld
      <4>2. th[u].at = "sync" => th[u].bvn = RootOf(x) /\ x # s
        BY <1>5, <4>1 DEF IInv, CallsTold, CallFits
      <4>3. RootOf(x)[1] = x
        BY VnodeParts
      <4> QED
        BY <2>1, <4>2, <4>3
    <3>4. CallsAt(v)' = {} /\ PairsAt(v)' = {}
      BY <1>8, <1>9, <3>2, <3>3, VnodeParts DEF CallsAt, PairsAt
    <3>5. MountsOn(v)' = {}
      BY <1>7, <3>1, <3>2 DEF MountsOn
    <3>6. Cardinality({}) = 0
      BY FS_EmptySet
    <3>7. HoldersOf(v)' = RootRef(v)'
      BY <1>4, <3>2, <3>4, <3>5, <3>6, HolderSetsNext DEF HoldersOf, HoldersCounted
    <3>8. CASE v = RootOf(s)
      <4>1. rcnt'[v] = 1
        BY <1>4, <1>6, <3>8
      <4>2. RootRef(v)' \in {0, 1}
        BY HolderSetsNext DEF HoldersCounted
      <4> QED
        BY <3>7, <4>1, <4>2
    <3>9. CASE v # RootOf(s)
      <4>1. RootRef(v)' = 0
        BY <2>1, <3>9 DEF RootRef
      <4> QED
        BY <1>12, <3>7, <4>1
    <3> QED
      BY <3>8, <3>9
  <2>2. CASE v[1] # s
    <3>1. /\ Cardinality(CallsAt(v)') =
                Cardinality(CallsAt(v)) + One(v, Idle.bvn) - One(v, th[t].bvn)
          /\ Cardinality(PairsAt(v)') =
                Cardinality(PairsAt(v)) + One(v, Idle.first) - One(v, th[t].first)
      BY <1>4, CallMoves DEF IInv
    <3>2. /\ One(v, Idle.bvn) = 0 /\ One(v, Idle.first) = 0 /\ One(v, th[t].first) = 0
          /\ One(v, th[t].bvn) = One(v, m) /\ One(v, m) \in {0, 1}
      BY <1>3, <1>5, <1>8, VnodeParts DEF One
    <3>3. Cardinality(MountsOn(v)') = Cardinality(MountsOn(v)) + One(v, m)
      <4>1. s \notin MountsOn(v) /\ MountsOn(v)' \ {s} = MountsOn(v) \ {s}
        BY <1>5, <1>7 DEF MountsOn
      <4>2. s \in MountsOn(v)' <=> v = m
        BY <1>7 DEF MountsOn
      <4>3. IsFiniteSet(MountsOn(v)) /\ IsFiniteSet(MountsOn(v)')
            /\ Cardinality(MountsOn(v)) \in Nat
        BY HolderSets, HolderSetsNext DEF HoldersCounted
      <4>4. Cardinality(MountsOn(v)') = Cardinality(MountsOn(v))
               - (IF s \in MountsOn(v) THEN 1 ELSE 0) + (IF s \in MountsOn(v)' THEN 1 ELSE 0)
        BY <4>1, <4>3, SetMoves
      <4> QED
        BY <4>1, <4>2, <4>3, <4>4 DEF One
    <3>4. RootRef(v)' = RootRef(v)
      BY <1>7, <2>2, VnodeParts DEF RootRef
    <3>5. rcnt'[v] = rcnt[v] /\ files'[v] = files[v]
      <4>1. v # RootOf(s)
        BY <2>2, VnodeParts
      <4> QED
        BY <1>4, <1>6, <4>1
    <3>6. rcnt[v] >= HoldersOf(v) /\ rcnt[v] \in Nat /\ files[v] \in Nat
      BY <1>6 DEF IInv, EveryRefCounted
    <3>7. /\ Cardinality(CallsAt(v)) \in Nat /\ Cardinality(PairsAt(v)) \in Nat
          /\ Cardinality(MountsOn(v)) \in Nat /\ RootRef(v) \in {0, 1}
      BY HolderSets DEF HoldersCounted
    <3> QED
      BY <3>1, <3>2, <3>3, <3>4, <3>5, <3>6, <3>7 DEF HoldersOf
  <2> QED
    BY <2>1, <2>2
<1>14. TypeOK'
  <2>1. th' \in [Threads -> Calls]
    BY <1>4, <1>6, <1>8
  <2>2. /\ dead' \in {"no", "null", "lock", "freed"} /\ files' \in [Vnodes -> Nat]
        /\ fsrcnt' \in Nat /\ nshead' \in Seq(Slots)
    BY <1>4 DEF IInv, TypeOK
  <2> QED
    BY <1>7, <1>12, <2>1, <2>2 DEF TypeOK, NsRecords
<1>15. CallsTold'
  <2>1. \A u \in Threads \ {t} : CallFits(th[u])'
    <3> TAKE u \in Threads \ {t}
    <3>1. CallFits(th[u]) /\ th'[u] = th[u]
      BY <1>9 DEF IInv, CallsTold
    <3>2. th[u].at \in {"mounting", "unmounting", "sync"} => th[u].slot # s
      BY <1>1, <1>2, <1>5, <3>1 DEF IInv, CallsTold, CallFits
    <3>3. th[u].at \in {"mounting", "unmounting", "sync"} =>
             nspace'[th[u].slot] = nspace[th[u].slot]
      BY <1>7, <3>2, SlotHeld
    <3> QED
      BY <3>1, <3>3 DEF CallFits
  <2>2. CallFits(th[t])'
    BY <1>8, <1>9 DEF CallFits
  <2> QED
    BY <1>8, <1>9, <2>1, <2>2 DEF IInv, CallsTold
<1>16. SlotsTold'
  <2>1. nspace'[0].state = "mounted" /\ nspace'[0].mount = NoVnode
    BY <1>5, <1>7, VnodeParts DEF IInv, SlotsTold
  <2>2. \A x \in Slots \ {0} :
           nspace'[x].mount # NoVnode <=> nspace'[x].state \in {"mounted", "shutdown"}
    BY <1>7, VnodeParts DEF IInv, SlotsTold
  <2>3. \A x \in Slots : nspace'[x].state = "shutdown" =>
           \E u \in Threads : th'[u].at = "unmounting" /\ th'[u].slot = x
    <3> SUFFICES ASSUME NEW x \in Slots, nspace'[x].state = "shutdown"
                 PROVE  \E u \in Threads : th'[u].at = "unmounting" /\ th'[u].slot = x
      OBVIOUS
    <3>1. nspace[x].state = "shutdown"
      BY <1>7
    <3>2. PICK u \in Threads : th[u].at = "unmounting" /\ th[u].slot = x
      BY <1>1, <3>1 DEF IInv, SlotsTold
    <3> QED
      BY <1>1, <1>9, <3>2
  <2> QED
    BY <2>1, <2>2, <2>3 DEF SlotsTold
<1>17. ListTold' /\ Listed' /\ FreeSlots' = FreeSlots
  BY <1>4, <1>5, <1>7, ListStays
<1>18. HeldIsMounted'
  <2>1. /\ \A u \in Threads : /\ th[u].bvn \in Vnodes \cup {NoVnode}
                              /\ th[u].first \in Vnodes \cup {NoVnode}
        /\ \A x \in Slots : nspace'[x].mount \in Vnodes \cup {NoVnode}
    BY <1>6, <1>7 DEF Calls, NsRecords
  <2>2. \A v \in Vnodes : files'[v] > 0 => Mounted(v)'
    BY <1>4, <1>10, <1>11 DEF HeldParts
  <2>3. \A x \in Slots : nspace'[x].mount # NoVnode => Mounted(nspace[x].mount)'
    BY <1>5, <1>7, <1>10, <1>11, <2>1 DEF HeldParts
  <2>4. \A u \in Threads : /\ th'[u].at # "sync" /\ th'[u].bvn # NoVnode => Mounted(th[u].bvn)'
                           /\ th'[u].first # NoVnode => Mounted(th[u].first)'
    BY <1>8, <1>9, <1>10, <1>11, <2>1 DEF HeldParts
  <2> QED
    BY <2>2, <2>3, <2>4, HeldSplitNext DEF HeldParts
<1>19. Live' = Live \cup {s} /\ s \notin Live
  BY <1>5, <1>7 DEF Live
<1>20. PointsAgree'
  <2> SUFFICES ASSUME NEW v \in Vnodes, NEW x \in Slots \ {0}
               PROVE  mounted'[v] = x <=> x \in Live' /\ nspace'[x].mount = v
    BY DEF PointsAgree
  <2>1. mounted[v] = x <=> x \in Live /\ nspace[x].mount = v
    BY DEF IInv, MountTreeSound, PointsAgree
  <2>2. mounted'[v] = IF v = m THEN s ELSE mounted[v]
    BY <1>4, <1>6
  <2>3. CASE x = s
    BY <1>7, <1>19, <2>1, <2>2, <2>3
  <2>4. CASE x # s
    BY <1>4, <1>7, <1>19, <2>1, <2>2, <2>4
  <2> QED
    BY <2>3, <2>4
<1>21. HangsTogether'
  <2> SUFFICES ASSUME NEW S \in SUBSET Live', S # {}
               PROVE  \E x \in S : Parent(x)' \notin S
    BY DEF HangsTogether
  <2>1. \A x \in Live : /\ Parent(x)' = Parent(x) /\ Parent(x) # s
    <3> TAKE x \in Live
    <3>1. x \in Slots \ {0, s} /\ nspace[x].state = "mounted" /\ nspace'[x] = nspace[x]
      BY <1>5, <1>7 DEF Live
    <3>2. nspace[x].mount # NoVnode
      BY <3>1 DEF IInv, SlotsTold
    <3>3. Mounted(nspace[x].mount)
      BY <1>11, <3>1, <3>2 DEF HeldParts
    <3> QED
      BY <1>5, <3>1, <3>3 DEF Parent, Mounted
  <2>2. Parent(s)' = m[1]
    BY <1>7 DEF Parent
  <2>3. CASE S \ {s} = {}
    BY <1>5, <2>2, <2>3
  <2>4. CASE S \ {s} # {}
    <3>1. S \ {s} \in SUBSET Live
      BY <1>19
    <3>2. PICK x \in S \ {s} : Parent(x) \notin S \ {s}
      BY <2>4, <3>1 DEF IInv, MountTreeSound, HangsTogether
    <3> QED
      BY <2>1, <3>1, <3>2
  <2> QED
    BY <2>3, <2>4
<1>22. TypeCounted'
  <2>1. Closing' = Closing
    BY <1>1, <1>8, <1>9 DEF Closing
  <2> QED
    BY <1>4, <1>17, <2>1 DEF IInv, MountTreeSound, TypeCounted, Alive
<1> QED
  BY <1>13, <1>14, <1>15, <1>16, <1>17, <1>18, <1>20, <1>21, <1>22 DEF IInv, MountTreeSound

\* sys_unmount's look at the counts: only the name space itself and this call
\* have a reference to anything in it.
LEMMA NobodyElse ==
    ASSUME IInv, Alive, NEW t \in Threads, NEW s \in Slots, s # 0,
           th[t].at = "got", th[t].bvn = RootOf(s), nspace[s].state = "mounted",
           ~InUse(s), NEW v \in Vnodes, v[1] = s
    PROVE  /\ \A u \in Threads \ {t} : th[u].bvn # v
           /\ \A u \in Threads : th[u].first # v
           /\ \A x \in Slots : nspace[x].mount # v
           /\ files[v] = 0
<1>1. /\ IsFiniteSet(CallsAt(v)) /\ IsFiniteSet(PairsAt(v)) /\ IsFiniteSet(MountsOn(v))
      /\ Cardinality(CallsAt(v)) \in Nat /\ Cardinality(PairsAt(v)) \in Nat
      /\ Cardinality(MountsOn(v)) \in Nat
  BY HolderSets DEF HoldersCounted
<1>2. rcnt[v] >= HoldersOf(v) /\ rcnt[v] \in Nat /\ files[v] \in Nat
  BY DEF IInv, EveryRefCounted, TypeOK
<1>3. /\ Cardinality(CallsAt(v) \ {t}) = 0 /\ Cardinality(PairsAt(v)) = 0
      /\ Cardinality(MountsOn(v)) = 0 /\ files[v] = 0
  <2>1. CASE v = RootOf(s)
    <3>1. rcnt[v] = 2 /\ RootRef(v) = 1
      BY <2>1 DEF InUse, RootRef
    <3>2. t \in CallsAt(v)
      BY <2>1 DEF CallsAt
    <3>3. /\ Cardinality(CallsAt(v) \ {t}) = Cardinality(CallsAt(v)) - 1
          /\ Cardinality(CallsAt(v) \ {t}) \in Nat
      <4>1. IsFiniteSet(CallsAt(v) \ {t})
        BY <1>1, FS_Subset
      <4> QED
        BY <1>1, <3>2, <4>1, FS_RemoveElement, FS_CardinalityType, ZenonT(60)
    <3> QED
      BY <1>1, <1>2, <3>1, <3>3 DEF HoldersOf
  <2>2. CASE v # RootOf(s)
    <3>1. v[2] \in Nodes(s) \ {"r"} /\ v = <<s, v[2]>>
      BY <2>2, VnodeParts DEF RootOf
    <3>2. rcnt[v] = 0 /\ RootRef(v) = 0
      BY <2>2, <3>1 DEF InUse, RootRef
    <3>3. Cardinality(CallsAt(v) \ {t}) = Cardinality(CallsAt(v))
      <4>1. CallsAt(v) \ {t} = CallsAt(v)
        BY <2>2 DEF CallsAt
      <4> QED
        BY <4>1
    <3> QED
      BY <1>1, <1>2, <3>2, <3>3 DEF HoldersOf
  <2> QED
    BY <2>1, <2>2
<1>4. CallsAt(v) \ {t} = {} /\ PairsAt(v) = {} /\ MountsOn(v) = {}
  <2>1. IsFiniteSet(CallsAt(v) \ {t})
    BY <1>1, FS_Subset
  <2> QED
    BY <1>1, <1>3, <2>1, FS_EmptySet
<1>5. /\ \A u \in Threads \ {t} : th[u].bvn # v
      /\ \A u \in Threads : th[u].first # v
  BY <1>4 DEF CallsAt, PairsAt
<1>6. \A x \in Slots : nspace[x].mount # v
  <2> SUFFICES ASSUME NEW x \in Slots, nspace[x].mount = v PROVE FALSE
    OBVIOUS
  <2>1. nspace[x].state = "shutdown"
    <3>1. nspace[x].mount # NoVnode
      BY VnodeParts
    <3>2. nspace[x].state \in {"mounted", "shutdown"}
      BY <3>1 DEF IInv, SlotsTold
    <3> QED
      BY <1>4, <3>2 DEF MountsOn
  <2>2. PICK u \in Threads : th[u].at = "unmounting" /\ th[u].slot = x
    BY <2>1 DEF IInv, SlotsTold
  <2>3. th[u].bvn = v
    BY <2>2 DEF IInv, CallsTold, CallFits
  <2> QED
    BY <1>5, <2>2, <2>3
<1> QED
  BY <1>3, <1>5, <1>6

LEMMA UnmountBeginStep ==
    ASSUME IInv, NEW t \in Threads, UnmountBegin(t)
    PROVE  IInv'
<1>1. Alive /\ th[t].at = "got" /\ th[t].first = NoVnode
  BY DEF UnmountBegin, GotOne, At
<1>2. th[t].bvn \in Vnodes /\ Mounted(th[t].bvn) /\ th[t] \in Calls /\ th[t].path = <<>>
  BY <1>1, CallSays DEF CallFits
<1>3. PICK s \in Slots : s = th[t].bvn[1]
  BY <1>2, VnodeParts
<1>4. th[t].bvn = RootOf(s) /\ s # 0 /\ ~InUse(s) /\ Uncover(t, s)
  BY <1>3 DEF UnmountBegin
<1>5. nspace[s].state = "mounted"
  BY <1>2, <1>3 DEF Mounted
<1>6. PICK m : m = nspace[s].mount
  OBVIOUS
<1>7. nspace \in [Slots -> NsRecords] /\ rcnt \in [Vnodes -> Nat] /\ files \in [Vnodes -> Nat]
      /\ mounted \in [Vnodes -> Slots] /\ th \in [Threads -> Calls]
  BY DEF IInv, TypeOK, NsRecords
<1>8. m \in Vnodes /\ m # NoVnode
  <2>1. m # NoVnode
    BY <1>4, <1>5, <1>6 DEF IInv, SlotsTold
  <2> QED
    BY <1>6, <1>7, <2>1 DEF NsRecords
<1>9. \A v \in Vnodes : v[1] = s =>
         /\ \A u \in Threads \ {t} : th[u].bvn # v
         /\ \A u \in Threads : th[u].first # v
         /\ \A x \in Slots : nspace[x].mount # v
         /\ files[v] = 0
  BY <1>1, <1>4, <1>5, NobodyElse
<1>10. m[1] # s
  BY <1>6, <1>8, <1>9
<1>11. PICK c : c = [th[t] EXCEPT !.at = "unmounting", !.bvn = m, !.slot = s]
  OBVIOUS
<1>12. /\ rcnt' = [rcnt EXCEPT ![RootOf(s)] = @ - 2]
       /\ mounted' = [mounted EXCEPT ![m] = 0]
       /\ nspace' = [nspace EXCEPT ![s].state = "shutdown"]
       /\ th' = [th EXCEPT ![t] = c]
       /\ nshead' = nshead /\ files' = files /\ fsrcnt' = fsrcnt /\ dead' = dead
  BY <1>4, <1>6, <1>11 DEF Uncover
<1>13. /\ c \in Calls /\ c.at = "unmounting" /\ c.bvn = m /\ c.slot = s
       /\ c.first = NoVnode /\ c.path = <<>>
  BY <1>1, <1>2, <1>8, <1>11 DEF Calls, Places
<1>14. th'[t] = c /\ \A u \in Threads \ {t} : th'[u] = th[u]
  BY <1>7, <1>12
<1>15. /\ nspace' \in [Slots -> NsRecords]
       /\ nspace'[s].state = "shutdown" /\ nspace'[s].mount = m
       /\ \A x \in Slots \ {s} : nspace'[x] = nspace[x]
  BY <1>6, <1>7, <1>12 DEF NsRecords, States
<1>16. \A v \in Vnodes : Mounted(v)' <=> Mounted(v) /\ v[1] # s
  <2> TAKE v \in Vnodes
  <2>1. v[1] \in Slots
    BY VnodeParts
  <2> QED
    BY <1>15, <2>1 DEF Mounted
<1>17. HeldParts
  BY HeldSplit DEF IInv
<1>18. RootOf(s) \in Vnodes /\ RootOf(s)[1] = s /\ rcnt[RootOf(s)] = 2
  BY <1>4, VnodeParts DEF InUse
<1>19. rcnt' \in [Vnodes -> Nat] /\ mounted' \in [Vnodes -> Slots]
  <2>1. 0 \in Slots /\ rcnt[RootOf(s)] - 2 \in Nat
    BY <1>18, VnodeParts
  <2>2. rcnt' \in [Vnodes -> Nat]
    BY <1>7, <1>12, <2>1
  <2>3. mounted' \in [Vnodes -> Slots]
    BY <1>7, <1>12, <2>1
  <2> QED
    BY <2>2, <2>3
<1>20. EveryRefCounted'
  <2> SUFFICES ASSUME NEW v \in Vnodes PROVE rcnt'[v] >= HoldersOf(v)'
    BY DEF EveryRefCounted
  <2>1. CASE v[1] = s
    <3>1. CallsAt(v)' = {} /\ PairsAt(v)' = {}
      BY <1>8, <1>9, <1>10, <1>13, <1>14, <2>1, VnodeParts DEF CallsAt, PairsAt
    <3>2. MountsOn(v)' = {} /\ RootRef(v)' = 0
      BY <1>10, <1>15, <1>9, <2>1 DEF MountsOn, RootRef
    <3>3. Cardinality({}) = 0 /\ files'[v] = 0
      BY <1>9, <1>12, <2>1, FS_EmptySet
    <3>4. HoldersOf(v)' = 0
      BY <3>1, <3>2, <3>3 DEF HoldersOf
    <3> QED
      BY <1>19, <3>4
  <2>2. CASE v[1] # s
    <3>1. /\ Cardinality(CallsAt(v)') =
                Cardinality(CallsAt(v)) + One(v, c.bvn) - One(v, th[t].bvn)
          /\ Cardinality(PairsAt(v)') =
                Cardinality(PairsAt(v)) + One(v, c.first) - One(v, th[t].first)
      BY <1>12, CallMoves DEF IInv
    <3>2. v # RootOf(s)
      BY <1>18, <2>2
    <3>3. /\ One(v, c.first) = 0 /\ One(v, th[t].first) = 0 /\ One(v, th[t].bvn) = 0
          /\ One(v, c.bvn) = One(v, m) /\ One(v, m) \in {0, 1}
      BY <1>1, <1>4, <1>13, <3>2, VnodeParts DEF One
    <3>4. Cardinality(MountsOn(v)') = Cardinality(MountsOn(v)) - One(v, m)
      <4>1. s \notin MountsOn(v)' /\ MountsOn(v)' \ {s} = MountsOn(v) \ {s}
        BY <1>15 DEF MountsOn
      <4>2. s \in MountsOn(v) <=> v = m
        BY <1>5, <1>6 DEF MountsOn
      <4>3. IsFiniteSet(MountsOn(v)) /\ IsFiniteSet(MountsOn(v)')
            /\ Cardinality(MountsOn(v)) \in Nat
        BY HolderSets, HolderSetsNext DEF HoldersCounted
      <4>4. Cardinality(MountsOn(v)') = Cardinality(MountsOn(v))
               - (IF s \in MountsOn(v) THEN 1 ELSE 0) + (IF s \in MountsOn(v)' THEN 1 ELSE 0)
        BY <4>1, <4>3, SetMoves
      <4> QED
        BY <4>1, <4>2, <4>3, <4>4 DEF One
    <3>5. RootRef(v)' = RootRef(v)
      BY <1>15, <2>2, VnodeParts DEF RootRef
    <3>6. rcnt'[v] = rcnt[v] /\ files'[v] = files[v]
      BY <1>7, <1>12, <3>2
    <3>7. rcnt[v] >= HoldersOf(v) /\ rcnt[v] \in Nat /\ files[v] \in Nat
      BY <1>7 DEF IInv, EveryRefCounted
    <3>8. /\ Cardinality(CallsAt(v)) \in Nat /\ Cardinality(PairsAt(v)) \in Nat
          /\ Cardinality(MountsOn(v)) \in Nat /\ RootRef(v) \in {0, 1}
      BY HolderSets DEF HoldersCounted
    <3> QED
      BY <3>1, <3>3, <3>4, <3>5, <3>6, <3>7, <3>8 DEF HoldersOf
  <2> QED
    BY <2>1, <2>2
<1>21. TypeOK'
  <2>1. th' \in [Threads -> Calls]
    BY <1>7, <1>12, <1>13
  <2>2. /\ dead' \in {"no", "null", "lock", "freed"} /\ files' \in [Vnodes -> Nat]
        /\ fsrcnt' \in Nat /\ nshead' \in Seq(Slots)
    BY <1>12 DEF IInv, TypeOK
  <2> QED
    BY <1>15, <1>19, <2>1, <2>2 DEF TypeOK, NsRecords
<1>22. CallsTold'
  <2>1. \A u \in Threads \ {t} : CallFits(th[u])'
    <3> TAKE u \in Threads \ {t}
    <3>1. CallFits(th[u]) /\ th'[u] = th[u]
      BY <1>14 DEF IInv, CallsTold
    <3>2. th[u].at \in {"mounting", "unmounting"} => th[u].slot # s
      BY <1>5, SlotHeld
    <3>3. th[u].at \in {"mounting", "unmounting"} =>
             nspace'[th[u].slot] = nspace[th[u].slot]
      BY <1>15, <3>2, SlotHeld
    <3>4. th[u].at = "sync" =>
             nspace'[th[u].slot].state \in {"mounted", "shutdown"}
      BY <1>15, <3>1, SlotHeld DEF CallFits
    <3> QED
      BY <3>1, <3>3, <3>4 DEF CallFits
  <2>2. CallFits(th[t])'
    BY <1>8, <1>13, <1>14, <1>15 DEF CallFits
  <2>3. \A u \in Threads \ {t} : th[u].at = "unmounting" => th[u].slot # s
    BY <1>5, SlotHeld
  <2> QED
    BY <1>13, <1>14, <2>1, <2>2, <2>3 DEF IInv, CallsTold
<1>23. SlotsTold'
  <2>1. nspace'[0].state = "mounted" /\ nspace'[0].mount = NoVnode
    BY <1>4, <1>15, VnodeParts DEF IInv, SlotsTold
  <2>2. \A x \in Slots \ {0} :
           nspace'[x].mount # NoVnode <=> nspace'[x].state \in {"mounted", "shutdown"}
    BY <1>8, <1>15 DEF IInv, SlotsTold
  <2>3. \A x \in Slots : nspace'[x].state = "shutdown" =>
           \E u \in Threads : th'[u].at = "unmounting" /\ th'[u].slot = x
    <3> SUFFICES ASSUME NEW x \in Slots, nspace'[x].state = "shutdown"
                 PROVE  \E u \in Threads : th'[u].at = "unmounting" /\ th'[u].slot = x
      OBVIOUS
    <3>1. CASE x = s
      BY <1>13, <1>14, <3>1
    <3>2. CASE x # s
      <4>1. nspace[x].state = "shutdown"
        BY <1>15, <3>2
      <4>2. PICK u \in Threads : th[u].at = "unmounting" /\ th[u].slot = x
        BY <1>1, <4>1 DEF IInv, SlotsTold
      <4> QED
        BY <1>1, <1>14, <4>2
    <3> QED
      BY <3>1, <3>2
  <2> QED
    BY <2>1, <2>2, <2>3 DEF SlotsTold
<1>24. ListTold' /\ Listed' /\ FreeSlots' = FreeSlots
  BY <1>5, <1>12, <1>15, ListStays
<1>25. HeldIsMounted'
  <2>1. /\ \A u \in Threads : /\ th[u].bvn \in Vnodes \cup {NoVnode}
                              /\ th[u].first \in Vnodes \cup {NoVnode}
        /\ \A x \in Slots : /\ nspace[x].mount \in Vnodes \cup {NoVnode}
                            /\ nspace'[x].mount = nspace[x].mount
    BY <1>6, <1>7, <1>15 DEF Calls, NsRecords
  <2>2. \A v \in Vnodes : files'[v] > 0 => Mounted(v)'
    BY <1>9, <1>12, <1>16, <1>17 DEF HeldParts
  <2>3. \A x \in Slots : nspace'[x].mount # NoVnode => Mounted(nspace[x].mount)'
    <3> SUFFICES ASSUME NEW x \in Slots, nspace[x].mount # NoVnode
                 PROVE  Mounted(nspace[x].mount)'
      BY <2>1
    <3>1. PICK w \in Vnodes : w = nspace[x].mount
      BY <2>1
    <3>2. Mounted(w) /\ w[1] # s
      BY <1>9, <1>17, <3>1 DEF HeldParts
    <3> QED
      BY <1>16, <2>1, <3>1, <3>2 DEF Mounted
  <2>4. \A u \in Threads \ {t} :
           /\ th'[u].at # "sync" /\ th'[u].bvn # NoVnode => Mounted(th[u].bvn)'
           /\ th'[u].first # NoVnode => Mounted(th[u].first)'
    <3> TAKE u \in Threads \ {t}
    <3>1. th'[u] = th[u]
      BY <1>14
    <3>2. th[u].at # "sync" /\ th[u].bvn # NoVnode => Mounted(th[u].bvn) /\ th[u].bvn[1] # s
      BY <1>9, <1>17, <2>1 DEF HeldParts
    <3>3. th[u].first # NoVnode => Mounted(th[u].first) /\ th[u].first[1] # s
      BY <1>9, <1>17, <2>1 DEF HeldParts
    <3>4. \A w \in Vnodes : Mounted(w) /\ w[1] # s => nspace'[w[1]].state = "mounted"
      BY <1>16 DEF Mounted
    <3> QED
      BY <2>1, <3>1, <3>2, <3>3, <3>4 DEF Mounted
  <2>5. nspace'[th'[t].bvn[1]].state = "mounted" /\ th'[t].first = NoVnode
    BY <1>6, <1>8, <1>10, <1>13, <1>14, <1>16, <1>17 DEF HeldParts, Mounted
  <2> QED
    BY <2>2, <2>3, <2>4, <2>5, HeldSplitNext DEF HeldParts, Mounted
<1>26. Live' = Live \ {s} /\ s \in Live
  BY <1>4, <1>5, <1>15 DEF Live
<1>27. PointsAgree'
  <2> SUFFICES ASSUME NEW v \in Vnodes, NEW x \in Slots \ {0}
               PROVE  mounted'[v] = x <=> x \in Live' /\ nspace'[x].mount = v
    BY DEF PointsAgree
  <2>1. mounted[v] = x <=> x \in Live /\ nspace[x].mount = v
    BY DEF IInv, MountTreeSound, PointsAgree
  <2>2. mounted'[v] = IF v = m THEN 0 ELSE mounted[v]
    BY <1>7, <1>12
  <2>3. mounted[m] = s
    BY <1>4, <1>6, <1>8, <1>26 DEF IInv, MountTreeSound, PointsAgree
  <2>4. CASE x = s
    BY <1>6, <1>26, <2>1, <2>2, <2>4
  <2>5. CASE x # s
    BY <1>15, <1>26, <2>1, <2>2, <2>3, <2>5
  <2> QED
    BY <2>4, <2>5
<1>28. HangsTogether'
  <2> SUFFICES ASSUME NEW S \in SUBSET Live', S # {}
               PROVE  \E x \in S : Parent(x)' \notin S
    BY DEF HangsTogether
  <2>1. S \in SUBSET Live
    BY <1>26
  <2>2. PICK x \in S : Parent(x) \notin S
    BY <2>1 DEF IInv, MountTreeSound, HangsTogether
  <2>3. x \in Slots \ {s}
    BY <1>26, <2>1 DEF Live
  <2> QED
    BY <1>15, <2>2, <2>3 DEF Parent
<1>29. TypeCounted'
  <2>1. Closing' = Closing
    BY <1>1, <1>13, <1>14 DEF Closing
  <2> QED
    BY <1>12, <1>24, <2>1 DEF IInv, MountTreeSound, TypeCounted, Alive
<1> QED
  BY <1>20, <1>21, <1>22, <1>23, <1>24, <1>25, <1>27, <1>28, <1>29 DEF IInv, MountTreeSound
-----------------------------------------------------------------------------
(***************************************************************************)
(* The invariant of the specification.                                     *)
(***************************************************************************)
\* init_vnode_layer has mounted the root file system, and nobody calls.
LEMMA InitIInv == Init => IInv
<1> SUFFICES ASSUME Init PROVE IInv
  OBVIOUS
<1>1. /\ nshead = <<0>> /\ mounted = [v \in Vnodes |-> 0]
      /\ rcnt = [v \in Vnodes |-> IF v = rootvn THEN 1 ELSE 0]
      /\ files = [v \in Vnodes |-> 0] /\ fsrcnt = 1 /\ dead = "no"
      /\ th = [t \in Threads |-> Idle]
      /\ nspace = [s \in Slots |-> IF s = 0
                      THEN [state |-> "mounted", dev |-> 0, mount |-> NoVnode]
                      ELSE FreeNs]
  BY DEF Init
<1>2. /\ Idle \in Calls /\ Idle.at = "idle" /\ Idle.bvn = NoVnode /\ Idle.first = NoVnode
      /\ Idle.path = <<>>
  BY IdleCall DEF Settled, Idle
<1>3. /\ nspace[0].state = "mounted" /\ nspace[0].mount = NoVnode
      /\ \A s \in Slots \ {0} : nspace[s].state = "free" /\ nspace[s].mount = NoVnode
      /\ \A t \in Threads : th[t] = Idle
  BY <1>1, VnodeParts, FreeRecord
<1>4. Len(nshead) = 1 /\ DOMAIN nshead = {1} /\ nshead[1] = 0
  BY <1>1
<1>5. Slots \ FreeSlots = {0} /\ Closing = {} /\ Live = {}
  BY <1>2, <1>3, VnodeParts DEF FreeSlots, Closing, Live
<1>6. Cardinality({}) = 0 /\ Cardinality({0}) = 1
  BY FS_EmptySet, FS_Singleton
<1>7. TypeOK
  <2>1. nshead \in Seq(Slots)
    BY <1>1, VnodeParts
  <2>2. nspace \in [Slots -> [state : States, dev : Devices \cup {0},
                              mount : Vnodes \cup {NoVnode}]]
    BY <1>1 DEF FreeNs, States
  <2>3. th \in [Threads -> Calls] /\ mounted \in [Vnodes -> Slots]
    BY <1>1, <1>2, VnodeParts
  <2> QED
    BY <1>1, <2>1, <2>2, <2>3 DEF TypeOK
<1>8. CallsTold
  BY <1>2, <1>3 DEF CallsTold, CallFits
<1>9. SlotsTold
  BY <1>3, VnodeParts DEF SlotsTold
<1>10. ListTold
  BY <1>3, <1>4, VnodeParts DEF ListTold
<1>11. EveryRefCounted
  <2> SUFFICES ASSUME NEW v \in Vnodes PROVE rcnt[v] >= HoldersOf(v)
    BY DEF EveryRefCounted
  <2>1. CallsAt(v) = {} /\ PairsAt(v) = {} /\ MountsOn(v) = {} /\ files[v] = 0
    BY <1>1, <1>2, <1>3, VnodeParts DEF CallsAt, PairsAt, MountsOn
  <2>2. CASE v = rootvn
    BY <1>1, <1>6, <2>1, <2>2, HolderSets DEF HoldersOf, HoldersCounted
  <2>3. CASE v # rootvn
    <3>1. RootRef(v) = 0
      BY <1>3, <2>3, VnodeParts DEF RootRef, rootvn
    <3> QED
      BY <1>1, <1>6, <2>1, <2>3, <3>1 DEF HoldersOf
  <2> QED
    BY <2>2, <2>3
<1>12. HeldIsMounted
  <2>1. HeldParts
    BY <1>1, <1>2, <1>3 DEF HeldParts
  <2> QED
    BY <2>1, HeldSplit
<1>13. MountTreeSound
  <2>1. PointsAgree /\ HangsTogether
    BY <1>1, <1>5 DEF PointsAgree, HangsTogether
  <2>2. Listed
    BY <1>4, <1>5, <1>6 DEF Listed
  <2>3. TypeCounted
    BY <1>1, <1>5, <1>6 DEF TypeCounted
  <2> QED
    BY <2>1, <2>2, <2>3 DEF MountTreeSound
<1> QED
  BY <1>7, <1>8, <1>9, <1>10, <1>11, <1>12, <1>13 DEF IInv

LEMMA StutterIInv == IInv /\ UNCHANGED vars => IInv'
<1> SUFFICES ASSUME IInv, UNCHANGED vars PROVE IInv'
  OBVIOUS
<1>1. /\ nshead' = nshead /\ nspace' = nspace /\ mounted' = mounted /\ rcnt' = rcnt
      /\ files' = files /\ fsrcnt' = fsrcnt /\ th' = th /\ dead' = dead
  BY DEF vars
<1>2. TypeOK' /\ ListTold'
  BY <1>1 DEF IInv, TypeOK, ListTold
<1>3. CallsTold' /\ SlotsTold'
  BY <1>1 DEF IInv, CallsTold, CallFits, SlotsTold, Alive
<1>4. EveryRefCounted'
  <2>1. \A v : HoldersOf(v)' = HoldersOf(v)
    BY <1>1 DEF HoldersOf, CallsAt, PairsAt, MountsOn, RootRef
  <2> QED
    BY <1>1, <2>1 DEF IInv, EveryRefCounted
<1>5. HeldIsMounted'
  BY <1>1 DEF IInv, HeldIsMounted, Held
<1>6. MountTreeSound'
  <2>1. /\ Live' = Live /\ Closing' = Closing /\ FreeSlots' = FreeSlots
        /\ \A s : Parent(s)' = Parent(s)
    BY <1>1 DEF Live, Closing, FreeSlots, Parent
  <2>2. PointsAgree' /\ HangsTogether'
    BY <1>1, <2>1 DEF IInv, MountTreeSound, PointsAgree, HangsTogether
  <2>3. Listed' /\ TypeCounted'
    BY <1>1, <2>1 DEF IInv, MountTreeSound, Listed, TypeCounted, Alive
  <2> QED
    BY <2>2, <2>3 DEF MountTreeSound
<1> QED
  BY <1>2, <1>3, <1>4, <1>5, <1>6 DEF IInv

\* The steps that begin a call, or end one that is open.
LEMMA StartIInv ==
    ASSUME IInv, NEW t \in Threads, Start(t)
    PROVE  IInv'
<1>1. ASSUME NEW base \in Vnodes, NEW p \in Paths, NEW eat \in BOOLEAN,
             parse_path_fd(t, base, p, eat)
      PROVE  IInv'
  <2>1. /\ base \in Bases /\ th[t].at = "idle" /\ Begin(t, base, NoVnode, p, eat)
    BY <1>1 DEF parse_path_fd, At
  <2>2. PICK f \in Vnodes \cup {NoVnode} : f = NoVnode
    OBVIOUS
  <2> QED
    BY <2>1, <2>2, BeginStep
<1>2. ASSUME NEW v \in Vnodes, sys_close(t, v) PROVE IInv'
  BY <1>2, CloseStep
<1>3. CASE sys_sync(t)
  BY <1>3, SyncsStep
<1> QED
  BY <1>1, <1>2, <1>3 DEF Start

\* The steps of a call under way, action by action.
LEMMA ContinueIInv ==
    ASSUME IInv, NEW t \in Threads, Continue(t), ~CreatUndone(t)
    PROVE  IInv'
<1>1. CASE WalkEntry(t) \/ Cross(t)
  BY <1>1, WalkEntryStep, CrossStep
<1>2. ASSUME NEW target \in Targets, WalkLink(t, target) PROVE IInv'
  BY <1>2, WalkLinkStep
<1>3. ASSUME NEW base \in Vnodes, NEW p \in Paths, SecondPath(t, base, p) PROVE IInv'
  <2>1. /\ base \in Bases /\ th[t].at = "got" /\ th[t].first = NoVnode
        /\ Begin(t, base, th[t].bvn, p, TRUE)
    BY <1>3 DEF SecondPath, GotOne, At
  <2>2. PICK f \in Vnodes \cup {NoVnode} : f = th[t].bvn
    BY <2>1, CallSays
  <2>3. PICK e \in BOOLEAN : e = TRUE
    OBVIOUS
  <2> QED
    BY <2>1, <2>2, <2>3, BeginStep
<1>4. CASE \/ sys_access(t) \/ sys_symlink(t) \/ sys_readlink(t) \/ sys_mkdir(t)
           \/ sys_unlink(t) \/ sys_rmdir(t) \/ sys_rstat(t) \/ sys_wstat(t)
           \/ CallFails(t) \/ MountRefused(t)
  <2>1. AskAndDrop(t)
    BY <1>4 DEF sys_access, sys_symlink, sys_readlink, sys_mkdir, sys_unlink, sys_rmdir,
                sys_rstat, sys_wstat, CallFails, MountRefused
  <2> QED
    BY <2>1, ReturnsStep
<1>5. CASE \/ WalkFails(t) \/ sys_link(t) \/ sys_rename(t) \/ RenameAcross(t)
           \/ UnmountRefused(t) \/ UnmountBusy(t) \/ SyncDone(t)
  BY <1>5, ReturnsStep
<1>6. CASE sys_opendir(t) \/ sys_open(t) \/ sys_open_creat(t)
  BY <1>6, OpensStep
<1>7. CASE sys_chdir(t) \/ MountBusy(t) \/ SyncStale(t)
  BY <1>7, StopsStep
<1>8. ASSUME NEW dev \in Devices, NEW s \in Slots, MountBegin(t, dev, s) PROVE IInv'
  BY <1>8, MountBeginStep
<1>9. CASE MountFails(t) \/ MountDone(t)
  BY <1>9, MountFailsStep, MountDoneStep
<1>10. CASE UnmountBegin(t) \/ UnmountUnlist(t) \/ UnmountDone(t)
  BY <1>10, UnmountBeginStep, UnmountUnlistStep, UnmountDoneStep
<1>11. CASE SyncNext(t)
  BY <1>11, SyncsStep
<1> QED
  BY <1>1, <1>2, <1>3, <1>4, <1>5, <1>6, <1>7, <1>8, <1>9, <1>10, <1>11 DEF Continue

\* The double drop of sys_open: what is held and the mount table stay as they
\* were.
LEMMA UndoneStep ==
    ASSUME IInv, NEW t \in Threads, CreatUndone(t)
    PROVE  dead' = "dropped" /\ HeldIsMounted' /\ MountTreeSound'
<1>1. /\ nshead' = nshead /\ nspace' = nspace /\ mounted' = mounted
      /\ fsrcnt' = fsrcnt /\ files' = files /\ dead' = "dropped"
      /\ th' = [th EXCEPT ![t] = Idle] /\ th[t].at = "got"
  BY DEF CreatUndone, Return, GotOne, At, mountVars
<1>2. th'[t] = Idle /\ \A u \in Threads \ {t} : th'[u] = th[u]
  BY <1>1 DEF IInv, TypeOK
<1>3. Idle.bvn = NoVnode /\ Idle.first = NoVnode
  BY IdleCall
<1>4. HeldIsMounted'
  <2>1. HeldParts
    BY HeldSplit DEF IInv
  <2>2. HeldParts'
    BY <1>1, <1>2, <1>3, <2>1 DEF HeldParts, Mounted
  <2> QED
    BY <2>2, HeldSplitNext
<1>5. MountTreeSound'
  <2>1. Live' = Live /\ FreeSlots' = FreeSlots
    BY <1>1 DEF Live, FreeSlots
  <2>2. \A s : Parent(s)' = Parent(s)
    BY <1>1 DEF Parent
  <2>3. HangsTogether'
    BY <2>1, <2>2 DEF IInv, MountTreeSound, HangsTogether
  <2>4. PointsAgree'
    BY <1>1, <2>1 DEF IInv, MountTreeSound, PointsAgree
  <2>5. Listed'
    BY <1>1, <2>1 DEF IInv, MountTreeSound, Listed
  <2>6. TypeCounted'
    BY <1>1 DEF TypeCounted, Alive
  <2> QED
    BY <2>3, <2>4, <2>5, <2>6 DEF MountTreeSound
<1> QED
  BY <1>1, <1>4, <1>5

\* Nothing happens once the process has stopped.
LEMMA NextAlive == Next => Alive
<1> SUFFICES ASSUME NEW t \in Threads, Start(t) \/ Continue(t) PROVE Alive
  BY DEF Next
<1>1. CASE Start(t)
  BY <1>1 DEF Start, parse_path_fd, sys_close, sys_sync, At
<1>2. CASE Continue(t)
  <2>1. CASE \/ WalkEntry(t) \/ WalkFails(t) \/ Cross(t)
             \/ \E target \in Targets : WalkLink(t, target)
             \/ \E base \in Vnodes, p \in Paths : SecondPath(t, base, p)
    BY <2>1 DEF WalkEntry, WalkFails, Cross, WalkLink, SecondPath, GotOne, At
  <2>2. CASE \/ sys_access(t) \/ sys_symlink(t) \/ sys_readlink(t) \/ sys_mkdir(t)
             \/ sys_unlink(t) \/ sys_rmdir(t) \/ sys_rstat(t) \/ sys_wstat(t)
             \/ CallFails(t) \/ MountRefused(t)
    BY <2>2 DEF sys_access, sys_symlink, sys_readlink, sys_mkdir, sys_unlink, sys_rmdir,
                sys_rstat, sys_wstat, CallFails, MountRefused, AskAndDrop, GotOne, At
  <2>3. CASE \/ sys_chdir(t) \/ sys_opendir(t) \/ sys_open(t) \/ sys_open_creat(t)
             \/ CreatUndone(t) \/ sys_link(t) \/ sys_rename(t) \/ RenameAcross(t)
    BY <2>3 DEF sys_chdir, sys_opendir, sys_open, sys_open_creat, CreatUndone, sys_link,
                sys_rename, RenameAcross, GotOne, GotTwo, At
  <2>4. CASE \/ MountFails(t) \/ MountDone(t) \/ MountBusy(t)
             \/ \E dev \in Devices, s \in Slots : MountBegin(t, dev, s)
    BY <2>4 DEF MountFails, MountDone, MountBusy, MountBegin, GotOne, At
  <2>5. CASE \/ UnmountRefused(t) \/ UnmountBusy(t) \/ UnmountBegin(t)
             \/ UnmountUnlist(t) \/ UnmountDone(t)
             \/ SyncNext(t) \/ SyncDone(t) \/ SyncStale(t)
    BY <2>5 DEF UnmountRefused, UnmountBusy, UnmountBegin, UnmountUnlist, UnmountDone,
                SyncNext, SyncDone, SyncStale, GotOne, At
  <2> QED
    BY <1>2, <2>1, <2>2, <2>3, <2>4, <2>5 DEF Continue
<1> QED
  BY <1>1, <1>2

\* The whole invariant.
Sound == /\ dead # "dropped" => IInv
         /\ HeldIsMounted /\ MountTreeSound

LEMMA NextSound == Sound /\ [Next]_vars => Sound'
<1> SUFFICES ASSUME Sound, [Next]_vars PROVE Sound'
  OBVIOUS
<1>1. CASE Next
  <2>1. dead # "dropped" /\ IInv
    BY <1>1, NextAlive DEF Alive, Sound
  <2>2. PICK t \in Threads : Start(t) \/ Continue(t)
    BY <1>1 DEF Next
  <2>3. CASE CreatUndone(t)
    BY <2>1, <2>3, UndoneStep DEF Sound
  <2>4. CASE ~CreatUndone(t)
    <3>1. IInv'
      BY <2>1, <2>2, <2>4, StartIInv, ContinueIInv
    <3> QED
      BY <3>1 DEF Sound, IInv
  <2> QED
    BY <2>3, <2>4
<1>2. CASE UNCHANGED vars
  <2>1. dead # "dropped" => IInv'
    BY <1>2, StutterIInv DEF Sound
  <2>2. /\ nshead' = nshead /\ nspace' = nspace /\ mounted' = mounted
        /\ fsrcnt' = fsrcnt /\ files' = files /\ dead' = dead /\ th' = th
    BY <1>2 DEF vars
  <2>3. HeldIsMounted'
    BY <2>2 DEF Sound, HeldIsMounted, Held
  <2>4. MountTreeSound'
    BY <2>2 DEF Sound, MountTreeSound, PointsAgree, HangsTogether, Listed, TypeCounted,
                Alive, Live, Parent, FreeSlots, Closing
  <2> QED
    BY <2>1, <2>2, <2>3, <2>4 DEF Sound
<1> QED
  BY <1>1, <1>2

\* The system calls keep the inductive invariant, up to the double drop of
\* sys_open: the calls, the slots, the list of name spaces and the counts of
\* the vnodes agree.
THEOREM NsInvariant == Spec => []Sound
<1>1. Init => Sound
  BY InitIInv DEF Sound, IInv
<1>2. Sound /\ [Next]_vars => Sound'
  BY NextSound
<1> QED
  BY <1>1, <1>2, PTL DEF Spec

\* No vnode has fewer references than calls, open files, name spaces and
\* mount points count on: no way out of parse_path or of a system call drops
\* a reference twice, whoever mounts and unmounts meanwhile, but the one of
\* sys_open for a file that was created and cannot be opened.
THEOREM NsNoRefMissing == Spec => []NoRefMissing
<1>1. Sound => NoRefMissing
  BY DEF Sound, IInv, NoRefMissing
<1> QED
  BY <1>1, NsInvariant, PTL

\* What a call, an open file or a mount point holds is in a mounted name
\* space: sys_unmount leaves nobody behind, however deep the name spaces are
\* mounted into each other.
THEOREM NsHeldIsMounted == Spec => []HeldIsMounted
<1>1. Sound => HeldIsMounted
  BY DEF Sound
<1> QED
  BY <1>1, NsInvariant, PTL

\* The mount points and the mount table agree, the name spaces form a tree
\* under the root file system, the list has each of them once and the file
\* system type counts them all.
THEOREM NsMountTreeSound == Spec => []MountTreeSound
<1>1. Sound => MountTreeSound
  BY DEF Sound
<1> QED
  BY <1>1, NsInvariant, PTL
-----------------------------------------------------------------------------
(***************************************************************************)
(* No call goes on for ever.                                               *)
(***************************************************************************)
\* CallsAdvance, of one step.
Advances ==
    \A t \in Threads :
       th[t].at # "idle" /\ th'[t] # th[t] /\ th'[t].at # "idle"
         => Nearer(Distance(th'[t], nshead'), Distance(th[t], nshead))

\* The first number that differs decides.
LEMMA NearerBy ==
    ASSUME NEW a, NEW b,
           \/ a[1] < b[1]
           \/ a[1] = b[1] /\ a[2] < b[2]
           \/ a[1] = b[1] /\ a[2] = b[2] /\ a[3] < b[3]
           \/ a[1] = b[1] /\ a[2] = b[2] /\ a[3] = b[3] /\ a[4] < b[4]
    PROVE  Nearer(a, b)
<1>1. /\ \A j \in 1 .. 1 - 1 : FALSE
      /\ \A j \in 1 .. 2 - 1 : j = 1
      /\ \A j \in 1 .. 3 - 1 : j = 1 \/ j = 2
      /\ \A j \in 1 .. 4 - 1 : j = 1 \/ j = 2 \/ j = 3
  OBVIOUS
<1>2. 1 \in 1 .. 4 /\ 2 \in 1 .. 4 /\ 3 \in 1 .. 4 /\ 4 \in 1 .. 4
  OBVIOUS
<1>3. CASE a[1] < b[1]
  BY <1>1, <1>2, <1>3, Zenon DEF Nearer
<1>4. CASE a[1] = b[1] /\ a[2] < b[2]
  BY <1>1, <1>2, <1>4, Zenon DEF Nearer
<1>5. CASE a[1] = b[1] /\ a[2] = b[2] /\ a[3] < b[3]
  BY <1>1, <1>2, <1>5, Zenon DEF Nearer
<1>6. CASE a[1] = b[1] /\ a[2] = b[2] /\ a[3] = b[3] /\ a[4] < b[4]
  BY <1>1, <1>2, <1>6, Zenon DEF Nearer
<1> QED
  BY <1>3, <1>4, <1>5, <1>6

\* A step of one call.
LEMMA OneAdvances ==
    ASSUME IInv, NEW t \in Threads, NEW c, th' = [th EXCEPT ![t] = c],
           th[t].at # "idle" /\ c.at # "idle"
             => Nearer(Distance(c, nshead'), Distance(th[t], nshead))
    PROVE  Advances
<1>1. th'[t] = c /\ \A u \in Threads \ {t} : th'[u] = th[u]
  BY DEF IInv, TypeOK
<1> QED
  BY <1>1 DEF Advances

\* A call that returns, or a process that stops.
LEMMA EndAdvances ==
    ASSUME IInv, NEW t \in Threads,
           Return(t) \/ th' = th \/ \E how \in {"null", "lock", "freed"} : Stop(how)
    PROVE  Advances
<1>1. Idle.at = "idle"
  BY DEF Idle
<1>2. CASE Return(t)
  BY <1>1, <1>2, OneAdvances DEF Return
<1>3. CASE th' = th
  BY <1>3 DEF Advances
<1>4. CASE \E how \in {"null", "lock", "freed"} : Stop(how)
  BY <1>1, <1>4 DEF Advances, Stop
<1> QED
  BY <1>2, <1>3, <1>4

\* What Onward makes of a call.
LEMMA OnwardSays ==
    ASSUME NEW v, NEW f, NEW p, NEW e, NEW i, NEW c, c = Onward(v, f, p, e, i)
    PROVE  /\ c.first = f
           /\ p = <<>> => c.at = "got" /\ c.path = <<>>
           /\ p # <<>> => c.at = "walk" /\ c.path = p /\ c.iter = i
<1>1. CASE p = <<>>
  BY <1>1 DEF Onward, Idle
<1>2. CASE p # <<>>
  BY <1>2 DEF Onward, Idle
<1> QED
  BY <1>1, <1>2

\* The numbers of Distance.
LEMMA DistanceParts ==
    ASSUME NEW c, NEW l
    PROVE  /\ Distance(c, l)[1] = IF c.first = NoVnode THEN 1 ELSE 0
           /\ Distance(c, l)[2] = IF c.at \in {"walk", "cross"}
                                  THEN 1 + MAX_SYM_LINKS - c.iter ELSE 0
           /\ Distance(c, l)[3] = Len(c.path)
           /\ Distance(c, l)[4] = IF c.at = "sync" THEN Behind(c.slot, l) + 2 ELSE Place(c)
  BY DEF Distance

\* The steps of parse_path.
LEMMA WalkAdvances ==
    ASSUME IInv, NEW t \in Threads,
           WalkEntry(t) \/ Cross(t) \/ \E target \in Targets : WalkLink(t, target)
    PROVE  Advances
<1>1. th[t].at \in {"walk", "cross"}
  BY DEF WalkEntry, Cross, WalkLink, At
<1>2. /\ th[t] \in Calls /\ th[t].iter \in 0 .. MAX_SYM_LINKS /\ th[t].path \in Seq(STRING)
      /\ MAX_SYM_LINKS \in Nat
  BY NameSpaceAssumption DEF IInv, TypeOK, Calls
<1>3. CASE WalkEntry(t)
  <2>1. PICK vn : th' = [th EXCEPT ![t].at = "cross", ![t].bvn = vn, ![t].path = Rest(t)]
    BY <1>3 DEF WalkEntry
  <2>2. PICK c : c = [th[t] EXCEPT !.at = "cross", !.bvn = vn, !.path = Rest(t)]
    OBVIOUS
  <2>3. /\ th' = [th EXCEPT ![t] = c] /\ c.at = "cross" /\ c.path = Rest(t)
        /\ c.iter = th[t].iter /\ c.first = th[t].first
    BY <1>2, <2>1, <2>2 DEF Calls
  <2>4. th[t].at = "walk" /\ Len(c.path) < Len(th[t].path)
    <3>1. th[t].at = "walk"
      BY <1>3 DEF WalkEntry, At
    <3>2. Len(Rest(t)) = Len(th[t].path) - 1 /\ Len(th[t].path) \in Nat
      BY <1>2, <3>1, WalkHas
    <3> QED
      BY <2>3, <3>1, <3>2
  <2>5. Nearer(Distance(c, nshead'), Distance(th[t], nshead))
    BY <2>3, <2>4, DistanceParts, NearerBy
  <2> QED
    BY <2>3, <2>5, OneAdvances
<1>4. CASE Cross(t)
  <2>1. PICK vn, c : /\ c = Onward(vn, th[t].first, th[t].path, th[t].eat, th[t].iter)
                     /\ th' = [th EXCEPT ![t] = c]
    BY <1>4 DEF Cross
  <2>2. th[t].at = "cross"
    BY <1>4 DEF Cross, At
  <2>3. /\ c.first = th[t].first
        /\ th[t].path = <<>> => c.at = "got" /\ c.path = <<>>
        /\ th[t].path # <<>> => c.at = "walk" /\ c.path = th[t].path /\ c.iter = th[t].iter
    BY <2>1, OnwardSays
  <2>4. CASE th[t].path = <<>>
    <3>1. 0 < 1 + MAX_SYM_LINKS - th[t].iter
      BY <1>2
    <3>2. /\ Distance(c, nshead')[1] = Distance(th[t], nshead)[1]
          /\ Distance(c, nshead')[2] = 0
          /\ Distance(th[t], nshead)[2] = 1 + MAX_SYM_LINKS - th[t].iter
      BY <2>2, <2>3, <2>4, DistanceParts
    <3>3. Nearer(Distance(c, nshead'), Distance(th[t], nshead))
      BY <3>1, <3>2, NearerBy
    <3> QED
      BY <2>1, <3>3, OneAdvances
  <2>5. CASE th[t].path # <<>>
    <3>1. /\ Distance(c, nshead')[1] = Distance(th[t], nshead)[1]
          /\ Distance(c, nshead')[2] = Distance(th[t], nshead)[2]
          /\ Distance(c, nshead')[3] = Distance(th[t], nshead)[3]
      BY <2>2, <2>3, <2>5, DistanceParts
    <3>2. Distance(c, nshead')[4] = 4 /\ Distance(th[t], nshead)[4] = 5
      <4>1. Place(c) = 4
        BY <2>3, <2>5 DEF Place
      <4>2. Place(th[t]) = 5
        BY <2>2 DEF Place
      <4> QED
        BY <2>2, <2>3, <2>5, <4>1, <4>2, DistanceParts
    <3>3. Nearer(Distance(c, nshead'), Distance(th[t], nshead))
      BY <3>1, <3>2, NearerBy
    <3> QED
      BY <2>1, <3>3, OneAdvances
  <2> QED
    BY <2>4, <2>5
<1>5. CASE \E target \in Targets : WalkLink(t, target)
  <2>1. PICK vn, p, c : /\ c = Onward(vn, th[t].first, p, th[t].eat, th[t].iter + 1)
                        /\ th' = [th EXCEPT ![t] = c]
    BY <1>5 DEF WalkLink
  <2>2. th[t].at = "walk" /\ th[t].iter < MAX_SYM_LINKS
    BY <1>5 DEF WalkLink, At
  <2>3. /\ c.first = th[t].first
        /\ p = <<>> => c.at = "got"
        /\ p # <<>> => c.at = "walk" /\ c.iter = th[t].iter + 1
    BY <2>1, OnwardSays
  <2>4. /\ Distance(c, nshead')[1] = Distance(th[t], nshead)[1]
        /\ Distance(th[t], nshead)[2] = 1 + MAX_SYM_LINKS - th[t].iter
        /\ Distance(c, nshead')[2] \in {0, MAX_SYM_LINKS - th[t].iter}
    <3>1. 1 + MAX_SYM_LINKS - (th[t].iter + 1) = MAX_SYM_LINKS - th[t].iter
      BY <1>2
    <3> QED
      BY <2>2, <2>3, <3>1, DistanceParts
  <2>5. Distance(c, nshead')[2] < Distance(th[t], nshead)[2]
    BY <1>2, <2>2, <2>4
  <2>6. Nearer(Distance(c, nshead'), Distance(th[t], nshead))
    BY <2>4, <2>5, NearerBy
  <2> QED
    BY <2>1, <2>6, OneAdvances
<1> QED
  BY <1>3, <1>4, <1>5

\* The second path of sys_link and sys_rename.
LEMMA SecondAdvances ==
    ASSUME IInv, NEW t \in Threads, NEW base, NEW p, SecondPath(t, base, p)
    PROVE  Advances
<1>1. th[t].at = "got" /\ th[t].first = NoVnode
  BY DEF SecondPath, GotOne, At
<1>2. th[t].bvn # NoVnode
  BY <1>1, CallSays, VnodeParts
<1>3. PICK c : c = Onward(base, th[t].bvn, p, TRUE, 0) /\ th' = [th EXCEPT ![t] = c]
  BY DEF SecondPath, Begin
<1>4. c.first = th[t].bvn
  BY <1>3 DEF Onward, Idle
<1>5. Distance(c, nshead')[1] = 0 /\ Distance(th[t], nshead)[1] = 1
  BY <1>1, <1>2, <1>4, DistanceParts
<1>6. Nearer(Distance(c, nshead'), Distance(th[t], nshead))
  BY <1>5, NearerBy
<1> QED
  BY <1>3, <1>6, OneAdvances

\* A call that has what it needs and goes on to another of its places.
LEMMA PlaceAdvances ==
    ASSUME NEW c, NEW d, NEW k, NEW l,
           c.first = d.first, c.path = d.path,
           c.at \notin {"walk", "cross", "sync"}, d.at \notin {"walk", "cross", "sync"},
           Place(c) < Place(d)
    PROVE  Nearer(Distance(c, k), Distance(d, l))
<1>1. /\ Distance(c, k)[1] = Distance(d, l)[1] /\ Distance(c, k)[2] = Distance(d, l)[2]
      /\ Distance(c, k)[3] = Distance(d, l)[3]
      /\ Distance(c, k)[4] = Place(c) /\ Distance(d, l)[4] = Place(d)
  BY DistanceParts
<1> QED
  BY <1>1, NearerBy

LEMMA SlotAdvances ==
    ASSUME IInv, NEW t \in Threads,
           UnmountBegin(t) \/ \E dev \in Devices, s \in Slots : MountBegin(t, dev, s)
    PROVE  Advances
<1>1. th[t].at = "got" /\ th[t] \in Calls
  BY DEF UnmountBegin, MountBegin, GotOne, At, IInv, TypeOK
<1>2. PICK c : /\ th' = [th EXCEPT ![t] = c] /\ c.at \in {"mounting", "unmounting"}
               /\ c.first = th[t].first /\ c.path = th[t].path
  <2>1. CASE UnmountBegin(t)
    <3>1. PICK s, m : th' = [th EXCEPT ![t].at = "unmounting", ![t].bvn = m, ![t].slot = s]
      BY <2>1 DEF UnmountBegin, Uncover
    <3>2. PICK c : c = [th[t] EXCEPT !.at = "unmounting", !.bvn = m, !.slot = s]
      OBVIOUS
    <3>3. /\ th' = [th EXCEPT ![t] = c] /\ c.at = "unmounting"
          /\ c.first = th[t].first /\ c.path = th[t].path
      BY <1>1, <3>1, <3>2 DEF Calls
    <3> QED
      BY <3>3
  <2>2. CASE \E dev \in Devices, s \in Slots : MountBegin(t, dev, s)
    <3>1. PICK s : th' = [th EXCEPT ![t].at = "mounting", ![t].slot = s]
      BY <2>2 DEF MountBegin
    <3>2. PICK c : c = [th[t] EXCEPT !.at = "mounting", !.slot = s]
      OBVIOUS
    <3>3. /\ th' = [th EXCEPT ![t] = c] /\ c.at = "mounting"
          /\ c.first = th[t].first /\ c.path = th[t].path
      BY <1>1, <3>1, <3>2 DEF Calls
    <3> QED
      BY <3>3
  <2> QED
    BY <2>1, <2>2
<1>3. Place(c) = 2 /\ Place(th[t]) = 3
  BY <1>1, <1>2 DEF Place
<1>4. Nearer(Distance(c, nshead'), Distance(th[t], nshead))
  BY <1>1, <1>2, <1>3, PlaceAdvances
<1> QED
  BY <1>2, <1>4, OneAdvances

\* Behind counts the name spaces that follow on the list.
LEMMA BehindIs ==
    ASSUME IInv, NEW i \in DOMAIN nshead
    PROVE  Behind(nshead[i], nshead) = Len(nshead) - i
<1>1. (CHOOSE j \in DOMAIN nshead : nshead[j] = nshead[i]) = i
  BY DEF IInv, ListTold
<1> QED
  BY <1>1 DEF Behind

\* sys_unmount takes a name space off the list under a sys_sync that is at it.
LEMMA UnlistAdvances ==
    ASSUME IInv, NEW t \in Threads, UnmountUnlist(t)
    PROVE  Advances
<1> SUFFICES ASSUME NEW u \in Threads, th[u].at # "idle", th'[u] # th[u],
                    th'[u].at # "idle"
             PROVE  Nearer(Distance(th'[u], nshead'), Distance(th[u], nshead))
  BY DEF Advances
<1>1. th[t].at = "unmounting" /\ th[u] \in Calls /\ CallFits(th[u])
  BY DEF UnmountUnlist, At, IInv, TypeOK, CallsTold
<1>2. CASE u = t
  <2>1. th'[t] = [th[t] EXCEPT !.at = "closing", !.dev = nspace[th[t].slot].dev]
    BY <1>1 DEF UnmountUnlist
  <2>2. PICK c : c = th'[t]
    OBVIOUS
  <2>3. c.at = "closing" /\ c.first = th[t].first /\ c.path = th[t].path
    BY <1>1, <1>2, <2>1, <2>2 DEF Calls
  <2>4. Place(c) = 1 /\ Place(th[t]) = 2
    BY <1>1, <2>3 DEF Place
  <2>5. Nearer(Distance(c, nshead'), Distance(th[t], nshead))
    BY <1>1, <2>3, <2>4, PlaceAdvances
  <2> QED
    BY <1>2, <2>2, <2>5
<1>3. CASE u # t
  <2>1. th[u].at = "sync" /\ th'[u] = [th[u] EXCEPT !.at = "stale", !.bvn = NoVnode]
    BY <1>3 DEF UnmountUnlist
  <2>2. PICK c : c = th'[u]
    OBVIOUS
  <2>3. c.at = "stale" /\ c.first = th[u].first /\ c.path = th[u].path
    BY <1>1, <2>1, <2>2 DEF Calls
  <2>4. PICK i \in DOMAIN nshead : nshead[i] = th[u].slot
    BY <2>1, SlotHeld DEF IInv, ListTold
  <2>5. Distance(th[u], nshead)[4] = Len(nshead) - i + 2 /\ Distance(c, nshead')[4] = 1
    <3>1. Place(c) = 1
      BY <2>3 DEF Place
    <3> QED
      BY <2>1, <2>3, <2>4, <3>1, BehindIs, DistanceParts
  <2>6. Distance(c, nshead')[4] < Distance(th[u], nshead)[4]
    <3>1. Len(nshead) \in Nat /\ i \in 1 .. Len(nshead)
      BY ListHas
    <3> QED
      BY <2>5, <3>1
  <2>7. /\ Distance(c, nshead')[1] = Distance(th[u], nshead)[1]
        /\ Distance(c, nshead')[2] = Distance(th[u], nshead)[2]
        /\ Distance(c, nshead')[3] = Distance(th[u], nshead)[3]
    BY <2>1, <2>3, DistanceParts
  <2>8. Nearer(Distance(c, nshead'), Distance(th[u], nshead))
    BY <2>6, <2>7, NearerBy
  <2> QED
    BY <2>2, <2>8
<1> QED
  BY <1>2, <1>3

\* sys_sync goes on to the next name space.
LEMMA SyncAdvances ==
    ASSUME IInv, NEW t \in Threads, SyncNext(t)
    PROVE  Advances
<1>1. th[t].at = "sync" /\ CallFits(th[t])
  BY DEF SyncNext, At, IInv, CallsTold
<1>2. PICK i \in 1 .. Len(nshead) - 1 : nshead[i] = th[t].slot /\ SyncAt(t, nshead[i + 1])
  BY DEF SyncNext
<1>3. /\ Len(nshead) \in Nat /\ DOMAIN nshead = 1 .. Len(nshead)
  BY ListHas
<1>4. i \in DOMAIN nshead /\ i + 1 \in DOMAIN nshead
  BY <1>2, <1>3
<1>5. CASE nspace[nshead[i + 1]].state = "mounting"
  BY <1>2, <1>5, EndAdvances DEF SyncAt
<1>6. CASE nspace[nshead[i + 1]].state # "mounting"
  <2>1. PICK c : /\ c = [Idle EXCEPT !.at = "sync", !.bvn = RootOf(nshead[i + 1]),
                                     !.slot = nshead[i + 1]]
                 /\ th' = [th EXCEPT ![t] = c] /\ nshead' = nshead
    BY <1>2, <1>6 DEF SyncAt, mountVars
  <2>2. c.at = "sync" /\ c.slot = nshead[i + 1] /\ c.first = NoVnode /\ c.path = <<>>
    BY <2>1 DEF Idle
  <2>3. th[t].first = NoVnode /\ th[t].path = <<>>
    BY <1>1 DEF CallFits
  <2>4. /\ Distance(c, nshead')[1] = Distance(th[t], nshead)[1]
        /\ Distance(c, nshead')[2] = Distance(th[t], nshead)[2]
        /\ Distance(c, nshead')[3] = Distance(th[t], nshead)[3]
    BY <1>1, <2>2, <2>3, DistanceParts
  <2>5. /\ Distance(c, nshead')[4] = Len(nshead) - (i + 1) + 2
        /\ Distance(th[t], nshead)[4] = Len(nshead) - i + 2
    <3>1. /\ Behind(nshead[i + 1], nshead) = Len(nshead) - (i + 1)
          /\ Behind(nshead[i], nshead) = Len(nshead) - i
      BY <1>4, BehindIs
    <3>2. /\ Distance(c, nshead')[4] = Behind(c.slot, nshead') + 2
          /\ Distance(th[t], nshead)[4] = Behind(th[t].slot, nshead) + 2
      BY <1>1, <2>2, DistanceParts
    <3>3. Behind(c.slot, nshead') = Behind(nshead[i + 1], nshead)
      BY <2>1, <2>2
    <3>4. Behind(th[t].slot, nshead) = Behind(nshead[i], nshead)
      BY <1>2
    <3> QED
      BY <3>1, <3>2, <3>3, <3>4
  <2>6. Nearer(Distance(c, nshead'), Distance(th[t], nshead))
    BY <1>3, <2>4, <2>5, NearerBy
  <2> QED
    BY <2>1, <2>6, OneAdvances
<1> QED
  BY <1>5, <1>6

LEMMA NextAdvances == IInv /\ Next => Advances
<1> SUFFICES ASSUME IInv, NEW t \in Threads, Start(t) \/ Continue(t) PROVE Advances
  BY DEF Next
<1>1. CASE Start(t)
  <2>1. ASSUME NEW base \in Vnodes, NEW p \in Paths, NEW eat \in BOOLEAN,
               parse_path_fd(t, base, p, eat)
        PROVE  Advances
    <3>1. th[t].at = "idle" /\ \E c : th' = [th EXCEPT ![t] = c]
      BY <2>1 DEF parse_path_fd, Begin, At
    <3> QED
      BY <3>1, OneAdvances
  <2>2. ASSUME NEW v \in Vnodes, sys_close(t, v) PROVE Advances
    BY <2>2, EndAdvances DEF sys_close
  <2>3. CASE sys_sync(t)
    <3>1. th[t].at = "idle" /\ SyncAt(t, Head(nshead))
      BY <2>3 DEF sys_sync, At
    <3>2. (\E c : th' = [th EXCEPT ![t] = c]) \/ Stop("null")
      BY <3>1 DEF SyncAt
    <3> QED
      BY <3>1, <3>2, OneAdvances, EndAdvances
  <2> QED
    BY <1>1, <2>1, <2>2, <2>3 DEF Start
<1>2. CASE Continue(t)
  <2>1. CASE WalkEntry(t) \/ Cross(t) \/ \E target \in Targets : WalkLink(t, target)
    BY <2>1, WalkAdvances
  <2>2. CASE \E base \in Vnodes, p \in Paths : SecondPath(t, base, p)
    BY <2>2, SecondAdvances
  <2>3. CASE \/ sys_access(t) \/ sys_symlink(t) \/ sys_readlink(t) \/ sys_mkdir(t)
             \/ sys_unlink(t) \/ sys_rmdir(t) \/ sys_rstat(t) \/ sys_wstat(t)
             \/ CallFails(t) \/ MountRefused(t)
    <3>1. AskAndDrop(t)
      BY <2>3 DEF sys_access, sys_symlink, sys_readlink, sys_mkdir, sys_unlink, sys_rmdir,
                  sys_rstat, sys_wstat, CallFails, MountRefused
    <3> QED
      BY <3>1, EndAdvances DEF AskAndDrop
  <2>4. CASE sys_opendir(t) \/ sys_open(t) \/ sys_open_creat(t)
    <3>1. Return(t)
      BY <2>4 DEF sys_opendir, sys_open, sys_open_creat, NewFile
    <3> QED
      BY <3>1, EndAdvances
  <2>5. CASE \/ WalkFails(t) \/ sys_link(t) \/ sys_rename(t) \/ RenameAcross(t)
             \/ MountFails(t) \/ MountDone(t) \/ UnmountRefused(t) \/ UnmountBusy(t)
             \/ UnmountDone(t) \/ SyncDone(t) \/ CreatUndone(t)
    <3>1. Return(t)
      BY <2>5 DEF WalkFails, sys_link, sys_rename, DropBoth, RenameAcross, MountFails,
                  MountDone, UnmountRefused, UnmountBusy, UnmountDone, SyncDone,
                  CreatUndone
    <3> QED
      BY <3>1, EndAdvances
  <2>6. CASE sys_chdir(t) \/ MountBusy(t) \/ SyncStale(t)
    <3>1. Stop("null") \/ Stop("lock") \/ Stop("freed")
      BY <2>6 DEF sys_chdir, MountBusy, SyncStale
    <3> QED
      BY <3>1, EndAdvances
  <2>7. CASE UnmountBegin(t) \/ \E dev \in Devices, s \in Slots : MountBegin(t, dev, s)
    BY <2>7, SlotAdvances
  <2>8. CASE UnmountUnlist(t)
    BY <2>8, UnlistAdvances
  <2>9. CASE SyncNext(t)
    BY <2>9, SyncAdvances
  <2> QED
    BY <1>2, <2>1, <2>2, <2>3, <2>4, <2>5, <2>6, <2>7, <2>8, <2>9 DEF Continue
<1> QED
  BY <1>1, <1>2

\* Every step brings a call nearer its end, whatever the links say and
\* whoever mounts or unmounts meanwhile: parse_path follows at most
\* MAX_SYM_LINKS links, and sys_sync never turns back on the list.
THEOREM NsCallsAdvance == Spec => CallsAdvance
<1>1. Sound /\ [Next]_vars => [Advances]_vars
  BY NextAdvances, NextAlive DEF Sound, Alive
<1> QED
  BY <1>1, NsInvariant, PTL DEF Spec, CallsAdvance, Advances
=============================================================================
