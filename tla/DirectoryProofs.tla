-------------------------- MODULE DirectoryProofs --------------------------
(***************************************************************************)
(* The directories form a tree, what is being read stays in core and scans *)
(* are right, for every number of inodes, names and scans: under the       *)
(* conditions on names and on the calls between two readdirs without which *)
(* the code does not keep these promises.                                  *)
(***************************************************************************)
EXTENDS Directory, FiniteSetTheorems, SequenceTheorems, TLAPS

Entries == [name : AllNames, inum : Inums]
Cookie == [dir : Inums \cup {NoInum}, pos : Nat, index : Int, stale : BOOLEAN]
Scan == [missing : SUBSET AllNames, deletes : Nat, rmall : BOOLEAN,
         got : SUBSET AllNames, last : AllNames \cup {""}, again : BOOLEAN]

LEMMA MinMax ==
    ASSUME NEW a \in Int, NEW b \in Int
    PROVE  /\ Min({a, b}) = IF a <= b THEN a ELSE b
           /\ Max({a, b}) = IF a >= b THEN a ELSE b
<1>1. PICK x : x = IF a <= b THEN a ELSE b
  OBVIOUS
<1>2. x \in {a, b} /\ \A y \in {a, b} : x <= y
  BY <1>1
<1>3. \A z \in {a, b} : (\A y \in {a, b} : z <= y) => z = x
  BY <1>1
<1>4. Min({a, b}) = x
  BY <1>2, <1>3 DEF Min
<1>5. PICK w : w = IF a >= b THEN a ELSE b
  OBVIOUS
<1>6. w \in {a, b} /\ \A y \in {a, b} : w >= y
  BY <1>5
<1>7. \A z \in {a, b} : (\A y \in {a, b} : z >= y) => z = w
  BY <1>5
<1>8. Max({a, b}) = w
  BY <1>6, <1>7 DEF Max
<1> QED
  BY <1>1, <1>4, <1>5, <1>8

\* The names of a directory, its own and its parent's apart.
LEMMA NameParts ==
    /\ "." \notin Names /\ ".." \notin Names /\ "" \notin AllNames
    /\ Names \subseteq AllNames /\ "." \in AllNames /\ ".." \in AllNames
  BY DirectoryAssumption DEF AllNames

\* dir_insert: an entry at the end.
Grown(d, s, n, i, t) ==
    /\ t \in Seq(Entries) /\ Contents(d, t) /\ Len(t) = Len(s) + 1
    /\ \A k \in 1 .. Len(s) : t[k] = s[k]
    /\ t[Len(t)].inum = i /\ t[Len(t)].name = n

LEMMA AppendContents ==
    ASSUME NEW d, NEW s \in Seq(Entries), Contents(d, s),
           NEW n \in Names, n \notin NamesIn(s), NEW i \in Inums, i # root,
           NEW t, t = Append(s, Entry(n, i))
    PROVE  Grown(d, s, n, i, t)
<1>1. Entry(n, i) \in Entries /\ Entry(n, i).name = n /\ Entry(n, i).inum = i
  BY NameParts DEF Entry, Entries
<1>2. Len(s) \in Nat /\ DOMAIN s = 1 .. Len(s) /\ Len(s) >= 2
  BY DEF Contents
<1>3. /\ t \in Seq(Entries) /\ Len(t) = Len(s) + 1 /\ DOMAIN t = 1 .. Len(s) + 1
      /\ \A k \in 1 .. Len(s) : t[k] = s[k]
      /\ t[Len(s) + 1] = Entry(n, i)
  BY <1>1, AppendProperties
<1>4. t[Len(t)].inum = i /\ t[Len(t)].name = n
  BY <1>1, <1>3
<1>5. t[1] = Entry(".", d) /\ t[2].name = ".." /\ Len(t) >= 2
  BY <1>2, <1>3 DEF Contents
<1>6. \A k \in 3 .. Len(t) : t[k].name \in Names /\ t[k].inum # root
  <2> TAKE k \in 3 .. Len(t)
  <2>1. CASE k = Len(s) + 1
    BY <1>1, <1>3, <2>1
  <2>2. CASE k # Len(s) + 1
    <3>1. k \in 3 .. Len(s) /\ k \in 1 .. Len(s)
      BY <1>2, <1>3, <2>2
    <3> QED
      BY <1>3, <3>1 DEF Contents
  <2> QED
    BY <2>1, <2>2
<1>7. \A k \in 1 .. Len(s) : s[k].name # n
  BY <1>2 DEF NamesIn
<1>8. \A j, k \in DOMAIN t : t[j].name = t[k].name => j = k
  <2> TAKE j, k \in DOMAIN t
  <2>1. CASE j \in 1 .. Len(s) /\ k \in 1 .. Len(s)
    BY <1>2, <1>3, <2>1 DEF Contents
  <2>2. CASE j \notin 1 .. Len(s) /\ k \notin 1 .. Len(s)
    BY <1>2, <1>3, <2>2
  <2>3. CASE j \in 1 .. Len(s) /\ k \notin 1 .. Len(s)
    <3>1. k = Len(s) + 1
      BY <1>2, <1>3, <2>3
    <3> QED
      BY <1>1, <1>3, <1>7, <2>3, <3>1
  <2>4. CASE j \notin 1 .. Len(s) /\ k \in 1 .. Len(s)
    <3>1. j = Len(s) + 1
      BY <1>2, <1>3, <2>4
    <3> QED
      BY <1>1, <1>3, <1>7, <2>4, <3>1
  <2> QED
    BY <2>1, <2>2, <2>3, <2>4
<1> QED
  BY <1>3, <1>4, <1>5, <1>6, <1>8 DEF Contents, Grown

\* dir_delete: the entry at a goes and those behind move up.
Shrunk(d, s, a, t) ==
    /\ t \in Seq(Entries) /\ Contents(d, t) /\ Len(t) = Len(s) - 1
    /\ \A k \in 1 .. Len(s) - 1 : /\ k < a => t[k] = s[k]
                                  /\ k >= a => t[k] = s[k + 1]
    /\ NamesIn(t) = NamesIn(s) \ {s[a].name}

LEMMA DeleteContents ==
    ASSUME NEW d, NEW s \in Seq(Entries), Contents(d, s), NEW a \in 3 .. Len(s),
           NEW t, t = [k \in 1 .. Len(s) - 1 |-> IF k < a THEN s[k] ELSE s[k + 1]]
    PROVE  Shrunk(d, s, a, t)
<1>1. Len(s) \in Nat /\ DOMAIN s = 1 .. Len(s) /\ Len(s) >= 3
  BY DEF Contents
<1>2. \A k \in 1 .. Len(s) : s[k] \in Entries
  BY <1>1
<1>3. \A k \in 1 .. Len(s) - 1 : /\ k < a => t[k] = s[k]
                                 /\ k >= a => t[k] = s[k + 1]
                                 /\ k \in 1 .. Len(s) /\ k + 1 \in 1 .. Len(s)
  BY <1>1
<1>4. t \in Seq(Entries) /\ Len(t) = Len(s) - 1 /\ DOMAIN t = 1 .. Len(s) - 1
  <2>1. \A k \in 1 .. Len(s) - 1 : t[k] \in Entries
    BY <1>2, <1>3
  <2>2. t \in [1 .. Len(s) - 1 -> Entries] /\ Len(s) - 1 \in Nat
    BY <1>1, <2>1
  <2>3. t \in Seq(Entries)
    BY <2>2, SeqDef
  <2> QED
    BY <2>2, <2>3, LenProperties
<1>5. \A k \in 1 .. Len(s) - 1 : \E j \in 1 .. Len(s) :
         j # a /\ t[k] = s[j] /\ (k < a => j = k) /\ (k >= a => j = k + 1)
  <2> TAKE k \in 1 .. Len(s) - 1
  <2>1. CASE k < a
    <3>1. k \in 1 .. Len(s) /\ k # a /\ t[k] = s[k] /\ ~(k >= a)
      BY <1>3, <2>1
    <3> QED
      BY <2>1, <3>1
  <2>2. CASE k >= a
    <3>1. k + 1 \in 1 .. Len(s) /\ k + 1 # a /\ t[k] = s[k + 1] /\ ~(k < a)
      BY <1>3, <2>2
    <3> QED
      BY <2>2, <3>1
  <2> QED
    BY <2>1, <2>2
<1>6. t[1] = Entry(".", d) /\ t[2].name = ".." /\ Len(t) >= 2
  <2>1. 1 < a /\ 2 < a /\ 1 \in 1 .. Len(s) - 1 /\ 2 \in 1 .. Len(s) - 1
    BY <1>1
  <2> QED
    BY <1>1, <1>3, <1>4, <2>1 DEF Contents
<1>7. \A k \in 3 .. Len(t) : t[k].name \in Names /\ t[k].inum # root
  <2> TAKE k \in 3 .. Len(t)
  <2>1. k \in 1 .. Len(s) - 1 /\ k \in 3 .. Len(s) /\ k + 1 \in 3 .. Len(s) /\ k \in Int /\ a \in Int
    BY <1>1, <1>4
  <2>2. t[k] = s[k] \/ t[k] = s[k + 1]
    BY <1>3, <2>1
  <2> QED
    BY <2>1, <2>2 DEF Contents
<1>8. \A j, k \in DOMAIN t : t[j].name = t[k].name => j = k
  <2> TAKE j, k \in DOMAIN t
  <2>1. j \in 1 .. Len(s) - 1 /\ k \in 1 .. Len(s) - 1 /\ j \in Int /\ k \in Int /\ a \in Int
    BY <1>4
  <2>2. PICK x \in 1 .. Len(s) : t[j] = s[x] /\ (j < a => x = j) /\ (j >= a => x = j + 1)
    BY <1>5, <2>1
  <2>3. PICK y \in 1 .. Len(s) : t[k] = s[y] /\ (k < a => y = k) /\ (k >= a => y = k + 1)
    BY <1>5, <2>1
  <2>4. t[j].name = t[k].name => x = y
    BY <1>1, <2>2, <2>3 DEF Contents
  <2> QED
    BY <2>1, <2>2, <2>3, <2>4
<1>9. NamesIn(t) = NamesIn(s) \ {s[a].name}
  <2>1. ASSUME NEW m \in NamesIn(t) PROVE m \in NamesIn(s) \ {s[a].name}
    <3>1. PICK k \in 1 .. Len(s) - 1 : m = t[k].name
      BY <1>4, <2>1 DEF NamesIn
    <3>2. PICK j \in 1 .. Len(s) : j # a /\ t[k] = s[j]
      BY <1>5
    <3>3. s[j].name # s[a].name
      BY <1>1, <3>2 DEF Contents
    <3> QED
      BY <1>1, <3>1, <3>2, <3>3 DEF NamesIn
  <2>2. ASSUME NEW m \in NamesIn(s), m # s[a].name PROVE m \in NamesIn(t)
    <3>1. PICK j \in 1 .. Len(s) : m = s[j].name
      BY <1>1 DEF NamesIn
    <3>2. j # a /\ j \in Int /\ a \in Int
      BY <2>2, <3>1
    <3>3. CASE j < a
      <4>1. j \in 1 .. Len(s) - 1
        BY <1>1, <3>3
      <4> QED
        BY <1>3, <1>4, <3>1, <3>3, <4>1 DEF NamesIn
    <3>4. CASE j > a
      <4>1. j - 1 \in 1 .. Len(s) - 1 /\ j - 1 >= a /\ (j - 1) + 1 = j
        BY <1>1, <3>4
      <4>2. t[j - 1] = s[j]
        BY <1>3, <4>1
      <4> QED
        BY <1>4, <3>1, <4>1, <4>2 DEF NamesIn
    <3> QED
      BY <3>2, <3>3, <3>4
  <2> QED
    BY <2>1, <2>2
<1> QED
  BY <1>3, <1>4, <1>6, <1>7, <1>8, <1>9 DEF Contents, Shrunk
-----------------------------------------------------------------------------
(***************************************************************************)
(* What becomes of a scan.                                                 *)
(***************************************************************************)
LEMMA ScanKinds ==
    /\ NoScan \in Scan /\ NoCookie \in Cookie
    /\ \A sc \in Scan : /\ NotRmall(sc) \in Scan
                        /\ NotRmall(sc).missing = sc.missing /\ ~NotRmall(sc).rmall
                        /\ NotRmall(sc).deletes = sc.deletes /\ ~NotRmall(sc).again
<1>1. NoScan \in Scan
  BY DEF NoScan, Scan
<1>2. NoCookie \in Cookie
  BY DEF NoCookie, Cookie
<1>3. \A sc \in Scan : /\ NotRmall(sc) \in Scan
                       /\ NotRmall(sc).missing = sc.missing /\ ~NotRmall(sc).rmall
                       /\ NotRmall(sc).deletes = sc.deletes /\ ~NotRmall(sc).again
  BY DEF NotRmall, Scan
<1> QED
  BY <1>1, <1>2, <1>3

\* The directory grows under a scan.
LEMMA ScanAppend ==
    ASSUME NEW k \in Cookie, NEW sc \in Scan, NEW s \in Seq(Entries), ScanFits(k, sc, s),
           NEW t \in Seq(Entries), Len(t) = Len(s) + 1,
           \A p \in 1 .. Len(s) : t[p] = s[p],
           NEW q, q = [k EXCEPT !.stale = TRUE],
           NEW z \in Scan, z.missing = sc.missing, ~z.rmall, z.deletes = sc.deletes
    PROVE  ScanFits(q, z, t)
<1>1. /\ k.pos \in Nat /\ k.index \in Int /\ sc.deletes \in {0, 1} /\ Len(s) \in Nat
      /\ k.index <= k.pos /\ Passed(k, sc) <= Len(s)
      /\ ~k.stale => sc.deletes = 0
  BY DEF Cookie, ScanFits
<1>2. q.stale = TRUE /\ q.index = k.index /\ q.pos = k.pos
  BY DEF Cookie
<1>3. Passed(q, z) = k.index - sc.deletes /\ Passed(q, z) \in Int
  BY <1>1, <1>2 DEF Passed
<1>4. Passed(k, sc) \in Int /\ Passed(q, z) <= Passed(k, sc)
  BY <1>1, <1>3 DEF Passed
<1>5. Passed(q, z) <= Len(t)
  BY <1>1, <1>3, <1>4
<1>6. \A p \in 1 .. Passed(q, z) : t[p].name \notin z.missing
  <2> TAKE p \in 1 .. Passed(q, z)
  <2>1. p \in 1 .. Passed(k, sc) /\ p \in 1 .. Len(s)
    BY <1>1, <1>3, <1>4
  <2> QED
    BY <2>1 DEF ScanFits
<1> QED
  BY <1>1, <1>2, <1>5, <1>6 DEF ScanFits

\* What a scan is told of a deletion.
DeleteTold(sc, n) ==
    [(IF sc.last = n THEN sc ELSE NotRmall(sc))
        EXCEPT !.missing = @ \ {n}, !.deletes = @ + 1, !.got = @ \ {n}]

\* An entry goes under a scan: another than the one just returned, or that one.
LEMMA ScanDelete ==
    ASSUME NEW k \in Cookie, NEW sc \in Scan, NEW s \in Seq(Entries), NEW d, Contents(d, s),
           ScanFits(k, sc, s), sc.deletes < 1,
           NEW a \in 3 .. Len(s), NEW n, n = s[a].name, NEW t, Shrunk(d, s, a, t),
           NEW q, q = [k EXCEPT !.stale = TRUE],
           NEW z, z = DeleteTold(sc, n)
    PROVE  ScanFits(q, z, t)
<1>0. /\ t \in Seq(Entries) /\ Len(t) = Len(s) - 1
      /\ \A p \in 1 .. Len(s) - 1 : /\ p < a => t[p] = s[p]
                                    /\ p >= a => t[p] = s[p + 1]
      /\ NamesIn(t) = NamesIn(s) \ {n}
  BY DEF Shrunk
<1>1. /\ k.pos \in Nat /\ k.index \in Int /\ sc.deletes = 0 /\ Len(s) \in Nat
      /\ k.index <= k.pos /\ Passed(k, sc) <= Len(s) /\ DOMAIN s = 1 .. Len(s)
  BY DEF Cookie, ScanFits
<1>2. q.stale = TRUE /\ q.index = k.index /\ q.pos = k.pos
  BY DEF Cookie
<1>3. /\ z.deletes = 1 /\ z.missing = sc.missing \ {n}
      /\ sc.last = n => z.rmall = sc.rmall /\ z.got = sc.got \ {n} /\ z.last = n
      /\ sc.last # n => z.rmall = FALSE
  <2>1. CASE sc.last = n
    <3>1. z = [sc EXCEPT !.missing = @ \ {n}, !.deletes = @ + 1, !.got = @ \ {n}]
      BY <2>1 DEF DeleteTold
    <3>2. sc = [missing |-> sc.missing, deletes |-> sc.deletes, rmall |-> sc.rmall,
                got |-> sc.got, last |-> sc.last, again |-> sc.again]
      BY DEF Scan
    <3>3. z.deletes = sc.deletes + 1 /\ z.missing = sc.missing \ {n}
      BY <3>1, <3>2
    <3>4. z.got = sc.got \ {n} /\ z.last = sc.last
      BY <3>1, <3>2
    <3>5. z.rmall = sc.rmall
      BY <3>1, <3>2
    <3> QED
      BY <1>1, <2>1, <3>3, <3>4, <3>5
  <2>2. CASE sc.last # n
    <3>1. PICK y \in Scan : y = NotRmall(sc)
      BY ScanKinds
    <3>2. z = [y EXCEPT !.missing = @ \ {n}, !.deletes = @ + 1, !.got = @ \ {n}]
      BY <2>2, <3>1 DEF DeleteTold
    <3>3. y.missing = sc.missing /\ y.deletes = 0 /\ y.rmall = FALSE
      BY <1>1, <3>1 DEF NotRmall, Scan
    <3>4. z.deletes = y.deletes + 1 /\ z.missing = y.missing \ {n} /\ z.rmall = y.rmall
      BY <3>2 DEF Scan
    <3> QED
      BY <2>2, <3>3, <3>4
  <2> QED
    BY <2>1, <2>2
<1>4. Passed(q, z) = k.index - 1 /\ Passed(q, z) \in Int
  BY <1>1, <1>2, <1>3 DEF Passed
<1>5. Passed(k, sc) \in Int /\ k.index <= Passed(k, sc)
  BY <1>1 DEF Passed
<1>6. Passed(q, z) <= Len(t) /\ q.index <= q.pos
  BY <1>0, <1>1, <1>2, <1>4, <1>5
<1>7. \A p \in 1 .. Passed(q, z) : t[p].name \notin z.missing
  <2> TAKE p \in 1 .. Passed(q, z)
  <2>1. /\ p \in 1 .. Passed(k, sc) /\ p + 1 \in 1 .. Passed(k, sc)
        /\ p \in 1 .. Len(s) - 1 /\ p \in Int /\ a \in Int
    BY <1>1, <1>4, <1>5
  <2>2. t[p] = s[p] \/ t[p] = s[p + 1]
    BY <1>0, <2>1
  <2>3. t[p].name \notin sc.missing
    BY <2>1, <2>2 DEF ScanFits
  <2> QED
    BY <1>3, <2>3
<1>8. ASSUME z.rmall
      PROVE  /\ q.index = q.pos /\ z.got = FirstNames(t, Passed(q, z))
             /\ q.index >= 1 /\ z.last \notin NamesIn(t)
  <2>1. sc.last = n /\ sc.rmall /\ n \in NamesIn(s)
    <3>1. sc.last = n
      BY <1>3, <1>8
    <3>2. z.rmall = sc.rmall
      BY <1>3, <3>1
    <3>3. n \in NamesIn(s)
      BY <1>1 DEF NamesIn
    <3> QED
      BY <1>8, <3>1, <3>2, <3>3
  <2>2. ~k.stale
    BY <2>1 DEF ScanFits
  <2>3. /\ k.index = k.pos /\ k.pos >= 1 /\ n = s[k.pos].name
        /\ sc.got = FirstNames(s, k.pos) /\ k.pos <= Len(s)
    BY <1>1, <2>1, <2>2 DEF ScanFits, Passed
  <2>4. k.pos = a
    <3>1. k.pos \in DOMAIN s /\ a \in DOMAIN s
      BY <1>1, <2>3
    <3> QED
      BY <2>3, <3>1 DEF Contents
  <2>5. FirstNames(t, a - 1) = FirstNames(s, a) \ {n}
    <3>1. \A p \in 1 .. a - 1 : p \in 1 .. a /\ p \in DOMAIN s /\ p # a /\ t[p] = s[p]
      BY <1>0, <1>1
    <3>2. \A p \in 1 .. a : p = a \/ p \in 1 .. a - 1
      OBVIOUS
    <3>3. a \in DOMAIN s /\ \A p \in DOMAIN s : s[p].name = n => p = a
      BY <1>1 DEF Contents
    <3> QED
      BY <3>1, <3>2, <3>3 DEF FirstNames
  <2>6. Passed(q, z) = a - 1
    BY <1>4, <2>3, <2>4
  <2> QED
    BY <1>0, <1>2, <1>3, <2>1, <2>3, <2>4, <2>5, <2>6
<1>9. z.rmall \in BOOLEAN
  BY <1>3 DEF Scan
<1> QED
  BY <1>2, <1>3, <1>6, <1>7, <1>8 DEF ScanFits

\* The re-sync of readdir: one entry back, within the directory.
SteppedBack(k, s, q) ==
    /\ q \in Cookie /\ q.dir = k.dir /\ q.stale = FALSE /\ q.index = k.index - 1
    /\ q.pos = IF k.index <= 1 THEN 0
               ELSE IF k.index - 1 <= Len(s) THEN k.index - 1 ELSE Len(s)

LEMMA ResyncedIs ==
    ASSUME NEW k \in Cookie, NEW s \in Seq(Entries), s = data[k.dir], k.stale,
           NEW q, q = Resynced(k)
    PROVE  SteppedBack(k, s, q)
<1>1. k.index \in Int /\ k.dir \in Inums \cup {NoInum} /\ Len(s) \in Nat
  BY DEF Cookie
<1>2. PICK m : m = Min({Max({k.index - 1, 0}), Len(s)})
  OBVIOUS
<1>3. m \in Nat /\ m = IF k.index <= 1 THEN 0
                       ELSE IF k.index - 1 <= Len(s) THEN k.index - 1 ELSE Len(s)
  <2>1. PICK x \in Int : x = Max({k.index - 1, 0}) /\ x = IF k.index <= 1 THEN 0 ELSE k.index - 1
    <3>1. k.index - 1 \in Int /\ 0 \in Int
      BY <1>1
    <3>2. Max({k.index - 1, 0}) = IF k.index - 1 >= 0 THEN k.index - 1 ELSE 0
      BY <3>1, MinMax
    <3> QED
      BY <1>1, <3>2
  <2>2. m = IF x <= Len(s) THEN x ELSE Len(s)
    <3>1. PICK l \in Int : l = Len(s)
      BY <1>1
    <3>2. Min({x, l}) = IF x <= l THEN x ELSE l
      BY MinMax
    <3> QED
      BY <1>2, <2>1, <3>1, <3>2
  <2> QED
    BY <1>1, <2>1, <2>2
<1>4. q = [k EXCEPT !.pos = m, !.index = @ - 1, !.stale = FALSE]
  BY <1>2 DEF Resynced
<1>5. k = [dir |-> k.dir, pos |-> k.pos, index |-> k.index, stale |-> k.stale]
  BY DEF Cookie
<1>6. q = [dir |-> k.dir, pos |-> m, index |-> k.index - 1, stale |-> FALSE]
  BY <1>4, <1>5
<1>7. k.index - 1 \in Int
  BY <1>1
<1>8. q \in Cookie /\ q.dir = k.dir /\ q.stale = FALSE /\ q.pos = m /\ q.index = k.index - 1
  BY <1>1, <1>3, <1>6, <1>7 DEF Cookie
<1> QED
  BY <1>3, <1>8 DEF SteppedBack

\* readdir re-syncs: what is in front of its position has been passed.
Synced(k, sc, s, q) ==
    /\ q \in Cookie /\ q.dir = k.dir /\ q.stale = FALSE
    /\ q.pos <= Len(s) /\ q.index <= q.pos
    /\ \A p \in 1 .. q.pos : s[p].name \notin sc.missing
    /\ sc.rmall => /\ q.index = q.pos /\ sc.got = FirstNames(s, q.pos)
                   /\ sc.last \in NamesIn(s) => q.pos >= 1 /\ sc.last = s[q.pos].name

LEMMA ResyncedSays ==
    ASSUME NEW k \in Cookie, NEW sc \in Scan, NEW s \in Seq(Entries), s = data[k.dir],
           ScanFits(k, sc, s), NEW q, q = Resynced(k)
    PROVE  Synced(k, sc, s, q)
<1>1. /\ k.pos \in Nat /\ k.index \in Int /\ sc.deletes \in {0, 1} /\ Len(s) \in Nat
      /\ k.index <= k.pos /\ Passed(k, sc) <= Len(s)
      /\ k.stale \in BOOLEAN /\ k.dir \in Inums \cup {NoInum}
  BY DEF Cookie, ScanFits
<1>2. CASE ~k.stale
  <2>1. q = k
    BY <1>2 DEF Resynced
  <2>2. Passed(k, sc) = k.pos
    BY <1>2 DEF Passed
  <2>3. k.stale = FALSE
    BY <1>1, <1>2
  <2> QED
    BY <1>1, <1>2, <2>1, <2>2, <2>3 DEF ScanFits, Synced
<1>3. CASE k.stale
  <2>2. PICK m : m = IF k.index <= 1 THEN 0
                     ELSE IF k.index - 1 <= Len(s) THEN k.index - 1 ELSE Len(s)
    OBVIOUS
  <2>3. SteppedBack(k, s, q)
    BY <1>3, ResyncedIs
  <2>4. /\ q \in Cookie /\ q.dir = k.dir /\ q.stale = FALSE
        /\ q.pos = m /\ q.index = k.index - 1
    BY <2>2, <2>3 DEF SteppedBack
  <2>5. Passed(k, sc) = k.index - sc.deletes
    BY <1>3 DEF Passed
  <2>6. q.pos <= Len(s) /\ q.index <= q.pos
    BY <1>1, <2>2, <2>4, <2>5
  <2>7. \A p \in 1 .. q.pos : s[p].name \notin sc.missing
    <3> TAKE p \in 1 .. q.pos
    <3>1. p \in 1 .. Passed(k, sc)
      BY <1>1, <2>2, <2>4, <2>5
    <3> QED
      BY <3>1 DEF ScanFits
  <2>8. ASSUME sc.rmall
        PROVE  /\ q.index = q.pos /\ sc.got = FirstNames(s, q.pos)
               /\ sc.last \notin NamesIn(s)
    <3>1. /\ sc.got = FirstNames(s, Passed(k, sc)) /\ sc.deletes = 1 /\ k.index >= 1
          /\ sc.last \notin NamesIn(s)
      BY <1>3, <2>8 DEF ScanFits
    <3>2. q.pos = Passed(k, sc) /\ q.index = q.pos
      BY <1>1, <2>2, <2>4, <2>5, <3>1
    <3> QED
      BY <3>1, <3>2
  <2> QED
    BY <2>4, <2>6, <2>7, <2>8 DEF Synced
<1> QED
  BY <1>2, <1>3

\* readdir returns the next entry: in a scan like rmall's, not a second time.
LEMMA ScanRead ==
    ASSUME NEW k \in Cookie, NEW sc \in Scan, NEW s \in Seq(Entries), s = data[k.dir],
           NEW d, Contents(d, s), ScanFits(k, sc, s), ~sc.again,
           NEW q, q = Resynced(k), q.pos < Len(s), NEW n, n = s[q.pos + 1].name,
           NEW r, r = [q EXCEPT !.pos = @ + 1, !.index = @ + 1],
           NEW z, z = [Got(sc, n) EXCEPT !.missing = @ \ {n}, !.deletes = 0]
    PROVE  ScanFits(r, z, s) /\ ~z.again
<1>1. /\ q \in Cookie /\ q.dir = k.dir /\ q.stale = FALSE
      /\ q.pos <= Len(s) /\ q.index <= q.pos
      /\ \A p \in 1 .. q.pos : s[p].name \notin sc.missing
      /\ sc.rmall => q.index = q.pos /\ sc.got = FirstNames(s, q.pos)
  <2>1. Synced(k, sc, s, q)
    BY ResyncedSays
  <2> QED
    BY <2>1 DEF Synced
<1>2. q.pos \in Nat /\ q.index \in Int /\ Len(s) \in Nat /\ DOMAIN s = 1 .. Len(s)
  BY <1>1 DEF Cookie
<1>3. r.pos = q.pos + 1 /\ r.index = q.index + 1 /\ r.stale = FALSE
  BY <1>1 DEF Cookie
<1>4. /\ q.pos + 1 \in DOMAIN s
      /\ \A p \in 1 .. q.pos : p \in DOMAIN s /\ s[p].name # n
  <2>1. q.pos + 1 \in DOMAIN s
    BY <1>2
  <2>2. \A p \in 1 .. q.pos : p \in DOMAIN s /\ p # q.pos + 1
    BY <1>2
  <2> QED
    BY <2>1, <2>2 DEF Contents
<1>5. sc = [missing |-> sc.missing, deletes |-> sc.deletes, rmall |-> sc.rmall,
            got |-> sc.got, last |-> sc.last, again |-> sc.again]
  BY DEF Scan
<1>6. z.deletes = 0 /\ z.missing = sc.missing \ {n} /\ z.rmall = sc.rmall
  <2>1. CASE sc.rmall
    <3>1. z = [[sc EXCEPT !.got = @ \cup {n}, !.last = n, !.again = @ \/ n \in sc.got]
                  EXCEPT !.missing = @ \ {n}, !.deletes = 0]
      BY <2>1 DEF Got
    <3> QED
      BY <1>5, <3>1
  <2>2. CASE ~sc.rmall
    <3>1. z = [sc EXCEPT !.missing = @ \ {n}, !.deletes = 0]
      BY <2>2 DEF Got
    <3> QED
      BY <1>5, <3>1
  <2> QED
    BY <2>1, <2>2
<1>7. ~sc.rmall => ~z.again
  <2>1. ~sc.rmall => z = [sc EXCEPT !.missing = @ \ {n}, !.deletes = 0]
    BY DEF Got
  <2> QED
    BY <1>5, <2>1
<1>8. ASSUME sc.rmall
      PROVE  z.got = sc.got \cup {n} /\ z.last = n /\ ~z.again
  <2>1. z = [[sc EXCEPT !.got = @ \cup {n}, !.last = n, !.again = @ \/ n \in sc.got]
                EXCEPT !.missing = @ \ {n}, !.deletes = 0]
    BY <1>8 DEF Got
  <2>2. z.got = sc.got \cup {n} /\ z.last = n
    BY <1>5, <2>1
  <2>3. z.again <=> sc.again \/ n \in sc.got
    BY <1>5, <2>1
  <2>4. n \notin sc.got
    BY <1>1, <1>4, <1>8 DEF FirstNames
  <2> QED
    BY <2>2, <2>3, <2>4
<1>9. Passed(r, z) = q.pos + 1
  BY <1>3 DEF Passed
<1>10. \A p \in 1 .. Passed(r, z) : s[p].name \notin z.missing
  <2> TAKE p \in 1 .. Passed(r, z)
  <2>1. p = q.pos + 1 \/ p \in 1 .. q.pos
    BY <1>2, <1>9
  <2> QED
    BY <1>1, <1>6, <2>1
<1>11. sc.rmall => sc.got \cup {n} = FirstNames(s, q.pos + 1)
  <2>1. \A p : p \in 1 .. q.pos + 1 <=> p = q.pos + 1 \/ p \in 1 .. q.pos
    BY <1>2
  <2> QED
    BY <1>1, <2>1 DEF FirstNames
<1>12. ScanFits(r, z, s)
  <2>1. z.deletes \in {0, 1} /\ z.deletes = 0
    BY <1>6
  <2>3. r.index <= r.pos /\ Passed(r, z) <= Len(s)
    <3>1. q.index <= q.pos /\ q.pos < Len(s)
      BY <1>1
    <3> QED
      BY <1>2, <1>3, <1>9, <3>1
  <2>2. ASSUME z.rmall
        PROVE  /\ r.index = r.pos /\ z.got = FirstNames(s, Passed(r, z))
               /\ r.pos >= 1 /\ z.last = s[r.pos].name
    <3>1. sc.rmall
      BY <1>6, <2>2
    <3>2. q.index = q.pos /\ z.got = FirstNames(s, q.pos + 1) /\ z.last = n
      BY <1>1, <1>8, <1>11, <3>1
    <3>3. r.index = r.pos /\ r.pos >= 1
      BY <1>2, <1>3, <3>2
    <3> QED
      BY <1>3, <1>9, <3>2, <3>3
  <2> QED
    BY <1>3, <1>10, <2>1, <2>2, <2>3 DEF ScanFits
<1> QED
  BY <1>7, <1>8, <1>12

\* readdir at the end of the directory.
LEMMA ScanEnd ==
    ASSUME NEW k \in Cookie, NEW sc \in Scan, NEW s \in Seq(Entries), s = data[k.dir],
           ScanFits(k, sc, s), ~sc.again, NEW q, q = Resynced(k),
           NEW z, z = [sc EXCEPT !.deletes = 0]
    PROVE  ScanFits(q, z, s) /\ ~z.again
<1>1. /\ q.stale = FALSE /\ q.pos <= Len(s) /\ q.index <= q.pos
      /\ \A p \in 1 .. q.pos : s[p].name \notin sc.missing
      /\ sc.rmall => /\ q.index = q.pos /\ sc.got = FirstNames(s, q.pos)
                     /\ sc.last \in NamesIn(s) => q.pos >= 1 /\ sc.last = s[q.pos].name
  <2>1. Synced(k, sc, s, q)
    BY ResyncedSays
  <2> QED
    BY <2>1 DEF Synced
<1>2. /\ z.deletes = 0 /\ z.missing = sc.missing /\ z.rmall = sc.rmall
      /\ z.got = sc.got /\ z.last = sc.last /\ z.again = sc.again
  BY DEF Scan
<1>3. Passed(q, z) = q.pos
  BY <1>1 DEF Passed
<1> QED
  BY <1>1, <1>2, <1>3 DEF ScanFits

\* opendir and rewinddir.
StartCookie(d) == [NoCookie EXCEPT !.dir = d]
StartScan(s) == [NoScan EXCEPT !.missing = NamesIn(s)]

LEMMA ScanStart ==
    ASSUME NEW s \in Seq(Entries), NEW d \in Inums,
           NEW k, k = StartCookie(d), NEW z, z = StartScan(s)
    PROVE  k \in Cookie /\ z \in Scan /\ k.dir = d /\ ScanFits(k, z, s) /\ ~z.again
<1>1. k \in Cookie /\ k.dir = d /\ k.pos = 0 /\ k.index = 0 /\ k.stale = FALSE
  <2>1. k = [dir |-> d, pos |-> 0, index |-> 0, stale |-> FALSE]
    BY DEF StartCookie, NoCookie
  <2>2. PICK x \in Cookie : x = NoCookie
    BY ScanKinds
  <2>3. d \in Inums \cup {NoInum} /\ k = [x EXCEPT !.dir = d]
    BY <2>2 DEF StartCookie
  <2>4. k \in Cookie
    BY <2>3 DEF Cookie
  <2> QED
    BY <2>1, <2>4
<1>2. NamesIn(s) \subseteq AllNames
  <2>1. \A p \in DOMAIN s : s[p] \in Entries
    OBVIOUS
  <2> QED
    BY <2>1 DEF NamesIn, Entries
<1>3. /\ z \in Scan /\ z.deletes = 0 /\ z.got = {} /\ z.last = "" /\ z.again = FALSE
  BY <1>2 DEF StartScan, NoScan, Scan
<1>4. Passed(k, z) = 0 /\ FirstNames(s, 0) = {} /\ Len(s) \in Nat
  BY <1>1 DEF Passed, FirstNames
<1>5. "" \notin NamesIn(s)
  BY <1>2, NameParts
<1>6. \A p \in 1 .. Passed(k, z) : FALSE
  BY <1>4
<1>7. z.deletes \in {0, 1} /\ k.index <= k.pos /\ Passed(k, z) <= Len(s)
  <2>1. k.index = 0 /\ k.pos = 0 /\ Passed(k, z) = 0 /\ Len(s) \in Nat /\ z.deletes = 0
    BY <1>1, <1>3, <1>4
  <2> QED
    BY <2>1
<1>8. z.got = FirstNames(s, Passed(k, z)) /\ z.last \notin NamesIn(s)
  BY <1>3, <1>4, <1>5
<1>9. ScanFits(k, z, s)
  BY <1>1, <1>3, <1>6, <1>7, <1>8 DEF ScanFits
<1> QED
  BY <1>1, <1>3, <1>9
-----------------------------------------------------------------------------
(***************************************************************************)
(* Steps that leave the directories as they are.                           *)
(***************************************************************************)
LEMMA TypeSays ==
    ASSUME TypeOK
    PROVE  /\ \A c \in Cookies : cookie[c] \in Cookie /\ scan[c] \in Scan
           /\ cookie \in [Cookies -> Cookie] /\ scan \in [Cookies -> Scan]
           /\ data \in [Inums -> Seq(Entries)]
           /\ \A d \in Inums : /\ data[d] \in Seq(Entries) /\ Len(data[d]) \in Nat
                               /\ DOMAIN data[d] = 1 .. Len(data[d])
<1>1. cookie \in [Cookies -> Cookie] /\ scan \in [Cookies -> Scan]
  BY DEF TypeOK, Cookie, Scan
<1>2. data \in [Inums -> Seq(Entries)]
  BY DEF TypeOK, Entries
<1>3. \A d \in Inums : /\ data[d] \in Seq(Entries) /\ Len(data[d]) \in Nat
                       /\ DOMAIN data[d] = 1 .. Len(data[d])
  BY <1>2
<1> QED
  BY <1>1, <1>2, <1>3

\* The descriptors of a directory are counted by a natural number.
OpenCounted == \A i : IsFiniteSet(OnDir(i)) /\ Cardinality(OnDir(i)) \in Nat

LEMMA OpenCount == OpenCounted
<1>1. \A i : IsFiniteSet(OnDir(i))
  BY DirectoryAssumption, FS_Subset DEF OnDir
<1> QED
  BY <1>1, FS_CardinalityType DEF OpenCounted

LEMMA OpenCountNext == OpenCounted'
  BY OpenCount, PTL

\* A directory without references is not being read.
LEMMA NobodyReads ==
    ASSUME IInv, NEW d \in Inums, refs[d] = 0
    PROVE  OnDir(d) = {}
<1>1. IsFiniteSet(OnDir(d)) /\ Cardinality(OnDir(d)) \in Nat /\ 0 >= Cardinality(OnDir(d))
  BY OpenCount DEF IInv, OpenTold, OpenCounted
<1>2. Cardinality(OnDir(d)) = 0
  BY <1>1
<1> QED
  BY <1>1, <1>2, FS_EmptySet

\* Contents are loaded or released, or a reference is taken.
LEMMA LoadStep ==
    ASSUME IInv, used' = used, isdir' = isdir, data' = data, removed' = removed,
           orphans' = orphans,
           cookie' = cookie, scan' = scan, loaded' \subseteq Inums,
           refs' \in [Inums -> Nat], \A i \in Inums : refs'[i] >= refs[i],
           RmdirNames \subseteq Names => refs' = refs,
           \A c \in Cookies : cookie[c].dir # NoInum => cookie[c].dir \in loaded'
    PROVE  IInv'
<1>1. \A i : OnDir(i)' = OnDir(i)
  BY DEF OnDir
<1>2. refs \in [Inums -> Nat] /\ \A i \in Inums : Cardinality(OnDir(i)) \in Nat
  BY OpenCount DEF IInv, TypeOK, OpenCounted
<1>3. TypeOK'
  BY DEF IInv, TypeOK
<1>4. ContentsTold'
  BY DEF IInv, ContentsTold
<1>5. OpenTold'
  <2>1. \A i \in Inums : refs'[i] >= Cardinality(OnDir(i))
    <3> TAKE i \in Inums
    <3>1. refs[i] >= Cardinality(OnDir(i)) /\ refs'[i] >= refs[i] /\ refs'[i] \in Nat
      BY DEF IInv, OpenTold
    <3> QED
      BY <1>2, <3>1
  <2> QED
    BY <1>1, <2>1 DEF IInv, OpenTold
<1>6. RmdirNames \subseteq Names => RefsExact'
  BY <1>1 DEF IInv, RefsExact
<1>7. MaxDeletes <= 1 => ScansTold'
  BY DEF IInv, ScansTold
<1>8. TreeTold'
  <2>1. TreeTold
    BY DEF IInv
  <2>2. \A d \in removed : refs'[d] > 0
    <3> TAKE d \in removed
    <3>1. d \in Inums /\ refs[d] > 0 /\ refs[d] \in Nat /\ refs'[d] \in Nat /\ refs'[d] >= refs[d]
      BY <1>2, <2>1 DEF TreeTold, IInv, TypeOK
    <3> QED
      BY <3>1
  <2>3. Dirs' = Dirs
    BY DEF Dirs
  <2> QED
    BY <2>1, <2>2, <2>3 DEF TreeTold
<1> QED
  BY <1>3, <1>4, <1>5, <1>6, <1>7, <1>8 DEF IInv

\* walk, create and mkdir of a name that is there, unlink that fails, rmdir
\* that fails, and the release of a vnode.
LEMMA LoadsStep ==
    ASSUME IInv, NEW d \in Inums,
           \/ \E n \in Names : Walk(d, n) \/ UnlinkFails(d, n)
           \/ \E n \in RmdirNames : RmdirFails(d, n)
           \/ Release(d)
    PROVE  IInv'
<1>1. /\ loaded \subseteq Inums /\ refs \in [Inums -> Nat]
      /\ \A c \in Cookies : cookie[c].dir # NoInum => cookie[c].dir \in loaded
  BY DEF IInv, TypeOK, OpenTold
<1>2. CASE \E n \in Names : Walk(d, n) \/ UnlinkFails(d, n)
  <2>1. /\ loaded' = loaded \cup {d} /\ used' = used /\ isdir' = isdir /\ data' = data
        /\ refs' = refs /\ removed' = removed /\ orphans' = orphans
        /\ cookie' = cookie /\ scan' = scan
    BY <1>2 DEF Walk, UnlinkFails, Looked
  <2>2. \A i \in Inums : refs'[i] >= refs[i]
    BY <1>1, <2>1
  <2> QED
    BY <1>1, <2>1, <2>2, LoadStep
<1>3. ASSUME NEW n \in RmdirNames, RmdirFails(d, n) PROVE IInv'
  <2>1. PICK i : i = dir_lookup(d, n)
    OBVIOUS
  <2>2. /\ n \in {".", ".."} \/ ~MayRemove(i)
        /\ refs' = IF MayRemove(i) THEN [refs EXCEPT ![i] = @ + 1] ELSE refs
        /\ loaded' = loaded \cup {d} /\ used' = used /\ isdir' = isdir /\ data' = data
        /\ removed' = removed /\ orphans' = orphans /\ cookie' = cookie /\ scan' = scan
    BY <1>3, <2>1 DEF RmdirFails
  <2>3. MayRemove(i) => i \in Inums
    BY DEF MayRemove, IInv, TypeOK
  <2>4. refs' \in [Inums -> Nat] /\ \A j \in Inums : refs'[j] >= refs[j]
    <3>1. CASE MayRemove(i)
      <4>1. i \in Inums /\ refs' = [refs EXCEPT ![i] = refs[i] + 1] /\ refs[i] + 1 \in Nat
        BY <1>1, <2>2, <2>3, <3>1
      <4> QED
        BY <1>1, <4>1
    <3>2. CASE ~MayRemove(i)
      BY <1>1, <2>2, <3>2
    <3> QED
      BY <3>1, <3>2
  <2>5. RmdirNames \subseteq Names => refs' = refs
    <3>1. RmdirNames \subseteq Names => n \notin {".", ".."}
      BY NameParts
    <3> QED
      BY <2>2, <3>1
  <2> QED
    BY <1>1, <2>2, <2>4, <2>5, LoadStep
<1>4. CASE Release(d)
  <2>1. /\ refs[d] = 0 /\ loaded' = loaded \ {d} /\ used' = used /\ isdir' = isdir
        /\ data' = data /\ refs' = refs /\ removed' = removed /\ cookie' = cookie
        /\ orphans' = orphans
        /\ scan' = scan
    BY <1>4 DEF Release
  <2>2. \A c \in Cookies : cookie[c].dir # d
    <3>1. OnDir(d) = {}
      BY <2>1, NobodyReads
    <3> QED
      BY <3>1 DEF OnDir
  <2>3. \A i \in Inums : refs'[i] >= refs[i]
    BY <1>1, <2>1
  <2> QED
    BY <1>1, <2>1, <2>2, <2>3, LoadStep
<1> QED
  BY <1>2, <1>3, <1>4

\* A call on a descriptor that stays open.
LEMMA CookieStep ==
    ASSUME IInv, NEW c \in Cookies, NEW k \in Cookie, NEW z \in Scan,
           k.dir = cookie[c].dir, k.dir # NoInum,
           cookie' = [cookie EXCEPT ![c] = k], scan' = [scan EXCEPT ![c] = z],
           dirVars' = dirVars,
           MaxDeletes <= 1 => ScanFits(k, z, data[k.dir]) /\ ~z.again
    PROVE  IInv'
<1>1. /\ used' = used /\ isdir' = isdir /\ data' = data /\ loaded' = loaded
      /\ refs' = refs /\ removed' = removed /\ orphans' = orphans
  BY DEF dirVars
<1>2. /\ cookie \in [Cookies -> Cookie] /\ scan \in [Cookies -> Scan]
  BY TypeSays DEF IInv
<1>3. /\ cookie'[c] = k /\ scan'[c] = z
      /\ \A b \in Cookies \ {c} : cookie'[b] = cookie[b] /\ scan'[b] = scan[b]
  BY <1>2
<1>4. \A b \in Cookies : cookie'[b].dir = cookie[b].dir
  BY <1>3
<1>5. \A i : OnDir(i)' = OnDir(i)
  BY <1>4 DEF OnDir
<1>6. TypeOK'
  <2>1. cookie' \in [Cookies -> Cookie] /\ scan' \in [Cookies -> Scan]
    BY <1>2
  <2> QED
    BY <1>1, <2>1 DEF IInv, TypeOK, Cookie, Scan
<1>7. ContentsTold'
  BY <1>1 DEF IInv, ContentsTold
<1>8. OpenTold'
  BY <1>1, <1>4, <1>5 DEF IInv, OpenTold
<1>9. RmdirNames \subseteq Names => RefsExact'
  BY <1>1, <1>5 DEF IInv, RefsExact
<1>10. MaxDeletes <= 1 => ScansTold'
  <2> SUFFICES ASSUME MaxDeletes <= 1, NEW b \in Cookies
               PROVE  /\ ~scan'[b].again
                      /\ cookie'[b].dir # NoInum =>
                            ScanFits(cookie'[b], scan'[b], data'[cookie'[b].dir])
    BY DEF ScansTold, ScanFits, Passed, FirstNames, NamesIn
  <2>1. CASE b = c
    BY <1>1, <1>3, <2>1
  <2>2. CASE b # c
    BY <1>1, <1>3, <2>2 DEF IInv, ScansTold
  <2> QED
    BY <2>1, <2>2
<1>11. TreeTold'
  <2>1. Dirs' = Dirs
    BY <1>1 DEF Dirs
  <2> QED
    BY <1>1, <2>1 DEF IInv, TreeTold
<1> QED
  BY <1>1, <1>6, <1>7, <1>8, <1>9, <1>10, <1>11 DEF IInv

\* A directory that is being read is one, and its contents are in core.
LEMMA ReadSays ==
    ASSUME IInv, NEW c \in Cookies, cookie[c].dir # NoInum
    PROVE  /\ cookie[c].dir \in loaded /\ cookie[c].dir \in isdir /\ cookie[c].dir \in Inums
           /\ data[cookie[c].dir] \in Seq(Entries)
           /\ Contents(cookie[c].dir, data[cookie[c].dir])
           /\ refs[cookie[c].dir] \in Nat /\ refs[cookie[c].dir] > 0
<1>1. PICK d : d = cookie[c].dir
  OBVIOUS
<1>2. d \in loaded /\ d \in isdir /\ d \in Inums
  BY <1>1 DEF IInv, OpenTold, TypeOK
<1>3. data[d] \in Seq(Entries) /\ Contents(d, data[d])
  BY <1>2, TypeSays DEF IInv, ContentsTold
<1>4. refs[d] \in Nat /\ refs[d] > 0
  <2>1. refs[d] # 0
    <3>1. OnDir(d) # {}
      BY <1>1 DEF OnDir
    <3> QED
      BY <1>2, <3>1, NobodyReads
  <2>2. refs[d] \in Nat
    BY <1>2 DEF IInv, TypeOK
  <2> QED
    BY <2>1, <2>2
<1> QED
  BY <1>1, <1>2, <1>3, <1>4

LEMMA RewinddirStep ==
    ASSUME IInv, NEW c \in Cookies, Rewinddir(c)
    PROVE  IInv'
<1>1. PICK d : d = cookie[c].dir
  OBVIOUS
<1>2. d \in Inums /\ d # NoInum /\ data[d] \in Seq(Entries)
  BY <1>1, ReadSays DEF Rewinddir
<1>3. PICK k, z : k = StartCookie(d) /\ z = StartScan(data[d])
  OBVIOUS
<1>4. k \in Cookie /\ z \in Scan /\ k.dir = d /\ ScanFits(k, z, data[d]) /\ ~z.again
  <2>1. PICK s \in Seq(Entries) : s = data[d]
    BY <1>2
  <2>2. z = StartScan(s)
    BY <1>3, <2>1
  <2> QED
    BY <1>2, <1>3, <2>1, <2>2, ScanStart
<1>5. /\ cookie' = [cookie EXCEPT ![c] = k] /\ scan' = [scan EXCEPT ![c] = z]
      /\ dirVars' = dirVars
  BY <1>1, <1>3 DEF Rewinddir, Started, StartCookie, StartScan
<1> QED
  BY <1>1, <1>2, <1>4, <1>5, CookieStep

LEMMA ReaddirStep ==
    ASSUME IInv, NEW c \in Cookies, Readdir(c)
    PROVE  IInv'
<1>1. PICK d, s : d = cookie[c].dir /\ s = data[d]
  OBVIOUS
<1>2. d \in Inums /\ d # NoInum
  BY <1>1, DirectoryAssumption DEF Readdir, IInv, TypeOK
<1>3. s \in Seq(Entries) /\ Contents(d, s)
  BY <1>1, <1>2, ReadSays
<1>4. cookie[c] \in Cookie /\ scan[c] \in Scan
  BY TypeSays DEF IInv
<1>5. PICK k : k = cookie[c]
  OBVIOUS
<1>6. PICK sc : sc = scan[c]
  OBVIOUS
<1>7. PICK q : q = Resynced(k)
  OBVIOUS
<1>8. q.dir = d /\ q \in Cookie /\ q.stale \in BOOLEAN
  <2>1. CASE k.stale
    <3>1. k \in Cookie /\ s = data[k.dir]
      BY <1>1, <1>4, <1>5
    <3>2. SteppedBack(k, s, q)
      BY <1>3, <1>7, <2>1, <3>1, ResyncedIs
    <3> QED
      BY <1>1, <1>5, <3>2 DEF SteppedBack
  <2>2. CASE ~k.stale
    <3>1. q = k
      BY <1>7, <2>2 DEF Resynced
    <3> QED
      BY <1>1, <1>4, <1>5, <3>1 DEF Cookie
  <2> QED
    BY <2>1, <2>2
<1>9. PICK n : n = s[q.pos + 1].name
  OBVIOUS
<1>10. PICK r, z : /\ r = [q EXCEPT !.pos = @ + 1, !.index = @ + 1]
                   /\ z = [Got(sc, n) EXCEPT !.missing = @ \ {n}, !.deletes = 0]
  OBVIOUS
<1>11. /\ q.pos < Len(s)
       /\ cookie' = [cookie EXCEPT ![c] = r] /\ scan' = [scan EXCEPT ![c] = z]
       /\ dirVars' = dirVars
  <2>1. Resynced(cookie[c]) = q /\ data[q.dir] = s
    BY <1>1, <1>5, <1>7, <1>8
  <2>2. /\ q.pos < Len(data[q.dir])
        /\ cookie' = [cookie EXCEPT ![c] = [q EXCEPT !.pos = @ + 1, !.index = @ + 1]]
        /\ scan' = [scan EXCEPT ![c] =
              [Got(scan[c], data[q.dir][q.pos + 1].name) EXCEPT
                  !.missing = @ \ {data[q.dir][q.pos + 1].name}, !.deletes = 0]]
        /\ dirVars' = dirVars
    BY <2>1 DEF Readdir
  <2>3. scan' = [scan EXCEPT ![c] = z]
    <3>1. data[q.dir][q.pos + 1].name = n
      BY <1>9, <2>1
    <3>2. [Got(scan[c], n) EXCEPT !.missing = @ \ {n}, !.deletes = 0] = z
      BY <1>6, <1>10
    <3> QED
      BY <2>2, <3>1, <3>2
  <2> QED
    BY <1>10, <2>1, <2>2, <2>3
<1>12. r \in Cookie /\ r.dir = d
  <2>1. q.pos + 1 \in Nat /\ q.index + 1 \in Int
    BY <1>8 DEF Cookie
  <2> QED
    BY <1>8, <1>10, <2>1 DEF Cookie
<1>13. z \in Scan
  <2>1. n \in AllNames
    <3>1. q.pos + 1 \in DOMAIN s
      BY <1>3, <1>8, <1>11 DEF Cookie
    <3>2. s[q.pos + 1] \in Entries
      BY <1>3, <3>1
    <3> QED
      BY <1>9, <3>2 DEF Entries
  <2>2. PICK g : g = Got(sc, n)
    OBVIOUS
  <2>3. g \in Scan
    <3>1. CASE sc.rmall
      <4>1. g = [sc EXCEPT !.got = @ \cup {n}, !.last = n, !.again = @ \/ n \in sc.got]
        BY <2>2, <3>1 DEF Got
      <4>2. (sc.again \/ n \in sc.got) \in BOOLEAN
        OBVIOUS
      <4> QED
        BY <1>4, <1>6, <2>1, <4>1, <4>2 DEF Scan
    <3>2. CASE ~sc.rmall
      BY <1>4, <1>6, <2>2, <3>2 DEF Got
    <3> QED
      BY <3>1, <3>2
  <2> QED
    BY <1>10, <2>2, <2>3 DEF Scan
<1>14. MaxDeletes <= 1 => ScanFits(r, z, s) /\ ~z.again
  <2> SUFFICES ASSUME MaxDeletes <= 1 PROVE ScanFits(r, z, s) /\ ~z.again
    OBVIOUS
  <2>1. ScanFits(k, sc, s) /\ ~sc.again /\ s = data[k.dir] /\ k \in Cookie /\ sc \in Scan
    BY <1>1, <1>2, <1>4, <1>5, <1>6 DEF IInv, ScansTold
  <2> QED
    BY <1>3, <1>7, <1>9, <1>10, <1>11, <2>1, ScanRead
<1> QED
  BY <1>1, <1>2, <1>11, <1>12, <1>13, <1>14, CookieStep

LEMMA ReaddirEndStep ==
    ASSUME IInv, NEW c \in Cookies, ReaddirEnd(c)
    PROVE  IInv'
<1>1. PICK d, s : d = cookie[c].dir /\ s = data[d]
  OBVIOUS
<1>2. cookie[c] \in Cookie /\ scan[c] \in Scan
  BY TypeSays DEF IInv
<1>3. d # NoInum
  <2>1. NoInum \notin loaded
    BY DirectoryAssumption DEF IInv, TypeOK
  <2> QED
    BY <1>1, <2>1 DEF ReaddirEnd
<1>4. d \in loaded /\ d \in Inums /\ s \in Seq(Entries)
  BY <1>1, <1>3, ReadSays
<1>5. PICK k : k = cookie[c]
  OBVIOUS
<1>6. PICK sc : sc = scan[c]
  OBVIOUS
<1>7. PICK q : q = Resynced(k)
  OBVIOUS
<1>8. PICK z : z = [sc EXCEPT !.deletes = 0]
  OBVIOUS
<1>9. /\ cookie' = [cookie EXCEPT ![c] = q] /\ scan' = [scan EXCEPT ![c] = z]
      /\ dirVars' = dirVars
  BY <1>1, <1>4, <1>5, <1>6, <1>7, <1>8 DEF ReaddirEnd
<1>10. k \in Cookie /\ sc \in Scan /\ s = data[k.dir] /\ k.dir = d
  BY <1>1, <1>2, <1>5, <1>6
<1>11. q \in Cookie /\ q.dir = d
  <2>1. CASE k.stale
    <3>1. SteppedBack(k, s, q)
      BY <1>4, <1>7, <1>10, <2>1, ResyncedIs
    <3> QED
      BY <1>10, <3>1 DEF SteppedBack
  <2>2. CASE ~k.stale
    BY <1>7, <1>10, <2>2 DEF Resynced
  <2> QED
    BY <2>1, <2>2
<1>12. z \in Scan
  BY <1>8, <1>10 DEF Scan
<1>13. MaxDeletes <= 1 => ScanFits(q, z, s) /\ ~z.again
  <2> SUFFICES ASSUME MaxDeletes <= 1 PROVE ScanFits(q, z, s) /\ ~z.again
    OBVIOUS
  <2>1. ScanFits(k, sc, s) /\ ~sc.again
    BY <1>1, <1>3, <1>5, <1>6 DEF IInv, ScansTold
  <2> QED
    BY <1>4, <1>7, <1>8, <1>10, <2>1, ScanEnd
<1> QED
  BY <1>1, <1>3, <1>9, <1>11, <1>12, <1>13, CookieStep

LEMMA OpendirStep ==
    ASSUME IInv, NEW c \in Cookies, NEW d \in Inums, Opendir(c, d)
    PROVE  IInv'
<1>1. /\ d \in isdir /\ d \notin removed /\ cookie[c].dir = NoInum
      /\ loaded' = loaded \cup {d} /\ refs' = [refs EXCEPT ![d] = refs[d] + 1]
      /\ used' = used /\ isdir' = isdir /\ data' = data /\ removed' = removed
      /\ orphans' = orphans
  BY DEF Opendir, Dirs
<1>2. PICK s \in Seq(Entries) : s = data[d]
  BY TypeSays DEF IInv
<1>3. PICK k, z : k = StartCookie(d) /\ z = StartScan(s)
  OBVIOUS
<1>4. k \in Cookie /\ z \in Scan /\ k.dir = d /\ ScanFits(k, z, s) /\ ~z.again
  BY <1>2, <1>3, ScanStart
<1>5. cookie' = [cookie EXCEPT ![c] = k] /\ scan' = [scan EXCEPT ![c] = z]
  BY <1>2, <1>3 DEF Opendir, Started, StartCookie, StartScan
<1>6. cookie \in [Cookies -> Cookie] /\ scan \in [Cookies -> Scan] /\ refs \in [Inums -> Nat]
  BY TypeSays DEF IInv, TypeOK
<1>7. /\ cookie'[c] = k /\ scan'[c] = z
      /\ \A b \in Cookies \ {c} : cookie'[b] = cookie[b] /\ scan'[b] = scan[b]
  BY <1>5, <1>6
<1>8. /\ refs' \in [Inums -> Nat] /\ refs'[d] = refs[d] + 1
      /\ \A i \in Inums \ {d} : refs'[i] = refs[i]
  <2>1. refs[d] + 1 \in Nat
    BY <1>6
  <2> QED
    BY <1>1, <1>6, <2>1
<1>9. /\ \A i \in Inums \ {d} : Cardinality(OnDir(i)') = Cardinality(OnDir(i))
      /\ Cardinality(OnDir(d)') = Cardinality(OnDir(d)) + 1
  <2>1. \A i \in Inums \ {d} : OnDir(i)' = OnDir(i)
    BY <1>1, <1>4, <1>7, DirectoryAssumption DEF OnDir
  <2>2. OnDir(d)' = OnDir(d) \cup {c} /\ c \notin OnDir(d)
    BY <1>1, <1>4, <1>7, DirectoryAssumption DEF OnDir
  <2>3. Cardinality(OnDir(d) \cup {c}) = Cardinality(OnDir(d)) + 1
    BY <2>2, OpenCount, FS_AddElement DEF OpenCounted
  <2> QED
    BY <2>1, <2>2, <2>3
<1>10. \A i \in Inums : Cardinality(OnDir(i)) \in Nat /\ refs[i] \in Nat
  BY <1>6, OpenCount DEF OpenCounted
<1>11. TypeOK'
  <2>1. cookie' \in [Cookies -> Cookie] /\ scan' \in [Cookies -> Scan]
    BY <1>4, <1>5, <1>6
  <2> QED
    BY <1>1, <1>8, <2>1 DEF IInv, TypeOK, Cookie, Scan
<1>12. ContentsTold'
  BY <1>1 DEF IInv, ContentsTold
<1>13. OpenTold'
  <2>1. \A b \in Cookies : cookie'[b].dir # NoInum => cookie'[b].dir \in loaded' \cap isdir'
    BY <1>1, <1>4, <1>7 DEF IInv, OpenTold
  <2>2. \A i \in Inums : refs'[i] >= Cardinality(OnDir(i)')
    BY <1>8, <1>9, <1>10 DEF IInv, OpenTold
  <2> QED
    BY <2>1, <2>2 DEF OpenTold
<1>14. RmdirNames \subseteq Names => RefsExact'
  BY <1>8, <1>9, <1>10 DEF IInv, RefsExact
<1>15. MaxDeletes <= 1 => ScansTold'
  <2> SUFFICES ASSUME MaxDeletes <= 1, NEW b \in Cookies
               PROVE  /\ ~scan'[b].again
                      /\ cookie'[b].dir # NoInum =>
                            ScanFits(cookie'[b], scan'[b], data'[cookie'[b].dir])
    BY DEF ScansTold, ScanFits, Passed, FirstNames, NamesIn
  <2>1. CASE b = c
    BY <1>1, <1>2, <1>4, <1>7, <2>1
  <2>2. CASE b # c
    BY <1>1, <1>7, <2>2 DEF IInv, ScansTold
  <2> QED
    BY <2>1, <2>2
<1>16. TreeTold'
  <2>1. TreeTold
    BY DEF IInv
  <2>2. Dirs' = Dirs
    BY <1>1 DEF Dirs
  <2>3. \A e \in removed : refs'[e] > 0
    <3> TAKE e \in removed
    <3>1. refs[e] > 0 /\ e \in Inums
      BY <2>1 DEF TreeTold, IInv, TypeOK
    <3> QED
      BY <1>1, <1>6, <1>8, <3>1
  <2>4. /\ removed \subseteq isdir /\ data[root][2].inum = root
        /\ orphans \subseteq used \ (removed \cup {root})
    BY <2>1 DEF TreeTold
  <2>5. /\ \A e \in Dirs : \A j \in 3 .. Len(data[e]) :
              data[e][j].inum \in used \ (removed \cup orphans \cup {e})
        /\ \A e, f \in Dirs : \A j \in 3 .. Len(data[e]), l \in 3 .. Len(data[f]) :
              data[e][j].inum = data[f][l].inum => e = f /\ j = l
    BY <2>1 DEF TreeTold
  <2>6. \A i \in used \ (removed \cup orphans \cup {root}) : \E e \in Dirs :
           /\ \E j \in 3 .. Len(data[e]) : data[e][j].inum = i
           /\ i \in isdir => data[i][2].inum = e
    BY <2>1 DEF TreeTold
  <2> QED
    BY <1>1, <2>2, <2>3, <2>4, <2>5, <2>6 DEF TreeTold
<1> QED
  BY <1>1, <1>11, <1>12, <1>13, <1>14, <1>15, <1>16 DEF IInv

LEMMA ClosedirStep ==
    ASSUME IInv, NEW c \in Cookies, Closedir(c)
    PROVE  IInv'
<1>1. PICK d : d = cookie[c].dir
  OBVIOUS
<1>2. PICK gone : gone = IF d \in removed /\ refs[d] = 1 THEN {d} ELSE {}
  OBVIOUS
<1>3. /\ d # NoInum /\ refs' = [refs EXCEPT ![d] = refs[d] - 1]
      /\ used' = used \ gone /\ isdir' = isdir \ gone
      /\ loaded' = loaded \ gone /\ removed' = removed \ gone /\ orphans' = orphans
      /\ data' = [i \in Inums |-> IF i \in gone THEN <<>> ELSE data[i]]
      /\ cookie' = [cookie EXCEPT ![c] = NoCookie] /\ scan' = [scan EXCEPT ![c] = NoScan]
  BY <1>1, <1>2 DEF Closedir
<1>4. d \in loaded /\ d \in isdir /\ d \in Inums /\ refs[d] \in Nat /\ refs[d] > 0
  BY <1>1, <1>3, ReadSays
<1>5. /\ cookie \in [Cookies -> Cookie] /\ scan \in [Cookies -> Scan]
      /\ refs \in [Inums -> Nat] /\ data \in [Inums -> Seq(Entries)]
  BY TypeSays DEF IInv, TypeOK
<1>6. /\ NoCookie \in Cookie /\ NoScan \in Scan /\ NoCookie.dir = NoInum /\ NoScan.again = FALSE
  BY ScanKinds DEF NoCookie, NoScan
<1>7. /\ cookie'[c] = NoCookie /\ scan'[c] = NoScan
      /\ \A b \in Cookies \ {c} : cookie'[b] = cookie[b] /\ scan'[b] = scan[b]
  BY <1>3, <1>5
<1>8. /\ refs' \in [Inums -> Nat] /\ refs'[d] = refs[d] - 1
      /\ \A i \in Inums \ {d} : refs'[i] = refs[i]
  <2>1. refs[d] - 1 \in Nat
    BY <1>4
  <2> QED
    BY <1>3, <1>4, <1>5, <2>1
<1>9. /\ \A i \in Inums \ {d} : Cardinality(OnDir(i)') = Cardinality(OnDir(i))
      /\ Cardinality(OnDir(d)') = Cardinality(OnDir(d)) - 1
  <2>1. \A i \in Inums \ {d} : OnDir(i)' = OnDir(i)
    BY <1>1, <1>6, <1>7, DirectoryAssumption DEF OnDir
  <2>2. OnDir(d)' = OnDir(d) \ {c} /\ c \in OnDir(d)
    BY <1>1, <1>3, <1>6, <1>7 DEF OnDir
  <2>3. Cardinality(OnDir(d) \ {c}) = Cardinality(OnDir(d)) - 1
    <3>1. IsFiniteSet(OnDir(d))
      BY OpenCount DEF OpenCounted
    <3> QED
      BY <2>2, <3>1, FS_RemoveElement, ZenonT(60)
  <2> QED
    BY <2>1, <2>2, <2>3
<1>10. \A i \in Inums : Cardinality(OnDir(i)) \in Nat /\ refs[i] \in Nat
  BY <1>5, OpenCount DEF OpenCounted
<1>11. \A b \in Cookies \ {c} : cookie[b].dir \notin gone
  <2> SUFFICES ASSUME NEW b \in Cookies \ {c}, cookie[b].dir \in gone PROVE FALSE
    OBVIOUS
  <2>1. cookie[b].dir = d /\ refs[d] = 1
    BY <1>2
  <2>2. Cardinality(OnDir(d)') = 0
    <3>1. 1 >= Cardinality(OnDir(d))
      BY <1>4, <2>1 DEF IInv, OpenTold
    <3>2. Cardinality(OnDir(d)') \in Nat
      BY OpenCountNext DEF OpenCounted
    <3> QED
      BY <1>4, <1>9, <1>10, <3>1, <3>2
  <2>3. OnDir(d)' = {}
    <3>1. IsFiniteSet(OnDir(d)')
      BY OpenCountNext DEF OpenCounted
    <3> QED
      BY <2>2, <3>1, FS_EmptySet
  <2>4. b \in OnDir(d)'
    BY <1>7, <2>1 DEF OnDir
  <2> QED
    BY <2>3, <2>4
<1>12. \A i \in Inums : i \notin gone => data'[i] = data[i]
  BY <1>3
<1>13. gone \subseteq removed /\ gone \subseteq {d}
  BY <1>2
<1>14. TypeOK'
  <2>1. cookie' \in [Cookies -> Cookie] /\ scan' \in [Cookies -> Scan]
    BY <1>3, <1>5, <1>6
  <2>2. data' \in [Inums -> Seq(Entries)]
    <3>1. <<>> \in Seq(Entries)
      OBVIOUS
    <3> QED
      BY <1>3, <1>5, <3>1
  <2>3. /\ used' \subseteq Inums /\ isdir' \subseteq used' /\ root \in isdir' \ removed'
        /\ loaded' \subseteq Inums /\ removed' \subseteq Inums /\ orphans' \subseteq Inums
    BY <1>3, <1>13 DEF IInv, TypeOK
  <2> QED
    BY <1>8, <2>1, <2>2, <2>3 DEF TypeOK, Cookie, Scan, Entries
<1>15. ContentsTold'
  <2> SUFFICES ASSUME NEW e \in isdir' PROVE Contents(e, data'[e])
    BY DEF ContentsTold, Contents
  <2>1. e \in isdir /\ e \notin gone /\ e \in Inums
    BY <1>3 DEF IInv, TypeOK
  <2> QED
    BY <1>12, <2>1 DEF IInv, ContentsTold
<1>16. OpenTold'
  <2>1. \A b \in Cookies : cookie'[b].dir # NoInum => cookie'[b].dir \in loaded' \cap isdir'
    BY <1>3, <1>6, <1>7, <1>11 DEF IInv, OpenTold
  <2>2. \A i \in Inums : refs'[i] >= Cardinality(OnDir(i)')
    <3> TAKE i \in Inums
    <3>1. refs[i] >= Cardinality(OnDir(i))
      BY DEF IInv, OpenTold
    <3> QED
      BY <1>8, <1>9, <1>10, <3>1
  <2> QED
    BY <2>1, <2>2 DEF OpenTold
<1>17. RmdirNames \subseteq Names => RefsExact'
  BY <1>8, <1>9, <1>10 DEF IInv, RefsExact
<1>18. MaxDeletes <= 1 => ScansTold'
  <2> SUFFICES ASSUME MaxDeletes <= 1, NEW b \in Cookies
               PROVE  /\ ~scan'[b].again
                      /\ cookie'[b].dir # NoInum =>
                            ScanFits(cookie'[b], scan'[b], data'[cookie'[b].dir])
    BY DEF ScansTold, ScanFits, Passed, FirstNames, NamesIn
  <2>1. CASE b = c
    BY <1>6, <1>7, <2>1
  <2>2. CASE b # c
    <3>1. /\ cookie'[b] = cookie[b] /\ scan'[b] = scan[b] /\ ~scan[b].again
          /\ cookie[b].dir # NoInum =>
                /\ ScanFits(cookie[b], scan[b], data[cookie[b].dir])
                /\ cookie[b].dir \in Inums /\ cookie[b].dir \notin gone
      BY <1>7, <1>11, <2>2, ReadSays DEF IInv, ScansTold
    <3> QED
      BY <1>12, <3>1
  <2> QED
    BY <2>1, <2>2
<1>19. TreeTold'
  <2>1. TreeTold
    BY DEF IInv
  <2>2. Dirs' = Dirs /\ Dirs \subseteq Inums /\ \A e \in Dirs : data'[e] = data[e]
    <3>1. Dirs' = Dirs
      BY <1>3, <1>13 DEF Dirs
    <3>2. \A e \in Dirs : e \in Inums /\ e \notin gone
      BY <1>13 DEF Dirs, IInv, TypeOK
    <3> QED
      BY <1>12, <3>1, <3>2
  <2>3. removed' \subseteq isdir' /\ orphans' \subseteq used' \ (removed' \cup {root})
    BY <1>3, <1>13, <2>1 DEF TreeTold
  <2>4. \A e \in removed' : refs'[e] > 0
    <3> TAKE e \in removed'
    <3>1. e \in removed /\ e \notin gone /\ e \in Inums
      BY <1>3 DEF IInv, TypeOK
    <3>2. refs[e] > 0
      BY <1>12, <2>1, <3>1 DEF TreeTold
    <3>3. e = d => refs[d] # 1
      BY <1>2, <3>1
    <3> QED
      BY <1>8, <1>10, <3>1, <3>2, <3>3
  <2>5. data'[root][2].inum = root
    <3>1. root \in Dirs
      BY DEF Dirs, IInv, TypeOK
    <3> QED
      BY <2>1, <2>2, <3>1 DEF TreeTold
  <2>6. \A e \in Dirs : \A k \in 3 .. Len(data'[e]) :
           data'[e][k].inum \in used' \ (removed' \cup orphans' \cup {e})
    BY <1>3, <1>13, <2>1, <2>2 DEF TreeTold
  <2>7. \A e, f \in Dirs : \A j \in 3 .. Len(data'[e]), k \in 3 .. Len(data'[f]) :
           data'[e][j].inum = data'[f][k].inum => e = f /\ j = k
    BY <2>1, <2>2 DEF TreeTold
  <2>8. \A i \in used' \ (removed' \cup orphans' \cup {root}) : \E e \in Dirs :
           /\ \E k \in 3 .. Len(data'[e]) : data'[e][k].inum = i
           /\ i \in isdir' => data'[i][2].inum = e
    <3> TAKE i \in used' \ (removed' \cup orphans' \cup {root})
    <3>1. i \in used \ (removed \cup orphans \cup {root}) /\ i \notin gone /\ i \in Inums
      BY <1>3 DEF IInv, TypeOK
    <3>2. PICK e \in Dirs : /\ \E k \in 3 .. Len(data[e]) : data[e][k].inum = i
                            /\ i \in isdir => data[i][2].inum = e
      BY <2>1, <3>1 DEF TreeTold
    <3> QED
      BY <1>3, <1>12, <2>2, <3>1, <3>2
  <2> QED
    BY <2>2, <2>3, <2>4, <2>5, <2>6, <2>7, <2>8 DEF TreeTold
<1> QED
  BY <1>3, <1>14, <1>15, <1>16, <1>17, <1>18, <1>19 DEF IInv
-----------------------------------------------------------------------------
(***************************************************************************)
(* Create and mkdir.                                                       *)
(***************************************************************************)
\* What dir_lookup says of a name.
LEMMA LookupSays ==
    ASSUME IInv, NEW d \in isdir, NEW n \in Names, NEW i, i = dir_lookup(d, n)
    PROVE  /\ i = NoInum => n \notin NamesIn(data[d])
           /\ i # NoInum => \E a \in 3 .. Len(data[d]) :
                               data[d][a].name = n /\ data[d][a].inum = i
<1>1. d \in Inums
  BY DEF IInv, TypeOK
<1>2. PICK s : s = data[d]
  OBVIOUS
<1>3. /\ s \in Seq(Entries) /\ Len(s) \in Nat /\ DOMAIN s = 1 .. Len(s) /\ Contents(d, s)
  BY <1>1, <1>2, TypeSays DEF IInv, ContentsTold
<1>4. CASE n \in NamesIn(s)
  <2>1. PICK e : e = CHOOSE x \in {s[k] : k \in DOMAIN s} : x.name = n
    OBVIOUS
  <2>2. e \in {s[k] : k \in DOMAIN s} /\ e.name = n
    BY <1>4, <2>1 DEF NamesIn
  <2>3. i = e.inum
    BY <1>2, <1>4, <2>1 DEF dir_lookup
  <2>4. PICK a \in DOMAIN s : e = s[a]
    BY <2>2
  <2>5. a \in 1 .. Len(s) /\ a # 1 /\ a # 2 /\ e \in Entries
    <3>1. s[1].name = "." /\ s[2].name = ".." /\ n # "." /\ n # ".."
      <4>1. s[1] = Entry(".", d) /\ s[2].name = ".."
        BY <1>3 DEF Contents
      <4>2. n # "." /\ n # ".."
        BY NameParts
      <4> QED
        BY <4>1, <4>2 DEF Entry
    <3> QED
      BY <1>3, <2>2, <2>4, <3>1
  <2>6. a \in 3 .. Len(s) /\ i \in Inums
    BY <1>3, <2>3, <2>5 DEF Entries
  <2> QED
    BY <1>2, <2>2, <2>3, <2>4, <2>6, DirectoryAssumption
<1>5. CASE n \notin NamesIn(s)
  BY <1>2, <1>5 DEF dir_lookup
<1> QED
  BY <1>4, <1>5

\* etc->counter++.
LEMMA StaleSays ==
    ASSUME IInv, NEW d \in Inums, cookie' = Stale(d)
    PROVE  /\ cookie' \in [Cookies -> Cookie]
           /\ \A c \in Cookies : /\ cookie'[c].dir = cookie[c].dir
                                 /\ cookie[c].dir = d =>
                                       cookie'[c] = [cookie[c] EXCEPT !.stale = TRUE]
                                 /\ cookie[c].dir # d => cookie'[c] = cookie[c]
           /\ \A i : OnDir(i)' = OnDir(i)
<1>1. \A c \in Cookies : cookie[c] \in Cookie
  BY TypeSays DEF IInv
<1>2. \A c \in Cookies : /\ cookie[c].dir = d =>
                               cookie'[c] = [cookie[c] EXCEPT !.stale = TRUE]
                         /\ cookie[c].dir # d => cookie'[c] = cookie[c]
  BY DEF Stale, OnDir
<1>3. \A c \in Cookies : cookie'[c] \in Cookie /\ cookie'[c].dir = cookie[c].dir
  <2> TAKE c \in Cookies
  <2>1. PICK k \in Cookie : k = cookie[c]
    BY <1>1
  <2>2. [k EXCEPT !.stale = TRUE] \in Cookie /\ [k EXCEPT !.stale = TRUE].dir = k.dir
    BY DEF Cookie
  <2> QED
    BY <1>2, <2>1, <2>2
<1>4. cookie' \in [Cookies -> Cookie]
  <2>1. cookie' = [c \in Cookies |-> cookie'[c]]
    BY DEF Stale
  <2> QED
    BY <1>3, <2>1
<1>5. \A i : OnDir(i)' = OnDir(i)
  BY <1>3 DEF OnDir
<1> QED
  BY <1>2, <1>3, <1>4, <1>5

\* dir_insert under the descriptors of the directory.
LEMMA InsertOpen ==
    ASSUME IInv, NEW d \in isdir, NEW n \in Names, n \notin NamesIn(data[d]),
           NEW i \in Inums \ used, AfterInsert(d), refs' = refs, isdir \subseteq isdir',
           data'[d] = Inserted(d, n, i), \A e \in isdir \ {d} : data'[e] = data[e]
    PROVE  /\ cookie' \in [Cookies -> Cookie] /\ scan' \in [Cookies -> Scan]
           /\ data'[d] \in Seq(Entries) /\ Contents(d, data'[d])
           /\ Len(data'[d]) = Len(data[d]) + 1
           /\ \A k \in 1 .. Len(data[d]) : data'[d][k] = data[d][k]
           /\ data'[d][Len(data[d]) + 1].inum = i
           /\ OpenTold' /\ (RmdirNames \subseteq Names => RefsExact')
           /\ (MaxDeletes <= 1 => ScansTold')
<1>1. d \in Inums /\ i # root
  BY DEF IInv, TypeOK
<1>2. PICK s, t : s = data[d] /\ t = data'[d]
  OBVIOUS
<1>3. s \in Seq(Entries) /\ Contents(d, s)
  BY <1>1, <1>2, TypeSays DEF IInv, ContentsTold
<1>4. /\ t \in Seq(Entries) /\ Contents(d, t) /\ Len(t) = Len(s) + 1
      /\ \A k \in 1 .. Len(s) : t[k] = s[k]
      /\ t[Len(t)].inum = i /\ t[Len(t)].name = n
  <2>1. t = Append(s, Entry(n, i)) /\ n \notin NamesIn(s) /\ i \in Inums
    BY <1>2 DEF Inserted
  <2>2. Grown(d, s, n, i, t)
    BY <1>1, <1>3, <2>1, AppendContents
  <2> QED
    BY <2>2 DEF Grown
<1>5. /\ cookie' \in [Cookies -> Cookie]
      /\ \A c \in Cookies : /\ cookie'[c].dir = cookie[c].dir
                            /\ cookie[c].dir = d =>
                                  cookie'[c] = [cookie[c] EXCEPT !.stale = TRUE]
                            /\ cookie[c].dir # d => cookie'[c] = cookie[c]
      /\ \A x : OnDir(x)' = OnDir(x)
  BY <1>1, StaleSays DEF AfterInsert
<1>6. /\ scan' \in [Cookies -> Scan]
      /\ \A c \in Cookies : /\ cookie[c].dir = d => scan'[c] = NotRmall(scan[c])
                            /\ cookie[c].dir # d => scan'[c] = scan[c]
  <2>1. \A c \in Cookies : scan[c] \in Scan /\ NotRmall(scan[c]) \in Scan
    BY TypeSays, ScanKinds DEF IInv
  <2>2. scan' = [c \in Cookies |-> IF c \in OnDir(d) THEN NotRmall(scan[c]) ELSE scan[c]]
    BY DEF AfterInsert
  <2> QED
    BY <2>1, <2>2 DEF OnDir
<1>7. OpenTold'
  <2>1. loaded' = loaded \cup {d}
    BY DEF AfterInsert
  <2> QED
    BY <1>5, <2>1 DEF IInv, OpenTold
<1>8. RmdirNames \subseteq Names => RefsExact'
  BY <1>5 DEF IInv, RefsExact
<1>9. MaxDeletes <= 1 => ScansTold'
  <2> SUFFICES ASSUME MaxDeletes <= 1, NEW c \in Cookies
               PROVE  /\ ~scan'[c].again
                      /\ cookie'[c].dir # NoInum =>
                            ScanFits(cookie'[c], scan'[c], data'[cookie'[c].dir])
    BY DEF ScansTold, ScanFits, Passed, FirstNames, NamesIn
  <2>1. /\ ~scan[c].again /\ cookie[c] \in Cookie /\ scan[c] \in Scan
        /\ cookie[c].dir # NoInum => ScanFits(cookie[c], scan[c], data[cookie[c].dir])
    BY TypeSays DEF IInv, ScansTold
  <2>2. CASE cookie[c].dir = d
    <3>1. PICK k \in Cookie, sc \in Scan : k = cookie[c] /\ sc = scan[c]
      BY <2>1
    <3>2. PICK q : q = [k EXCEPT !.stale = TRUE]
      OBVIOUS
    <3>3. PICK z : z = NotRmall(sc)
      OBVIOUS
    <3>4. z \in Scan /\ z.missing = sc.missing /\ ~z.rmall /\ z.deletes = sc.deletes /\ ~z.again
      BY <3>3, ScanKinds
    <3>5. ScanFits(k, sc, s)
      BY <1>1, <1>2, <2>1, <2>2, <3>1, DirectoryAssumption
    <3>6. ScanFits(q, z, t)
      BY <1>3, <1>4, <3>2, <3>4, <3>5, ScanAppend
    <3> QED
      BY <1>2, <1>5, <1>6, <2>2, <3>1, <3>2, <3>3, <3>4, <3>6
  <2>3. CASE cookie[c].dir # d
    <3>1. cookie[c].dir # NoInum => data'[cookie[c].dir] = data[cookie[c].dir]
      BY <2>3, ReadSays
    <3> QED
      BY <1>5, <1>6, <2>1, <2>3, <3>1
  <2> QED
    BY <2>2, <2>3
<1>10. t[Len(s) + 1].inum = i
  BY <1>4
<1> QED
  BY <1>2, <1>4, <1>5, <1>6, <1>7, <1>8, <1>9, <1>10

\* The tree gets a leaf.
LEMMA InsertTree ==
    ASSUME IInv, TreeTold, NEW d \in Dirs, NEW i \in Inums \ used,
           used' = used \cup {i}, removed' = removed, orphans' = orphans, refs' = refs,
           Len(data'[d]) = Len(data[d]) + 1,
           \A k \in 1 .. Len(data[d]) : data'[d][k] = data[d][k],
           data'[d][Len(data[d]) + 1].inum = i,
           \A e \in isdir \ {d} : data'[e] = data[e],
           \/ isdir' = isdir
           \/ isdir' = isdir \cup {i} /\ Len(data'[i]) = 2 /\ data'[i][2].inum = d
    PROVE  TreeTold'
<1>1. /\ Dirs \subseteq isdir /\ isdir \subseteq used /\ removed \subseteq isdir
      /\ root \in Dirs /\ i \notin removed /\ isdir \subseteq Inums /\ i # root
      /\ i \notin orphans /\ i # d
  <2>1. /\ isdir \subseteq used /\ used \subseteq Inums
        /\ root \in isdir /\ root \notin removed
    BY DEF IInv, TypeOK
  <2>2. removed \subseteq isdir /\ orphans \subseteq used
    BY DEF TreeTold
  <2>3. root \in Dirs /\ Dirs \subseteq isdir
    BY <2>1 DEF Dirs
  <2> QED
    BY <2>1, <2>2, <2>3
<1>2. /\ Dirs' \subseteq Dirs \cup {i} /\ Dirs \subseteq Dirs'
      /\ i \in Dirs' => Len(data'[i]) = 2 /\ data'[i][2].inum = d
  BY <1>1 DEF Dirs
<1>3. \A e \in isdir : /\ Len(data[e]) \in Nat /\ Len(data[e]) >= 2
                       /\ data'[e][2] = data[e][2]
                       /\ \A k \in 3 .. Len(data[e]) : /\ data'[e][k] = data[e][k]
                                                       /\ k \in 3 .. Len(data'[e])
  <2> TAKE e \in isdir
  <2>1. Len(data[e]) \in Nat /\ Len(data[e]) >= 2
    BY <1>1, TypeSays DEF IInv, ContentsTold, Contents
  <2>2. CASE e = d
    <3>1. 2 \in 1 .. Len(data[d]) /\ \A k \in 3 .. Len(data[d]) : k \in 1 .. Len(data[d])
      BY <2>1, <2>2
    <3>2. \A k \in 3 .. Len(data[d]) : k \in 3 .. Len(data'[d])
      BY <2>1, <2>2
    <3> QED
      BY <2>1, <2>2, <3>1, <3>2
  <2>3. CASE e # d
    BY <2>1, <2>3
  <2> QED
    BY <2>2, <2>3
<1>4. \A e \in Dirs' : \A k \in 3 .. Len(data'[e]) :
         \/ e = d /\ k = Len(data[d]) + 1 /\ data'[e][k].inum = i
         \/ e \in Dirs /\ k \in 3 .. Len(data[e]) /\ data'[e][k] = data[e][k]
  <2> TAKE e \in Dirs'
  <2> TAKE k \in 3 .. Len(data'[e])
  <2>1. CASE e = d
    <3>1. k = Len(data[d]) + 1 \/ k \in 3 .. Len(data[d])
      BY <1>1, <1>3, <2>1
    <3> QED
      BY <1>1, <1>3, <2>1, <3>1
  <2>2. CASE e # d /\ e \in Dirs
    <3>1. data'[e] = data[e]
      BY <1>1, <2>2
    <3> QED
      BY <2>2, <3>1
  <2>3. CASE e \notin Dirs
    <3>1. e = i /\ Len(data'[i]) = 2
      BY <1>2, <2>3
    <3> QED
      BY <3>1
  <2> QED
    BY <2>1, <2>2, <2>3
<1>5. removed' \subseteq isdir' /\ orphans' \subseteq used' \ (removed' \cup {root})
  BY <1>1 DEF TreeTold
<1>6. \A e \in removed : refs'[e] > 0
  BY DEF TreeTold
<1>7. data'[root][2].inum = root
  BY <1>1, <1>3 DEF TreeTold
<1>8. \A e \in Dirs' : \A k \in 3 .. Len(data'[e]) :
         data'[e][k].inum \in used' \ (removed' \cup orphans' \cup {e})
  BY <1>1, <1>4 DEF TreeTold
<1>9. \A e, f \in Dirs' : \A j \in 3 .. Len(data'[e]), k \in 3 .. Len(data'[f]) :
         data'[e][j].inum = data'[f][k].inum => e = f /\ j = k
  <2> TAKE e, f \in Dirs'
  <2> TAKE j \in 3 .. Len(data'[e]), k \in 3 .. Len(data'[f])
  <2>1. \A x \in Dirs : \A y \in 3 .. Len(data[x]) : data[x][y].inum # i
    BY DEF TreeTold
  <2>2. \/ e = d /\ j = Len(data[d]) + 1 /\ data'[e][j].inum = i
        \/ e \in Dirs /\ j \in 3 .. Len(data[e]) /\ data'[e][j] = data[e][j]
    BY <1>4
  <2>3. \/ f = d /\ k = Len(data[d]) + 1 /\ data'[f][k].inum = i
        \/ f \in Dirs /\ k \in 3 .. Len(data[f]) /\ data'[f][k] = data[f][k]
    BY <1>4
  <2>4. \A x, y \in Dirs : \A u \in 3 .. Len(data[x]), v \in 3 .. Len(data[y]) :
           data[x][u].inum = data[y][v].inum => x = y /\ u = v
    BY DEF TreeTold
  <2>5. CASE e \in Dirs /\ j \in 3 .. Len(data[e]) /\ data'[e][j] = data[e][j]
    <3>1. data'[e][j].inum # i
      BY <2>1, <2>5
    <3>2. CASE f \in Dirs /\ k \in 3 .. Len(data[f]) /\ data'[f][k] = data[f][k]
      BY <2>4, <2>5, <3>2
    <3> QED
      BY <2>3, <3>1, <3>2
  <2>6. CASE e = d /\ j = Len(data[d]) + 1 /\ data'[e][j].inum = i
    <3>1. CASE f \in Dirs /\ k \in 3 .. Len(data[f]) /\ data'[f][k] = data[f][k]
      <4>1. data'[f][k].inum # i
        BY <2>1, <3>1
      <4> QED
        BY <2>6, <4>1
    <3> QED
      BY <2>3, <2>6, <3>1
  <2> QED
    BY <2>2, <2>5, <2>6
<1>10. \A x \in used' \ (removed' \cup orphans' \cup {root}) : \E e \in Dirs' :
          /\ \E k \in 3 .. Len(data'[e]) : data'[e][k].inum = x
          /\ x \in isdir' => data'[x][2].inum = e
  <2> TAKE x \in used' \ (removed' \cup orphans' \cup {root})
  <2>1. CASE x = i
    <3>1. Len(data[d]) + 1 \in 3 .. Len(data'[d])
      BY <1>1, <1>3
    <3>2. i \in isdir' => data'[i][2].inum = d
      BY <1>1
    <3> QED
      BY <1>2, <2>1, <3>1, <3>2
  <2>2. CASE x # i
    <3>1. PICK e \in Dirs : /\ \E k \in 3 .. Len(data[e]) : data[e][k].inum = x
                            /\ x \in isdir => data[x][2].inum = e
      BY <2>2 DEF TreeTold
    <3>2. \E k \in 3 .. Len(data'[e]) : data'[e][k].inum = x
      BY <1>1, <1>3, <3>1
    <3>3. x \in isdir' => data'[x][2].inum = e
      BY <1>3, <2>2, <3>1
    <3> QED
      BY <1>2, <3>2, <3>3
  <2> QED
    BY <2>1, <2>2
<1> QED
  BY <1>5, <1>6, <1>7, <1>8, <1>9, <1>10 DEF TreeTold

\* A new directory has its two entries.
LEMMA NewDirSays ==
    ASSUME NEW i \in Inums, NEW d \in Inums
    PROVE  /\ NewDir(i, d) \in Seq(Entries) /\ Contents(i, NewDir(i, d))
           /\ Len(NewDir(i, d)) = 2 /\ NewDir(i, d)[2].inum = d
<1>1. PICK a, b : a = Entry(".", i) /\ b = Entry("..", d)
  OBVIOUS
<1>2. /\ a \in Entries /\ b \in Entries /\ a.name = "." /\ b.name = ".." /\ b.inum = d
  BY <1>1, NameParts DEF Entry, Entries
<1>3. PICK s : s = <<a, b>>
  OBVIOUS
<1>4. /\ s \in Seq(Entries) /\ Len(s) = 2 /\ s[1] = a /\ s[2] = b /\ DOMAIN s = 1 .. 2
  BY <1>2, <1>3
<1>5. \A k \in 3 .. Len(s) : FALSE
  BY <1>4
<1>6. \A j, k \in DOMAIN s : s[j].name = s[k].name => j = k
  <2>1. \A j \in DOMAIN s : j = 1 \/ j = 2
    BY <1>4
  <2>2. s[1].name # s[2].name
    BY <1>2, <1>4
  <2> QED
    BY <2>1, <2>2
<1>7. Contents(i, s)
  BY <1>1, <1>2, <1>4, <1>5, <1>6 DEF Contents
<1>8. NewDir(i, d) = s
  BY <1>1, <1>3 DEF NewDir
<1> QED
  BY <1>2, <1>4, <1>7, <1>8

LEMMA MakeStep ==
    ASSUME IInv, NEW d \in Inums, NEW n \in Names, NEW i \in Inums,
           Create(d, n, i) \/ Mkdir(d, n, i)
    PROVE  IInv'
<1>1. /\ d \in Dirs /\ dir_lookup(d, n) = NoInum /\ i \notin used
      /\ used' = used \cup {i} /\ AfterInsert(d) /\ refs' = refs /\ removed' = removed
      /\ orphans' = orphans
      /\ loaded' = loaded \cup {d}
  BY DEF Create, Mkdir, AfterInsert
<1>2. /\ d \in isdir /\ isdir \subseteq used /\ d # i /\ data \in [Inums -> Seq(Entries)]
      /\ used \subseteq Inums
  BY <1>1, TypeSays DEF Dirs, IInv, TypeOK
<1>3. n \notin NamesIn(data[d])
  BY <1>1, <1>2, LookupSays
<1>4. /\ data'[d] = Inserted(d, n, i)
      /\ \A e \in Inums \ {d, i} : data'[e] = data[e]
      /\ \/ isdir' = isdir /\ data'[i] = data[i]
         \/ isdir' = isdir \cup {i} /\ data'[i] = NewDir(i, d)
      /\ DOMAIN data' = Inums
  <2>1. CASE Create(d, n, i)
    BY <1>2, <2>1 DEF Create
  <2>2. CASE Mkdir(d, n, i)
    BY <1>2, <2>2 DEF Mkdir
  <2> QED
    BY <2>1, <2>2
<1>5. \A e \in isdir \ {d} : data'[e] = data[e]
  BY <1>1, <1>2, <1>4
<1>6. /\ cookie' \in [Cookies -> Cookie] /\ scan' \in [Cookies -> Scan]
      /\ data'[d] \in Seq(Entries) /\ Contents(d, data'[d])
      /\ Len(data'[d]) = Len(data[d]) + 1
      /\ \A k \in 1 .. Len(data[d]) : data'[d][k] = data[d][k]
      /\ data'[d][Len(data[d]) + 1].inum = i
      /\ OpenTold' /\ (RmdirNames \subseteq Names => RefsExact')
      /\ (MaxDeletes <= 1 => ScansTold')
  <2>1. isdir \subseteq isdir'
    BY <1>4
  <2> QED
    BY <1>1, <1>2, <1>3, <1>4, <1>5, <2>1, InsertOpen
<1>7. /\ NewDir(i, d) \in Seq(Entries) /\ Contents(i, NewDir(i, d))
      /\ Len(NewDir(i, d)) = 2 /\ NewDir(i, d)[2].inum = d
  BY NewDirSays
<1>8. TypeOK'
  <2>1. data' \in [Inums -> Seq(Entries)]
    <3>1. \A e \in Inums : data'[e] \in Seq(Entries)
      BY <1>2, <1>4, <1>6, <1>7
    <3>2. data' = [e \in Inums |-> data'[e]]
      <4>1. CASE Create(d, n, i)
        BY <1>2, <4>1 DEF Create
      <4>2. CASE Mkdir(d, n, i)
        BY <1>2, <4>2 DEF Mkdir
      <4> QED
        BY <4>1, <4>2
    <3> QED
      BY <3>1, <3>2
  <2>2. /\ used' \subseteq Inums /\ isdir' \subseteq used' /\ root \in isdir' \ removed'
        /\ loaded' \subseteq Inums /\ removed' \subseteq Inums /\ orphans' \subseteq Inums
    BY <1>1, <1>2, <1>4 DEF IInv, TypeOK
  <2>3. refs' \in [Inums -> Nat]
    BY <1>1 DEF IInv, TypeOK
  <2> QED
    BY <1>6, <2>1, <2>2, <2>3 DEF TypeOK, Cookie, Scan, Entries
<1>9. ContentsTold'
  <2> SUFFICES ASSUME NEW e \in isdir' PROVE Contents(e, data'[e])
    BY DEF ContentsTold, Contents
  <2>1. CASE e = d
    BY <1>6, <2>1
  <2>2. CASE e \in isdir \ {d}
    BY <1>5, <2>2 DEF IInv, ContentsTold
  <2>3. CASE e \notin isdir
    BY <1>4, <1>7, <2>3
  <2> QED
    BY <2>1, <2>2, <2>3
<1>10. TreeTold'
  <2>1. TreeTold
    BY DEF IInv
  <2>2. \/ isdir' = isdir
        \/ isdir' = isdir \cup {i} /\ Len(data'[i]) = 2 /\ data'[i][2].inum = d
    BY <1>4, <1>7
  <2>3. i \in Inums \ used
    BY <1>1
  <2> QED
    BY <1>1, <1>5, <1>6, <2>1, <2>2, <2>3, InsertTree
<1> QED
  BY <1>1, <1>6, <1>8, <1>9, <1>10 DEF IInv
-----------------------------------------------------------------------------
(***************************************************************************)
(* Unlink and rmdir.                                                       *)
(***************************************************************************)
\* What dir_delete takes out of the contents.
LEMMA DeletedSays ==
    ASSUME IInv, NEW d \in isdir, NEW n \in Names, NEW i, i = dir_lookup(d, n), i # NoInum,
           NEW t, t = Deleted(d, n)
    PROVE  \E a \in 3 .. Len(data[d]) : /\ data[d][a].name = n /\ data[d][a].inum = i
                                        /\ Shrunk(d, data[d], a, t)
<1>1. d \in Inums
  BY DEF IInv, TypeOK
<1>2. PICK s : s = data[d]
  OBVIOUS
<1>3. /\ s \in Seq(Entries) /\ Len(s) \in Nat /\ DOMAIN s = 1 .. Len(s) /\ Contents(d, s)
  BY <1>1, <1>2, TypeSays DEF IInv, ContentsTold
<1>4. PICK a \in 3 .. Len(s) : s[a].name = n /\ s[a].inum = i
  BY <1>2, LookupSays
<1>5. PICK at : at = CHOOSE k \in DOMAIN s : s[k].name = n
  OBVIOUS
<1>6. a \in DOMAIN s
  BY <1>3
<1>7. at \in DOMAIN s /\ s[at].name = n
  BY <1>4, <1>5, <1>6
<1>8. at = a
  BY <1>3, <1>4, <1>6, <1>7 DEF Contents
<1>9. t = [k \in 1 .. Len(s) - 1 |-> IF k < a THEN s[k] ELSE s[k + 1]]
  BY <1>2, <1>5, <1>8 DEF Deleted
<1>10. Shrunk(d, s, a, t)
  BY <1>3, <1>9, DeleteContents
<1> QED
  BY <1>2, <1>4, <1>10

LEMMA DeleteScan ==
    ASSUME NEW sc \in Scan, NEW n \in Names, NEW z, z = DeleteTold(sc, n)
    PROVE  z \in Scan /\ (~sc.again => ~z.again)
<1>1. PICK y : y = IF sc.last = n THEN sc ELSE NotRmall(sc)
  OBVIOUS
<1>2. y \in Scan /\ (~sc.again => ~y.again)
  BY <1>1, ScanKinds
<1>3. z = [y EXCEPT !.missing = @ \ {n}, !.deletes = @ + 1, !.got = @ \ {n}]
  BY <1>1 DEF DeleteTold
<1>4. z \in Scan
  <2>1. PICK m, e, g : m = y.missing \ {n} /\ e = y.deletes + 1 /\ g = y.got \ {n}
    OBVIOUS
  <2>2. m \in SUBSET AllNames /\ e \in Nat /\ g \in SUBSET AllNames
    <3>1. y.missing \subseteq AllNames /\ y.deletes \in Nat /\ y.got \subseteq AllNames
      BY <1>2 DEF Scan
    <3>2. m \subseteq AllNames /\ g \subseteq AllNames
      BY <2>1, <3>1
    <3> QED
      BY <2>1, <3>1, <3>2
  <2>3. z = [y EXCEPT !.missing = m, !.deletes = e, !.got = g]
    BY <1>3, <2>1
  <2> QED
    BY <1>2, <2>2, <2>3 DEF Scan
<1>5. z.again = y.again
  BY <1>2, <1>3 DEF Scan
<1> QED
  BY <1>2, <1>4, <1>5

\* dir_delete under the descriptors of the directory.
LEMMA DeleteOpen ==
    ASSUME IInv, NEW d \in isdir, NEW n \in Names, dir_lookup(d, n) # NoInum,
           MayDelete(d), AfterDelete(d, n), refs' = refs,
           \A c \in Cookies : cookie[c].dir # NoInum =>
              /\ cookie[c].dir \in loaded' \cap isdir'
              /\ cookie[c].dir = d => data'[d] = Deleted(d, n)
              /\ cookie[c].dir # d => data'[cookie[c].dir] = data[cookie[c].dir]
    PROVE  /\ cookie' \in [Cookies -> Cookie] /\ scan' \in [Cookies -> Scan]
           /\ OpenTold' /\ (RmdirNames \subseteq Names => RefsExact')
           /\ (MaxDeletes <= 1 => ScansTold')
<1>1. d \in Inums
  BY DEF IInv, TypeOK
<1>2. PICK s, t : s = data[d] /\ t = Deleted(d, n)
  OBVIOUS
<1>3. s \in Seq(Entries) /\ Contents(d, s)
  BY <1>1, <1>2, TypeSays DEF IInv, ContentsTold
<1>4. PICK a \in 3 .. Len(s) : s[a].name = n /\ Shrunk(d, s, a, t)
  BY <1>2, DeletedSays
<1>5. /\ cookie' \in [Cookies -> Cookie]
      /\ \A c \in Cookies : /\ cookie'[c].dir = cookie[c].dir
                            /\ cookie[c].dir = d =>
                                  cookie'[c] = [cookie[c] EXCEPT !.stale = TRUE]
                            /\ cookie[c].dir # d => cookie'[c] = cookie[c]
      /\ \A x : OnDir(x)' = OnDir(x)
  BY <1>1, StaleSays DEF AfterDelete
<1>6. scan' = [c \in Cookies |-> scan'[c]]
  BY DEF AfterDelete
<1>7. \A c \in Cookies : /\ cookie[c].dir = d => scan'[c] = DeleteTold(scan[c], n)
                         /\ cookie[c].dir # d => scan'[c] = scan[c]
  BY DEF AfterDelete, OnDir, DeleteTold
<1>8. \A c \in Cookies : scan'[c] \in Scan /\ (~scan[c].again => ~scan'[c].again)
  <2> TAKE c \in Cookies
  <2>1. PICK sc, z : sc = scan[c] /\ z = scan'[c] /\ sc \in Scan
    BY TypeSays DEF IInv
  <2>2. CASE cookie[c].dir = d
    <3>1. z = DeleteTold(sc, n)
      BY <1>7, <2>1, <2>2
    <3>2. z \in Scan /\ (~sc.again => ~z.again)
      BY <2>1, <3>1, DeleteScan
    <3> QED
      BY <2>1, <3>2
  <2>3. CASE cookie[c].dir # d
    BY <1>7, <2>1, <2>3
  <2> QED
    BY <2>2, <2>3
<1>9. scan' \in [Cookies -> Scan]
  BY <1>6, <1>8
<1>10. OpenTold'
  BY <1>5 DEF IInv, OpenTold
<1>11. RmdirNames \subseteq Names => RefsExact'
  BY <1>5 DEF IInv, RefsExact
<1>12. MaxDeletes <= 1 => ScansTold'
  <2> SUFFICES ASSUME MaxDeletes <= 1, NEW c \in Cookies
               PROVE  /\ ~scan'[c].again
                      /\ cookie'[c].dir # NoInum =>
                            ScanFits(cookie'[c], scan'[c], data'[cookie'[c].dir])
    BY DEF ScansTold, ScanFits, Passed, FirstNames, NamesIn
  <2>1. /\ ~scan[c].again /\ cookie[c] \in Cookie /\ scan[c] \in Scan
        /\ cookie[c].dir # NoInum => ScanFits(cookie[c], scan[c], data[cookie[c].dir])
    BY TypeSays DEF IInv, ScansTold
  <2>2. ~scan'[c].again
    BY <1>8, <2>1
  <2>3. CASE cookie[c].dir = d
    <3>1. PICK k \in Cookie, sc \in Scan : k = cookie[c] /\ sc = scan[c]
      BY <2>1
    <3>2. PICK q : q = [k EXCEPT !.stale = TRUE]
      OBVIOUS
    <3>3. PICK z : z = DeleteTold(sc, n)
      OBVIOUS
    <3>4. d # NoInum
      BY <1>1, DirectoryAssumption
    <3>5. ScanFits(k, sc, s)
      BY <1>2, <2>1, <2>3, <3>1, <3>4
    <3>6. sc.deletes < 1
      <4>1. sc.deletes < MaxDeletes
        BY <2>3, <3>1 DEF MayDelete, OnDir
      <4>2. sc.deletes \in Nat
        BY DEF Scan
      <4>3. MaxDeletes \in Nat
        BY DirectoryAssumption
      <4> QED
        BY <4>1, <4>2, <4>3
    <3>7. n = s[a].name
      BY <1>4
    <3>8. ScanFits(q, z, t)
      BY <1>3, <1>4, <3>2, <3>3, <3>5, <3>6, <3>7, ScanDelete
    <3>9. cookie'[c] = q /\ scan'[c] = z /\ cookie'[c].dir = d /\ data'[d] = t
      BY <1>2, <1>5, <1>7, <2>3, <3>1, <3>2, <3>3, <3>4
    <3> QED
      BY <2>2, <3>8, <3>9
  <2>4. CASE cookie[c].dir # d
    <3>1. cookie[c].dir # NoInum => data'[cookie[c].dir] = data[cookie[c].dir]
      BY <2>4
    <3> QED
      BY <1>5, <1>7, <2>1, <2>4, <3>1
  <2> QED
    BY <2>3, <2>4
<1> QED
  BY <1>5, <1>9, <1>10, <1>11, <1>12

\* What rmdir takes for an empty directory has no name that is not short.
LEMMA SizeSays ==
    ASSUME NEW d, NEW s \in Seq(Entries), Contents(d, s),
           SizeOf(s) <= MKDIR_BUFSIZE, NEW k \in 3 .. Len(s)
    PROVE  s[k].name \in ShortNames
<1>1. Len(s) \in Nat /\ DOMAIN s = 1 .. Len(s) /\ Len(s) >= 2
  BY DEF Contents
<1> SUFFICES ASSUME s[k].name \notin ShortNames PROVE FALSE
  OBVIOUS
<1>2. 1 \in DOMAIN s /\ 2 \in DOMAIN s /\ k \in DOMAIN s
  BY <1>1
<1>3. 1 \in OfSize(s, 16) /\ 2 \in OfSize(s, 16)
  <2>1. s[1].name = "." /\ s[2].name = ".."
    BY DEF Contents, Entry
  <2>2. MDE_SIZE(s[1].name) = 16 /\ MDE_SIZE(s[2].name) = 16
    BY <2>1 DEF MDE_SIZE
  <2> QED
    BY <1>2, <2>2 DEF OfSize
<1>4. k \in OfSize(s, 24)
  <2>1. s[k].name \in Names
    BY DEF Contents
  <2>2. MDE_SIZE(s[k].name) = 24
    BY <2>1, NameParts DEF MDE_SIZE
  <2> QED
    BY <1>2, <2>2 DEF OfSize
<1>5. \A z : IsFiniteSet(OfSize(s, z)) /\ Cardinality(OfSize(s, z)) \in Nat
  <2> TAKE z
  <2>1. IsFiniteSet(1 .. Len(s)) /\ OfSize(s, z) \subseteq 1 .. Len(s)
    BY <1>1, FS_Interval DEF OfSize
  <2> QED
    BY <2>1, FS_Subset, FS_CardinalityType
<1>6. Cardinality(OfSize(s, 16)) >= 2
  <2>1. {1, 2} \subseteq OfSize(s, 16)
    BY <1>3
  <2>2. PICK x, y \in Int : x = 1 /\ y = 2
    OBVIOUS
  <2>3. Cardinality(x .. y) = 2 /\ x .. y \subseteq {1, 2}
    <3>1. Cardinality(x .. y) = IF x > y THEN 0 ELSE y - x + 1
      BY FS_Interval
    <3> QED
      BY <2>2, <3>1
  <2>4. PICK u, v : u = x .. y /\ v = OfSize(s, 16)
    OBVIOUS
  <2>5. IsFiniteSet(v) /\ u \in SUBSET v
    BY <1>5, <2>1, <2>3, <2>4
  <2>6. Cardinality(u) <= Cardinality(v)
    BY <2>5, FS_Subset
  <2> QED
    BY <2>3, <2>4, <2>6
<1>7. Cardinality(OfSize(s, 24)) >= 1
  <2>1. Cardinality(OfSize(s, 24)) # 0
    BY <1>4, <1>5, FS_EmptySet
  <2> QED
    BY <1>5, <2>1
<1>8. SizeOf(s) >= 56
  BY <1>5, <1>6, <1>7 DEF SizeOf
<1> QED
  BY <1>5, <1>8 DEF SizeOf, MKDIR_BUFSIZE

\* The inode of a name that goes: freed, or left to its last reference.
Children(i) == {data[i][k].inum : k \in 3 .. Len(data[i])}

Gone(i) ==
    \/ /\ i \notin isdir /\ orphans' = orphans
       /\ used' = used \ {i} /\ isdir' = isdir /\ removed' = removed
    \/ /\ i \in isdir /\ orphans' = orphans \cup Children(i)
       /\ used' = used \ {i} /\ isdir' = isdir \ {i} /\ removed' = removed
    \/ /\ i \in isdir /\ orphans' = orphans \cup Children(i) /\ refs[i] > 0
       /\ used' = used /\ isdir' = isdir /\ removed' = removed \cup {i}

\* The tree loses a name, and those that are below it are orphans.
LEMMA DeleteTree ==
    ASSUME IInv, TreeTold, NEW d \in Dirs, NEW a \in 3 .. Len(data[d]),
           NEW i, i = data[d][a].inum, Gone(i), refs' = refs,
           Shrunk(d, data[d], a, data'[d]),
           \A e \in isdir \ {d, i} : data'[e] = data[e]
    PROVE  TreeTold'
<1>1. /\ isdir \subseteq used /\ used \subseteq Inums /\ removed \subseteq isdir
      /\ root \in Dirs /\ Dirs \subseteq isdir
      /\ orphans \subseteq used \ (removed \cup {root})
  <2>1. /\ isdir \subseteq used /\ used \subseteq Inums
        /\ root \in isdir /\ root \notin removed
    BY DEF IInv, TypeOK
  <2>2. removed \subseteq isdir /\ orphans \subseteq used \ (removed \cup {root})
    BY DEF TreeTold
  <2> QED
    BY <2>1, <2>2 DEF Dirs
<1>2. \A e \in isdir : Len(data[e]) \in Nat /\ Len(data[e]) >= 2
  BY <1>1, TypeSays DEF IInv, ContentsTold, Contents
<1>3. i \in used /\ i \notin removed /\ i \notin orphans /\ i # d
  BY DEF TreeTold
<1>4. i # root
  <2>1. Contents(d, data[d])
    BY <1>1 DEF IInv, ContentsTold
  <2> QED
    BY <2>1 DEF Contents
<1>5. i \in isdir => /\ i \in Dirs /\ orphans' = orphans \cup Children(i)
                     /\ Children(i) \subseteq used \ (removed \cup {root, i})
  <2> SUFFICES ASSUME i \in isdir
               PROVE  /\ i \in Dirs /\ orphans' = orphans \cup Children(i)
                      /\ Children(i) \subseteq used \ (removed \cup {root, i})
    OBVIOUS
  <2>1. i \in Dirs /\ orphans' = orphans \cup Children(i)
    BY <1>3 DEF Gone, Dirs
  <2>2. \A k \in 3 .. Len(data[i]) : data[i][k].inum \in used \ (removed \cup {i})
    BY <2>1 DEF TreeTold
  <2>3. \A k \in 3 .. Len(data[i]) : data[i][k].inum # root
    BY DEF IInv, ContentsTold, Contents
  <2> QED
    BY <2>1, <2>2, <2>3 DEF Children
<1>6. d # i /\ a \in Nat /\ Len(data[d]) \in Nat /\ Len(data[d]) >= 3
  BY <1>1, <1>2, <1>3
<1>7. /\ Dirs' = Dirs \ {i} /\ removed' \subseteq removed \cup {i}
      /\ used' \ removed' = (used \ removed) \ {i} /\ isdir' \subseteq isdir
      /\ removed' \subseteq isdir'
  BY <1>1, <1>3 DEF Gone, Dirs
<1>8. \A e \in Dirs' : e \in Dirs /\ e # i /\ (e # d => data'[e] = data[e])
  BY <1>1, <1>7
<1>9. /\ Len(data'[d]) = Len(data[d]) - 1
      /\ \A k \in 1 .. Len(data[d]) - 1 : /\ k < a => data'[d][k] = data[d][k]
                                          /\ k >= a => data'[d][k] = data[d][k + 1]
  BY DEF Shrunk
<1>10. \A k \in 3 .. Len(data'[d]) :
          \/ k < a /\ k \in 3 .. Len(data[d]) /\ data'[d][k] = data[d][k]
          \/ k >= a /\ k + 1 \in 3 .. Len(data[d]) /\ data'[d][k] = data[d][k + 1]
  <2> TAKE k \in 3 .. Len(data'[d])
  <2>1. k \in 1 .. Len(data[d]) - 1 /\ k \in 3 .. Len(data[d]) /\ k + 1 \in 3 .. Len(data[d])
    BY <1>6, <1>9
  <2>2. k \in Int
    OBVIOUS
  <2> QED
    BY <1>6, <1>9, <2>1, <2>2
<1>11. \A e \in Dirs' : \A k \in 3 .. Len(data'[e]) : \E u \in 3 .. Len(data[e]) :
          /\ data'[e][k] = data[e][u] /\ ~(e = d /\ u = a)
          /\ u = IF e = d /\ k >= a THEN k + 1 ELSE k
  <2> TAKE e \in Dirs'
  <2> TAKE k \in 3 .. Len(data'[e])
  <2>1. CASE e = d
    <3>1. CASE k < a /\ k \in 3 .. Len(data[d]) /\ data'[d][k] = data[d][k]
      <4>1. k # a /\ ~(k >= a)
        BY <1>6, <3>1
      <4> QED
        BY <2>1, <3>1, <4>1
    <3>2. CASE k >= a /\ k + 1 \in 3 .. Len(data[d]) /\ data'[d][k] = data[d][k + 1]
      <4>1. k + 1 # a
        BY <1>6, <3>2
      <4> QED
        BY <2>1, <3>2, <4>1
    <3> QED
      BY <1>10, <2>1, <3>1, <3>2
  <2>2. CASE e # d
    BY <1>8, <2>2
  <2> QED
    BY <2>1, <2>2
<1>12. \A e \in Dirs' : \A u \in 3 .. Len(data[e]) :
          ~(e = d /\ u = a) => \E k \in 3 .. Len(data'[e]) : data'[e][k] = data[e][u]
  <2> TAKE e \in Dirs'
  <2> TAKE u \in 3 .. Len(data[e])
  <2> HAVE ~(e = d /\ u = a)
  <2>1. CASE e # d
    BY <1>8, <2>1
  <2>2. CASE e = d /\ u < a
    <3>1. u \in 3 .. Len(data'[d]) /\ u \in 1 .. Len(data[d]) - 1
      BY <1>6, <1>9, <2>2
    <3> QED
      BY <1>9, <2>2, <3>1
  <2>3. CASE e = d /\ u > a
    <3>1. PICK k \in Int : k = u - 1
      OBVIOUS
    <3>2. /\ k \in 3 .. Len(data'[d]) /\ k \in 1 .. Len(data[d]) - 1
          /\ k >= a /\ k + 1 = u
      BY <1>6, <1>9, <2>3, <3>1
    <3>3. data'[d][k] = data[d][k + 1]
      BY <1>9, <3>2
    <3> QED
      BY <2>3, <3>2, <3>3
  <2>4. e = d => u < a \/ u > a
    BY <1>6
  <2> QED
    BY <2>1, <2>2, <2>3, <2>4
<1>13. \A x, y \in Dirs : \A u \in 3 .. Len(data[x]), v \in 3 .. Len(data[y]) :
          data[x][u].inum = data[y][v].inum => x = y /\ u = v
  BY DEF TreeTold
<1>14. /\ \A e \in removed' : refs'[e] > 0
       /\ orphans' \subseteq used' \ (removed' \cup {root})
  <2>1. \A e \in removed' : refs'[e] > 0
    BY DEF Gone, TreeTold
  <2>2. orphans' \subseteq (used \ removed) \ {i} /\ root \notin orphans'
    <3>1. CASE i \in isdir
      BY <1>1, <1>3, <1>5, <3>1
    <3>2. CASE i \notin isdir
      BY <1>1, <1>3, <3>2 DEF Gone
    <3> QED
      BY <3>1, <3>2
  <2>3. orphans' \subseteq used' \ removed'
    BY <1>7, <2>2
  <2> QED
    BY <2>1, <2>2, <2>3
<1>15. \A e \in isdir' \ {i} : data'[e][2] = data[e][2]
  <2> TAKE e \in isdir' \ {i}
  <2>1. CASE e = d
    <3>1. 2 \in 1 .. Len(data[d]) - 1 /\ 2 < a
      BY <1>6
    <3> QED
      BY <1>9, <2>1, <3>1
  <2>2. CASE e # d
    BY <1>7, <2>2
  <2> QED
    BY <2>1, <2>2
<1>16. data'[root][2].inum = root
  <2>1. root \in isdir' \ {i} /\ data[root][2].inum = root
    BY <1>1, <1>4, <1>7 DEF Dirs, TreeTold
  <2> QED
    BY <1>15, <2>1
<1>17. \A e \in Dirs' : \A k \in 3 .. Len(data'[e]) :
          data'[e][k].inum \in used' \ (removed' \cup orphans' \cup {e})
  <2> TAKE e \in Dirs'
  <2> TAKE k \in 3 .. Len(data'[e])
  <2>1. PICK u \in 3 .. Len(data[e]) : data'[e][k] = data[e][u] /\ ~(e = d /\ u = a)
    BY <1>11
  <2>2. e \in Dirs
    BY <1>8
  <2>3. data[e][u].inum # i
    BY <1>13, <2>1, <2>2
  <2>4. data[e][u].inum \in used \ (removed \cup orphans \cup {e})
    BY <2>2 DEF TreeTold
  <2>5. data[e][u].inum \notin orphans'
    <3>1. CASE i \in isdir
      <4>1. e # i
        BY <1>8
      <4>2. data[e][u].inum \notin Children(i)
        BY <1>5, <1>13, <2>2, <3>1, <4>1 DEF Children
      <4> QED
        BY <1>5, <2>4, <3>1, <4>2
    <3>2. CASE i \notin isdir
      BY <2>4, <3>2 DEF Gone
    <3> QED
      BY <3>1, <3>2
  <2> QED
    BY <1>7, <2>1, <2>3, <2>4, <2>5
<1>18. \A e, f \in Dirs' : \A j \in 3 .. Len(data'[e]), k \in 3 .. Len(data'[f]) :
          data'[e][j].inum = data'[f][k].inum => e = f /\ j = k
  <2> TAKE e, f \in Dirs'
  <2> TAKE j \in 3 .. Len(data'[e]), k \in 3 .. Len(data'[f])
  <2> HAVE data'[e][j].inum = data'[f][k].inum
  <2>1. PICK u \in 3 .. Len(data[e]) : /\ data'[e][j] = data[e][u]
                                       /\ u = IF e = d /\ j >= a THEN j + 1 ELSE j
    BY <1>11
  <2>2. PICK v \in 3 .. Len(data[f]) : /\ data'[f][k] = data[f][v]
                                       /\ v = IF f = d /\ k >= a THEN k + 1 ELSE k
    BY <1>11
  <2>3. e \in Dirs /\ f \in Dirs
    BY <1>8
  <2>4. e = f /\ u = v
    BY <1>13, <2>1, <2>2, <2>3
  <2>5. j = k
    BY <1>6, <2>1, <2>2, <2>4
  <2> QED
    BY <2>4, <2>5
<1>19. \A x \in used' \ (removed' \cup orphans' \cup {root}) : \E e \in Dirs' :
          /\ \E k \in 3 .. Len(data'[e]) : data'[e][k].inum = x
          /\ x \in isdir' => data'[x][2].inum = e
  <2> TAKE x \in used' \ (removed' \cup orphans' \cup {root})
  <2>1. x \in used \ (removed \cup orphans \cup {root}) /\ x # i
    BY <1>7 DEF Gone
  <2>2. PICK e \in Dirs : /\ \E k \in 3 .. Len(data[e]) : data[e][k].inum = x
                          /\ x \in isdir => data[x][2].inum = e
    BY <2>1 DEF TreeTold
  <2>3. PICK u \in 3 .. Len(data[e]) : data[e][u].inum = x
    BY <2>2
  <2>4. ~(e = d /\ u = a)
    BY <2>1, <2>3
  <2>5. e # i
    <3> SUFFICES ASSUME e = i PROVE FALSE
      OBVIOUS
    <3>1. e \in isdir
      BY <1>1
    <3>2. x \in Children(i)
      BY <2>3 DEF Children
    <3> QED
      BY <1>5, <3>1, <3>2
  <2>6. e \in Dirs'
    BY <1>7, <2>5
  <2>7. \E k \in 3 .. Len(data'[e]) : data'[e][k].inum = x
    BY <1>12, <2>3, <2>4, <2>6
  <2>8. x \in isdir' => data'[x][2].inum = e
    BY <1>7, <1>15, <2>1, <2>2
  <2> QED
    BY <2>6, <2>7, <2>8
<1> QED
  BY <1>7, <1>14, <1>16, <1>17, <1>18, <1>19 DEF TreeTold

LEMMA UnlinkStep ==
    ASSUME IInv, NEW d \in Inums, NEW n \in Names, Unlink(d, n)
    PROVE  IInv'
<1>1. PICK i : i = dir_lookup(d, n)
  OBVIOUS
<1>2. /\ d \in Dirs /\ i # NoInum /\ i \notin isdir /\ MayDelete(d)
      /\ data' = [data EXCEPT ![d] = Deleted(d, n)] /\ used' = used \ {i}
      /\ loaded' = loaded \cup {d} /\ AfterDelete(d, n)
      /\ isdir' = isdir /\ refs' = refs /\ removed' = removed /\ orphans' = orphans
  BY <1>1 DEF Unlink
<1>3. /\ d \in isdir /\ data \in [Inums -> Seq(Entries)] /\ isdir \subseteq Inums
  BY <1>2, TypeSays DEF Dirs, IInv, TypeOK
<1>4. data'[d] = Deleted(d, n) /\ \A e \in Inums \ {d} : data'[e] = data[e]
  BY <1>2, <1>3
<1>5. PICK a \in 3 .. Len(data[d]) : /\ data[d][a].name = n /\ data[d][a].inum = i
                                     /\ Shrunk(d, data[d], a, data'[d])
  BY <1>1, <1>2, <1>3, <1>4, DeletedSays
<1>6. /\ cookie' \in [Cookies -> Cookie] /\ scan' \in [Cookies -> Scan]
      /\ OpenTold' /\ (RmdirNames \subseteq Names => RefsExact')
      /\ (MaxDeletes <= 1 => ScansTold')
  <2>1. \A c \in Cookies : cookie[c].dir # NoInum =>
              /\ cookie[c].dir \in loaded' \cap isdir'
              /\ cookie[c].dir = d => data'[d] = Deleted(d, n)
              /\ cookie[c].dir # d => data'[cookie[c].dir] = data[cookie[c].dir]
    BY <1>2, <1>4, ReadSays
  <2>2. dir_lookup(d, n) # NoInum
    BY <1>1, <1>2
  <2> QED
    BY <1>2, <1>3, <2>1, <2>2, DeleteOpen
<1>7. TypeOK'
  <2>1. data' \in [Inums -> Seq(Entries)]
    <3>1. data'[d] \in Seq(Entries)
      BY <1>5 DEF Shrunk
    <3> QED
      BY <1>2, <1>3, <1>4, <3>1
  <2>2. /\ used' \subseteq Inums /\ isdir' \subseteq used' /\ root \in isdir' \ removed'
        /\ loaded' \subseteq Inums /\ removed' \subseteq Inums /\ orphans' \subseteq Inums
    BY <1>2 DEF IInv, TypeOK
  <2>3. refs' \in [Inums -> Nat]
    BY <1>2 DEF IInv, TypeOK
  <2> QED
    BY <1>6, <2>1, <2>2, <2>3 DEF TypeOK, Cookie, Scan, Entries
<1>8. ContentsTold'
  <2> SUFFICES ASSUME NEW e \in isdir' PROVE Contents(e, data'[e])
    BY DEF ContentsTold, Contents
  <2>1. CASE e = d
    BY <1>5, <2>1 DEF Shrunk
  <2>2. CASE e # d
    BY <1>2, <1>3, <1>4, <2>2 DEF IInv, ContentsTold
  <2> QED
    BY <2>1, <2>2
<1>9. TreeTold'
  <2>1. TreeTold
    BY DEF IInv
  <2>2. Gone(i)
    BY <1>2 DEF Gone
  <2>3. \A e \in isdir \ {d, i} : data'[e] = data[e]
    BY <1>3, <1>4
  <2>4. i = data[d][a].inum
    BY <1>5
  <2> QED
    BY <1>2, <1>5, <2>1, <2>2, <2>3, <2>4, DeleteTree
<1> QED
  BY <1>2, <1>6, <1>7, <1>8, <1>9 DEF IInv

LEMMA RmdirStep ==
    ASSUME IInv, NEW d \in Inums, NEW n \in RmdirNames, Rmdir(d, n)
    PROVE  IInv'
<1>1. PICK i : i = dir_lookup(d, n)
  OBVIOUS
<1>2. /\ d \in Dirs /\ n \notin {".", ".."} /\ i \in isdir
      /\ SizeOf(data[i]) <= MKDIR_BUFSIZE /\ MayDelete(d)
      /\ AfterDelete(d, n) /\ refs' = refs
      /\ orphans' = orphans \cup ShortChildren(i)
  BY <1>1 DEF Rmdir, MayRemove
<1>3. /\ refs[i] = 0 => /\ used' = used \ {i} /\ isdir' = isdir \ {i}
                        /\ loaded' = (loaded \cup {d}) \ {i}
                        /\ data' = [data EXCEPT ![d] = Deleted(d, n), ![i] = <<>>]
                        /\ removed' = removed
      /\ refs[i] # 0 => /\ removed' = removed \cup {i}
                        /\ data' = [data EXCEPT ![d] = Deleted(d, n)]
                        /\ loaded' = loaded \cup {d}
                        /\ used' = used /\ isdir' = isdir
  BY <1>1 DEF Rmdir
<1>4. /\ d \in isdir /\ data \in [Inums -> Seq(Entries)] /\ isdir \subseteq used
      /\ used \subseteq Inums /\ i \in Inums /\ i # NoInum /\ refs[i] \in Nat
  <2>1. /\ d \in isdir /\ data \in [Inums -> Seq(Entries)] /\ isdir \subseteq used
        /\ used \subseteq Inums /\ refs \in [Inums -> Nat]
    BY <1>2, TypeSays DEF Dirs, IInv, TypeOK
  <2> QED
    BY <1>2, <2>1, DirectoryAssumption
<1>5. n \in Names
  BY <1>2, DirectoryAssumption
<1>6. PICK t : t = Deleted(d, n)
  OBVIOUS
<1>7. PICK a \in 3 .. Len(data[d]) : /\ data[d][a].name = n /\ data[d][a].inum = i
                                     /\ Shrunk(d, data[d], a, t)
  BY <1>1, <1>4, <1>5, <1>6, DeletedSays
<1>8. i # root
  <2>1. Contents(d, data[d])
    BY <1>4 DEF IInv, ContentsTold
  <2> QED
    BY <1>7, <2>1 DEF Contents
<1>9. /\ DOMAIN data' = Inums /\ \A e \in Inums \ {d, i} : data'[e] = data[e]
      /\ (d # i \/ refs[i] # 0) => data'[d] = t
      /\ refs[i] = 0 => data'[i] = <<>>
      /\ refs[i] # 0 /\ d # i => data'[i] = data[i]
  <2>1. CASE refs[i] = 0
    BY <1>3, <1>4, <1>6, <2>1
  <2>2. CASE refs[i] # 0
    BY <1>3, <1>4, <1>6, <2>2
  <2> QED
    BY <2>1, <2>2
<1>10. /\ cookie' \in [Cookies -> Cookie] /\ scan' \in [Cookies -> Scan]
       /\ OpenTold' /\ (RmdirNames \subseteq Names => RefsExact')
       /\ (MaxDeletes <= 1 => ScansTold')
  <2>1. \A c \in Cookies : cookie[c].dir # NoInum =>
              /\ cookie[c].dir \in loaded' \cap isdir'
              /\ cookie[c].dir = d => data'[d] = Deleted(d, n)
              /\ cookie[c].dir # d => data'[cookie[c].dir] = data[cookie[c].dir]
    <3> TAKE c \in Cookies
    <3> HAVE cookie[c].dir # NoInum
    <3>1. PICK e : e = cookie[c].dir
      OBVIOUS
    <3>2. e \in loaded /\ e \in isdir /\ e \in Inums /\ refs[e] > 0 /\ refs[e] \in Nat
      BY <3>1, ReadSays
    <3>3. e = i => refs[i] # 0
      BY <3>2
    <3>4. e \in loaded' \cap isdir'
      BY <1>3, <3>2, <3>3
    <3>5. e = d => data'[d] = t
      BY <1>9, <3>3
    <3>6. e # d => data'[e] = data[e]
      BY <1>9, <3>2, <3>3
    <3> QED
      BY <1>6, <3>1, <3>4, <3>5, <3>6
  <2>2. dir_lookup(d, n) # NoInum
    BY <1>1, <1>4
  <2> QED
    BY <1>2, <1>4, <1>5, <2>1, <2>2, DeleteOpen
<1>11. t \in Seq(Entries) /\ Contents(d, t)
  BY <1>7 DEF Shrunk
<1>12. TypeOK'
  <2>1. data' \in [Inums -> Seq(Entries)]
    <3>1. <<>> \in Seq(Entries)
      OBVIOUS
    <3>2. CASE refs[i] = 0
      BY <1>3, <1>4, <1>6, <1>11, <3>1, <3>2
    <3>3. CASE refs[i] # 0
      BY <1>3, <1>4, <1>6, <1>11, <3>3
    <3> QED
      BY <3>2, <3>3
  <2>2. /\ root \in isdir /\ root \notin removed /\ loaded \subseteq Inums
        /\ removed \subseteq Inums
    BY DEF IInv, TypeOK
  <2>3. /\ used' \subseteq Inums /\ isdir' \subseteq used' /\ root \in isdir' \ removed'
        /\ loaded' \subseteq Inums /\ removed' \subseteq Inums /\ orphans' \subseteq Inums
    <3>1. ShortChildren(i) \subseteq Inums
      <4>1. data[i] \in Seq(Entries)
        BY <1>4
      <4>2. \A k \in 3 .. Len(data[i]) : data[i][k] \in Entries
        BY <4>1
      <4>3. \A e \in Entries : e.inum \in Inums
        BY DEF Entries
      <4> QED
        BY <4>2, <4>3 DEF ShortChildren
    <3>2. orphans' \subseteq Inums
      BY <1>2, <3>1 DEF IInv, TypeOK
    <3> QED
      BY <1>3, <1>4, <1>8, <2>2, <3>2
  <2>4. refs' \in [Inums -> Nat]
    BY <1>2 DEF IInv, TypeOK
  <2> QED
    BY <1>10, <2>1, <2>3, <2>4 DEF TypeOK, Cookie, Scan, Entries
<1>13. ContentsTold'
  <2> SUFFICES ASSUME NEW e \in isdir' PROVE Contents(e, data'[e])
    BY DEF ContentsTold, Contents
  <2>1. e \in isdir /\ e \in Inums /\ (e = i => refs[i] # 0)
    BY <1>3, <1>4
  <2>2. CASE e = d
    BY <1>9, <1>11, <2>1, <2>2
  <2>3. CASE e # d
    <3>1. data'[e] = data[e]
      BY <1>9, <2>1, <2>3
    <3> QED
      BY <2>1, <3>1 DEF IInv, ContentsTold
  <2> QED
    BY <2>2, <2>3
<1>14. Children(i) = ShortChildren(i) /\ (ShortNames = {} => ShortChildren(i) = {})
  <2>1. data[i] \in Seq(Entries) /\ Contents(i, data[i])
    BY <1>2, <1>4 DEF IInv, ContentsTold
  <2>2. \A k \in 3 .. Len(data[i]) : data[i][k].name \in ShortNames
    BY <1>2, <2>1, SizeSays
  <2> QED
    BY <2>2 DEF Children, ShortChildren
<1>15. TreeTold'
  <2>1. TreeTold
    BY DEF IInv
  <2>2. d # i
    BY <1>2, <1>7, <2>1 DEF TreeTold
  <2>3. Gone(i)
    BY <1>2, <1>3, <1>4, <1>14 DEF Gone
  <2>4. \A e \in isdir \ {d, i} : data'[e] = data[e]
    BY <1>4, <1>9
  <2>5. i = data[d][a].inum /\ Shrunk(d, data[d], a, data'[d])
    BY <1>7, <1>9, <2>2
  <2> QED
    BY <1>2, <2>1, <2>3, <2>4, <2>5, DeleteTree
<1>16. ShortNames = {} => orphans' = {}
  BY <1>2, <1>14 DEF IInv
<1> QED
  BY <1>10, <1>12, <1>13, <1>15, <1>16 DEF IInv
-----------------------------------------------------------------------------
(***************************************************************************)
(* The inductive invariant holds.                                          *)
(***************************************************************************)
LEMMA InitIInv == Init => IInv
<1> SUFFICES ASSUME Init PROVE IInv
  OBVIOUS
<1>1. /\ used = {root} /\ isdir = {root} /\ loaded = {} /\ removed = {} /\ orphans = {}
      /\ data = [i \in Inums |-> IF i = root THEN NewDir(root, root) ELSE <<>>]
      /\ refs = [i \in Inums |-> 0]
      /\ cookie = [c \in Cookies |-> NoCookie] /\ scan = [c \in Cookies |-> NoScan]
      /\ root \in Inums
  BY DirectoryAssumption DEF Init
<1>2. /\ NewDir(root, root) \in Seq(Entries) /\ Contents(root, NewDir(root, root))
      /\ Len(NewDir(root, root)) = 2 /\ NewDir(root, root)[2].inum = root
  BY <1>1, NewDirSays
<1>3. data[root] = NewDir(root, root)
  BY <1>1
<1>4. TypeOK
  <2>1. data \in [Inums -> Seq(Entries)]
    <3>1. <<>> \in Seq(Entries)
      OBVIOUS
    <3> QED
      BY <1>1, <1>2, <3>1
  <2>2. cookie \in [Cookies -> Cookie] /\ scan \in [Cookies -> Scan]
    BY <1>1, ScanKinds
  <2>3. refs \in [Inums -> Nat]
    BY <1>1
  <2>4. /\ used \subseteq Inums /\ isdir \subseteq used /\ root \in isdir \ removed
        /\ loaded \subseteq Inums /\ removed \subseteq Inums /\ orphans \subseteq Inums
    BY <1>1
  <2> QED
    BY <2>1, <2>2, <2>3, <2>4 DEF TypeOK, Cookie, Scan, Entries
<1>5. ContentsTold
  BY <1>1, <1>2, <1>3 DEF ContentsTold
<1>6. \A c \in Cookies : cookie[c].dir = NoInum /\ ~scan[c].again
  BY <1>1 DEF NoCookie, NoScan
<1>7. \A i \in Inums : refs[i] = Cardinality(OnDir(i))
  <2> TAKE i \in Inums
  <2>1. OnDir(i) = {}
    BY <1>6, DirectoryAssumption DEF OnDir
  <2> QED
    BY <1>1, <2>1, FS_EmptySet
<1>8. OpenTold
  BY <1>1, <1>6, <1>7 DEF OpenTold
<1>9. RefsExact
  BY <1>7 DEF RefsExact
<1>10. ScansTold
  BY <1>6 DEF ScansTold
<1>11. TreeTold
  <2>1. Dirs = {root}
    BY <1>1 DEF Dirs
  <2>2. \A k \in 3 .. Len(data[root]) : FALSE
    <3>1. Len(data[root]) = 2
      BY <1>2, <1>3
    <3> QED
      BY <3>1
  <2> QED
    BY <1>1, <1>2, <1>3, <2>1, <2>2 DEF TreeTold
<1> QED
  BY <1>1, <1>4, <1>5, <1>8, <1>9, <1>10, <1>11 DEF IInv

LEMMA StutterIInv == IInv /\ UNCHANGED vars => IInv'
<1> SUFFICES ASSUME IInv, UNCHANGED vars PROVE IInv'
  OBVIOUS
<1>1. /\ used' = used /\ isdir' = isdir /\ data' = data /\ removed' = removed
      /\ orphans' = orphans
      /\ cookie' = cookie /\ scan' = scan /\ loaded' = loaded /\ refs' = refs
  BY DEF vars
<1>2. /\ loaded' \subseteq Inums /\ refs' \in [Inums -> Nat]
      /\ \A i \in Inums : refs'[i] >= refs[i]
  <2>1. loaded \subseteq Inums /\ refs \in [Inums -> Nat]
    BY DEF IInv, TypeOK
  <2>2. \A i \in Inums : refs[i] \in Nat
    BY <2>1
  <2> QED
    BY <1>1, <2>1, <2>2
<1>3. \A c \in Cookies : cookie[c].dir # NoInum => cookie[c].dir \in loaded'
  BY <1>1 DEF IInv, OpenTold
<1> QED
  BY <1>1, <1>2, <1>3, LoadStep

LEMMA NextIInv == IInv /\ Next => IInv'
<1> SUFFICES ASSUME IInv, Next PROVE IInv'
  OBVIOUS
<1>1. ASSUME NEW d \in Inums, NEW n \in Names, NEW i \in Inums,
             Create(d, n, i) \/ Mkdir(d, n, i)
      PROVE  IInv'
  BY <1>1, MakeStep
<1>2. ASSUME NEW d \in Inums, NEW n \in Names, Walk(d, n) \/ UnlinkFails(d, n) PROVE IInv'
  BY <1>2, LoadsStep
<1>3. ASSUME NEW d \in Inums, NEW n \in Names, Unlink(d, n) PROVE IInv'
  BY <1>3, UnlinkStep
<1>4. ASSUME NEW d \in Inums, NEW n \in RmdirNames, Rmdir(d, n) PROVE IInv'
  BY <1>4, RmdirStep
<1>5. ASSUME NEW d \in Inums, NEW n \in RmdirNames, RmdirFails(d, n) PROVE IInv'
  BY <1>5, LoadsStep
<1>6. ASSUME NEW d \in Inums, NEW c \in Cookies, Opendir(c, d) PROVE IInv'
  BY <1>6, OpendirStep
<1>7. ASSUME NEW d \in Inums, Release(d) PROVE IInv'
  BY <1>7, LoadsStep
<1>8. ASSUME NEW c \in Cookies, Readdir(c) \/ ReaddirEnd(c) \/ Rewinddir(c) \/ Closedir(c)
      PROVE  IInv'
  BY <1>8, ReaddirStep, ReaddirEndStep, RewinddirStep, ClosedirStep
<1> QED
  BY <1>1, <1>2, <1>3, <1>4, <1>5, <1>6, <1>7, <1>8 DEF Next

\* Whatever is created, removed, read or released, in any order: a
\* directory has "." and ".." and no name twice; a descriptor holds its
\* directory and its contents; if rmdir is not called on "." or ".." there
\* is one reference per descriptor; if names go one at a time between two
\* readdirs every scan knows what it has passed; and the names form a tree
\* but for those that rmdir takes away with their directory, which are all
\* of at most six characters.
THEOREM DirInvariant == Spec => []IInv
<1>1. IInv /\ [Next]_vars => IInv'
  BY NextIInv, StutterIInv
<1> QED
  BY InitIInv, <1>1, PTL DEF Spec

LEMMA NamesCount ==
    ASSUME NEW d, NEW s \in Seq(Entries), Contents(d, s)
    PROVE  Cardinality(NamesIn(s)) = Len(s)
<1>1. Len(s) \in Nat /\ DOMAIN s = 1 .. Len(s)
  OBVIOUS
<1>2. PICK f : f = [k \in 1 .. Len(s) |-> s[k].name]
  OBVIOUS
<1>3. f \in Bijection(1 .. Len(s), NamesIn(s))
  <2>1. f \in [1 .. Len(s) -> NamesIn(s)]
    BY <1>1, <1>2 DEF NamesIn
  <2>2. \A j, k \in 1 .. Len(s) : f[j] = f[k] => j = k
    BY <1>1, <1>2 DEF Contents
  <2>3. \A n \in NamesIn(s) : \E k \in 1 .. Len(s) : f[k] = n
    BY <1>1, <1>2 DEF NamesIn
  <2> QED
    BY <2>1, <2>2, <2>3 DEF Bijection, Injection, Surjection, IsInjective
<1>4. ExistsBijection(1 .. Len(s), NamesIn(s))
  BY <1>3 DEF ExistsBijection
<1>5. IsFiniteSet(1 .. Len(s)) /\ Cardinality(1 .. Len(s)) = Len(s)
  BY <1>1, FS_Interval
<1> QED
  BY <1>4, <1>5, FS_Bijection

\* The directories form a tree, however many inodes and names there are and
\* whatever is open, but for what a short name led to when rmdir took its
\* directory away: see TreeSound.
THEOREM DirTreeSound == Spec => []TreeSound
<1>1. IInv => TreeSound
  <2> SUFFICES ASSUME IInv PROVE TreeSound
    OBVIOUS
  <2>1. TreeTold /\ isdir \subseteq used /\ used \subseteq Inums
    BY DEF IInv, TypeOK
  <2>2. \A d \in Dirs : d \in isdir /\ d \in Inums /\ d \in used \ removed
    BY <2>1 DEF Dirs
  <2>3. ASSUME NEW d \in Dirs
        PROVE  /\ Cardinality(NamesIn(data[d])) = Len(data[d])
               /\ \A k \in DOMAIN data[d] :
                     k # 2 \/ d \notin orphans => data[d][k].inum \in used \ removed
    <3>1. PICK s : s = data[d]
      OBVIOUS
    <3>2. s \in Seq(Entries) /\ Contents(d, s) /\ Len(s) \in Nat /\ DOMAIN s = 1 .. Len(s)
      BY <2>2, <3>1, TypeSays DEF IInv, ContentsTold
    <3>3. Cardinality(NamesIn(s)) = Len(s)
      BY <3>2, NamesCount
    <3>4. s[1].inum = d
      BY <3>2 DEF Contents, Entry
    <3>5. d \notin orphans => s[2].inum \in Dirs
      <4>1. CASE d = root
        <5>1. root \in Dirs
          BY DEF Dirs, IInv, TypeOK
        <5> QED
          BY <2>1, <3>1, <4>1, <5>1 DEF TreeTold
      <4>2. CASE d # root /\ d \notin orphans
        <5>1. d \in used \ (removed \cup orphans \cup {root}) /\ d \in isdir
          BY <2>2, <4>2
        <5> QED
          BY <2>1, <3>1, <5>1 DEF TreeTold
      <4> QED
        BY <4>1, <4>2
    <3>6. \A k \in DOMAIN s : k = 1 \/ k = 2 \/ k \in 3 .. Len(s)
      BY <3>2
    <3>7. \A k \in 3 .. Len(s) : s[k].inum \in used \ removed
      BY <2>1, <3>1 DEF TreeTold
    <3>8. \A k \in DOMAIN s : k # 2 \/ d \notin orphans => s[k].inum \in used \ removed
      BY <2>2, <3>4, <3>5, <3>6, <3>7
    <3> QED
      BY <3>1, <3>3, <3>8
  <2>4. ASSUME NEW i \in used \ {root}, i \in removed
        PROVE  refs[i] > 0
    BY <2>1, <2>4 DEF TreeTold
  <2>5. orphans \subseteq used \ removed /\ \A i \in orphans : Links(i) = {}
    BY <2>1 DEF TreeTold, Links
  <2>6. ASSUME NEW i \in used \ {root}, i \notin removed, i \notin orphans
        PROVE  \E l \in Links(i) : Links(i) = {l} /\ (i \in isdir => data[i][2].inum = l[1])
    <3>1. PICK d \in Dirs : /\ \E k \in 3 .. Len(data[d]) : data[d][k].inum = i
                            /\ i \in isdir => data[i][2].inum = d
      BY <2>1, <2>6 DEF TreeTold
    <3>2. PICK k \in 3 .. Len(data[d]) : data[d][k].inum = i
      BY <3>1
    <3>3. <<d, k>> \in Links(i)
      BY <3>2 DEF Links
    <3>4. \A l \in Links(i) : l = <<d, k>>
      <4> TAKE l \in Links(i)
      <4>1. PICK e \in Dirs : \E j \in 3 .. Len(data[e]) : data[e][j].inum = i /\ l = <<e, j>>
        BY DEF Links
      <4>2. PICK j \in 3 .. Len(data[e]) : data[e][j].inum = i /\ l = <<e, j>>
        BY <4>1
      <4>3. e = d /\ j = k
        BY <2>1, <3>2, <4>2 DEF TreeTold
      <4> QED
        BY <4>2, <4>3
    <3>5. Links(i) = {<<d, k>>}
      BY <3>3, <3>4
    <3>6. <<d, k>>[1] = d
      OBVIOUS
    <3> QED
      BY <3>1, <3>3, <3>5, <3>6
  <2> QED
    BY <2>3, <2>4, <2>5, <2>6 DEF TreeSound
<1> QED
  BY <1>1, DirInvariant, PTL

\* Where no name is of at most six characters, rmdir's look at the size is
\* right and it takes away empty directories only.
THEOREM DirRmdirOnlyEmpty == Spec => [](ShortNames = {} => RmdirOnlyEmpty)
<1>1. IInv => (ShortNames = {} => RmdirOnlyEmpty)
  BY DEF IInv, RmdirOnlyEmpty
<1> QED
  BY <1>1, DirInvariant, PTL

\* As long as rmdir is not called on "." or "..", which loses a reference,
\* a directory stays in core with its contents while it is being read and
\* has one reference per descriptor.
THEOREM DirOpenStays == Spec => [](RmdirNames \subseteq Names => OpenStaysInCore)
<1>1. IInv => (RmdirNames \subseteq Names => OpenStaysInCore)
  BY DEF IInv, TypeOK, OpenTold, RefsExact, OpenStaysInCore
<1> QED
  BY <1>1, DirInvariant, PTL

\* Scans are right as long as at most one name goes between two readdirs of
\* a scan: the re-sync of readdir steps back by one entry only.
THEOREM DirScanRight == Spec => [](MaxDeletes <= 1 => ScanRight)
<1>1. IInv => (MaxDeletes <= 1 => ScanRight)
  <2> SUFFICES ASSUME IInv, MaxDeletes <= 1, NEW c \in Cookies
               PROVE  /\ ~scan[c].again
                      /\ cookie[c].dir # NoInum =>
                            LET k == Resynced(cookie[c]) IN
                            \A p \in 1 .. k.pos : data[k.dir][p].name \notin scan[c].missing
    BY DEF ScanRight
  <2>1. ~scan[c].again /\ cookie[c] \in Cookie /\ scan[c] \in Scan
    BY TypeSays DEF IInv, ScansTold
  <2>2. ASSUME cookie[c].dir # NoInum, NEW q, q = Resynced(cookie[c])
        PROVE  \A p \in 1 .. q.pos : data[q.dir][p].name \notin scan[c].missing
    <3>1. PICK k \in Cookie, sc \in Scan : k = cookie[c] /\ sc = scan[c]
      BY <2>1
    <3>2. PICK s : s = data[k.dir]
      OBVIOUS
    <3>3. s \in Seq(Entries)
      BY <2>2, <3>1, <3>2, ReadSays
    <3>4. ScanFits(k, sc, s)
      BY <2>2, <3>1, <3>2 DEF IInv, ScansTold
    <3>5. q = Resynced(k)
      BY <2>2, <3>1
    <3>6. Synced(k, sc, s, q)
      BY <3>2, <3>3, <3>4, <3>5, ResyncedSays
    <3> QED
      BY <3>1, <3>2, <3>6 DEF Synced
  <2> QED
    BY <2>1, <2>2
<1> QED
  BY <1>1, DirInvariant, PTL
=============================================================================
