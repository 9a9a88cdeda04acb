----------------------------- MODULE Directory -----------------------------
(***************************************************************************)
(* The directories of myfs: dir.c, and create and unlink of file.c.        *)
(*                                                                         *)
(* A directory is a file of packed entries (data); its bytes are in core   *)
(* (loaded) from the first call that needs them until its vnode is         *)
(* released.  myfs is not meant for several threads, so that a call is one *)
(* step, but the calls of a scan (opendir .. closedir) come with other     *)
(* calls in between.  etc->counter and the counter of a cookie are only    *)
(* compared, so a cookie just knows whether they differ (stale).           *)
(*                                                                         *)
(* Calls name a directory by a path, so it has not been removed, and leave *)
(* no file open.  There is space for every entry; DataStream is about      *)
(* running out of it.                                                      *)
(***************************************************************************)
EXTENDS Integers, Sequences, FiniteSetsExt

CONSTANTS Inums, NoInum, root,
          Names,         \* names of files and directories
          ShortNames,    \* those of at most six characters
          RmdirNames,    \* the names rmdir is called with
          Cookies,
          MaxDeletes     \* names deleted between two readdirs of a scan

ASSUME DirectoryAssumption ==
    /\ root \in Inums /\ NoInum \notin Inums
    /\ ShortNames \subseteq Names /\ Names \cap {"", ".", ".."} = {}
    /\ RmdirNames \subseteq Names \cup {".", ".."}
    /\ MaxDeletes \in Nat /\ IsFiniteSet(Cookies)

VARIABLES
    used,       \* inodes in use
    isdir,      \* those that are directories
    data,       \* the entries of each directory
    loaded,     \* directories whose contents are in core
    refs,       \* references to the vnode of a directory, kept between calls
    removed,    \* directories removed while referenced
    orphans,    \* inodes whose name went with their directory: ghost
    cookie,     \* the scans; dir is NoInum if there is none
    scan        \* what each scan has met: only for the properties

dirVars == <<used, isdir, data, loaded, refs, removed, orphans>>
vars == <<used, isdir, data, loaded, refs, removed, orphans, cookie, scan>>

Entry(n, i) == [name |-> n, inum |-> i]

\* make_dir: "." and "..".
NewDir(i, parent) == <<Entry(".", i), Entry("..", parent)>>

\* MDE_SIZE with 8-byte inode numbers, of names up to 14 characters.
MDE_SIZE(n) == IF n \in ShortNames \cup {".", ".."} THEN 16 ELSE 24

MKDIR_BUFSIZE == 48

OfSize(s, size) == {k \in DOMAIN s : MDE_SIZE(s[k].name) = size}
SizeOf(s) == 16 * Cardinality(OfSize(s, 16)) + 24 * Cardinality(OfSize(s, 24))

\* A scan has yet to return the names missing of those that have been there
\* since it began.  While it does what rmall of the shell does, unlinking
\* only what it has just read, got are the names returned and still there.
NoScan == [missing |-> {}, deletes |-> 0,
           rmall |-> TRUE, got |-> {}, last |-> "", again |-> FALSE]

NotRmall(sc) ==
    [sc EXCEPT !.rmall = FALSE, !.got = {}, !.last = "", !.again = FALSE]

NoCookie == [dir |-> NoInum, pos |-> 0, index |-> 0, stale |-> FALSE]

Init ==
    /\ used = {root} /\ isdir = {root}
    /\ data = [i \in Inums |-> IF i = root THEN NewDir(root, root) ELSE <<>>]
    /\ loaded = {} /\ removed = {} /\ orphans = {}
    /\ refs = [i \in Inums |-> 0]
    /\ cookie = [c \in Cookies |-> NoCookie]
    /\ scan = [c \in Cookies |-> NoScan]

NamesIn(s) == {s[k].name : k \in DOMAIN s}

\* What dir_lookup finds; NoInum stands for ENOENT.
dir_lookup(d, n) ==
    IF n \in NamesIn(data[d])
    THEN (CHOOSE e \in {data[d][k] : k \in DOMAIN data[d]} : e.name = n).inum
    ELSE NoInum

\* Directories that paths lead to.
Dirs == isdir \ removed

OnDir(d) == {c \in Cookies : cookie[c].dir = d}

\* etc->counter++: every cookie of the directory has to re-sync.
Stale(d) == [c \in Cookies |-> IF c \in OnDir(d)
                               THEN [cookie[c] EXCEPT !.stale = TRUE]
                               ELSE cookie[c]]

\* A call that only looks: get_dir_contents.
Looked(d) ==
    /\ loaded' = loaded \cup {d}
    /\ UNCHANGED <<used, isdir, data, refs, removed, orphans, cookie, scan>>
-----------------------------------------------------------------------------
\* dir_insert: the entry goes to the end.
Inserted(d, n, i) == Append(data[d], Entry(n, i))

AfterInsert(d) ==
    /\ loaded' = loaded \cup {d}
    /\ cookie' = Stale(d)
    /\ scan' = [c \in Cookies |-> IF c \in OnDir(d)
                                  THEN NotRmall(scan[c])
                                  ELSE scan[c]]

\* myfs_create.
Create(d, n, i) ==
    /\ d \in Dirs /\ dir_lookup(d, n) = NoInum /\ i \notin used
    /\ used' = used \cup {i}
    /\ data' = [data EXCEPT ![d] = Inserted(d, n, i)]
    /\ AfterInsert(d)
    /\ UNCHANGED <<isdir, refs, removed, orphans>>

\* myfs_mkdir.
Mkdir(d, n, i) ==
    /\ d \in Dirs /\ dir_lookup(d, n) = NoInum /\ i \notin used
    /\ used' = used \cup {i}
    /\ isdir' = isdir \cup {i}
    /\ data' = [data EXCEPT ![d] = Inserted(d, n, i), ![i] = NewDir(i, d)]
    /\ AfterInsert(d)
    /\ UNCHANGED <<refs, removed, orphans>>

\* myfs_walk, and create or mkdir of a name that is there (EEXIST).
Walk(d, n) == d \in Dirs /\ Looked(d)
-----------------------------------------------------------------------------
\* dir_delete: the entries behind move up.
Deleted(d, n) ==
    LET at == CHOOSE k \in DOMAIN data[d] : data[d][k].name = n IN
    [k \in 1 .. Len(data[d]) - 1 |-> IF k < at THEN data[d][k] ELSE data[d][k + 1]]

MayDelete(d) == \A c \in OnDir(d) : scan[c].deletes < MaxDeletes

AfterDelete(d, n) ==
    /\ cookie' = Stale(d)
    /\ scan' = [c \in Cookies |->
            IF c \in OnDir(d)
            THEN [(IF scan[c].last = n THEN scan[c] ELSE NotRmall(scan[c]))
                    EXCEPT !.missing = @ \ {n}, !.deletes = @ + 1, !.got = @ \ {n}]
            ELSE scan[c]]

\* myfs_unlink of a file: the inode is freed with the last reference, which
\* is the one of the call.
Unlink(d, n) ==
    LET i == dir_lookup(d, n) IN
    /\ d \in Dirs /\ i # NoInum /\ i \notin isdir /\ MayDelete(d)
    /\ data' = [data EXCEPT ![d] = Deleted(d, n)]
    /\ used' = used \ {i}
    /\ loaded' = loaded \cup {d}
    /\ AfterDelete(d, n)
    /\ UNCHANGED <<isdir, refs, removed, orphans>>

\* ENOENT, EISDIR.
UnlinkFails(d, n) ==
    /\ d \in Dirs /\ dir_lookup(d, n) \in isdir \cup {NoInum}
    /\ Looked(d)

\* A mistake: the size of the directory is not looked at.
MayRemoveMut(i) == i \in isdir

\* What the short names of a directory lead to.
ShortChildren(i) ==
    {data[i][k].inum : k \in {j \in 3 .. Len(data[i]) : data[i][j].name \in ShortNames}}

\* The tests of myfs_rmdir on the directory to be removed.
MayRemove(i) == i \in isdir /\ SizeOf(data[i]) <= MKDIR_BUFSIZE

\* myfs_rmdir.  The inode is freed now (myfs_remove_vnode) or, if somebody
\* has the directory open, with the last reference.  A short name that the
\* look at the size did not count goes with it (orphans).
Rmdir(d, n) ==
    LET i == dir_lookup(d, n) IN
    /\ d \in Dirs /\ n \notin {".", ".."} /\ MayRemove(i) /\ MayDelete(d)
    /\ IF refs[i] = 0
       THEN /\ used' = used \ {i} /\ isdir' = isdir \ {i}
            /\ loaded' = (loaded \cup {d}) \ {i}
            /\ data' = [data EXCEPT ![d] = Deleted(d, n), ![i] = <<>>]
            /\ UNCHANGED removed
       ELSE /\ removed' = removed \cup {i}
            /\ data' = [data EXCEPT ![d] = Deleted(d, n)]
            /\ loaded' = loaded \cup {d}
            /\ UNCHANGED <<used, isdir>>
    /\ orphans' = orphans \cup ShortChildren(i)
    /\ AfterDelete(d, n)
    /\ UNCHANGED refs

\* ENOENT, ENOTDIR and ENOTEMPTY; also EINVAL from dir_delete for "." and "..",
\* where the reference from get_vnode is not put back.
RmdirFails(d, n) ==
    LET i == dir_lookup(d, n) IN
    /\ d \in Dirs /\ (n \in {".", ".."} \/ ~MayRemove(i))
    /\ refs' = IF MayRemove(i) THEN [refs EXCEPT ![i] = @ + 1] ELSE refs
    /\ loaded' = loaded \cup {d}
    /\ UNCHANGED <<used, isdir, data, removed, orphans, cookie, scan>>
-----------------------------------------------------------------------------
\* A scan of d begins: opendir, rewinddir.
Started(c, d) ==
    /\ cookie' = [cookie EXCEPT ![c] = [NoCookie EXCEPT !.dir = d]]
    /\ scan' = [scan EXCEPT ![c] = [NoScan EXCEPT !.missing = NamesIn(data[d])]]

\* A mistake: the contents are left to be loaded by the first lookup.
OpendirMut(c, d) ==
    /\ d \in Dirs /\ cookie[c].dir = NoInum
    /\ refs' = [refs EXCEPT ![d] = @ + 1]
    /\ Started(c, d)
    /\ UNCHANGED <<used, isdir, data, loaded, removed, orphans>>

\* myfs_opendir; the descriptor holds a reference.
Opendir(c, d) ==
    /\ d \in Dirs /\ cookie[c].dir = NoInum
    /\ loaded' = loaded \cup {d}
    /\ refs' = [refs EXCEPT ![d] = @ + 1]
    /\ Started(c, d)
    /\ UNCHANGED <<used, isdir, data, removed, orphans>>

Rewinddir(c) ==
    /\ cookie[c].dir # NoInum
    /\ Started(c, cookie[c].dir)
    /\ UNCHANGED dirVars

\* A mistake: the position is kept.
ResyncedMutStay(k) ==
    IF ~k.stale THEN k
    ELSE [k EXCEPT !.pos = Min({k.index, Len(data[k.dir])}), !.stale = FALSE]

\* "then we have to re-sync": one entry back, as if one before had gone.
Resynced(k) ==
    IF ~k.stale THEN k
    ELSE [k EXCEPT !.pos = Min({Max({k.index - 1, 0}), Len(data[k.dir])}),
                   !.index = @ - 1,
                   !.stale = FALSE]

Got(sc, n) ==
    IF ~sc.rmall THEN sc
    ELSE [sc EXCEPT !.got = @ \cup {n}, !.last = n, !.again = @ \/ n \in sc.got]

\* myfs_readdir returns an entry.
Readdir(c) ==
    LET k == Resynced(cookie[c])
        n == data[k.dir][k.pos + 1].name IN
    /\ cookie[c].dir \in loaded /\ k.pos < Len(data[k.dir])
    /\ cookie' = [cookie EXCEPT ![c] = [k EXCEPT !.pos = @ + 1, !.index = @ + 1]]
    /\ scan' = [scan EXCEPT ![c] =
                   [Got(scan[c], n) EXCEPT !.missing = @ \ {n}, !.deletes = 0]]
    /\ UNCHANGED dirVars

\* The end of the directory, or no contents.
ReaddirEnd(c) ==
    LET k == IF cookie[c].dir \in loaded THEN Resynced(cookie[c]) ELSE cookie[c] IN
    /\ k.dir # NoInum
    /\ k.dir \in loaded => k.pos >= Len(data[k.dir])
    /\ cookie' = [cookie EXCEPT ![c] = k]
    /\ scan' = [scan EXCEPT ![c].deletes = 0]
    /\ UNCHANGED dirVars

\* closedir: myfs_closedir, myfs_free_dircookie and the reference.
Closedir(c) ==
    LET d == cookie[c].dir
        gone == IF d \in removed /\ refs[d] = 1 THEN {d} ELSE {} IN
    /\ d # NoInum
    /\ refs' = [refs EXCEPT ![d] = @ - 1]
    /\ used' = used \ gone /\ isdir' = isdir \ gone
    /\ loaded' = loaded \ gone /\ removed' = removed \ gone
    /\ data' = [i \in Inums |-> IF i \in gone THEN <<>> ELSE data[i]]
    /\ cookie' = [cookie EXCEPT ![c] = NoCookie]
    /\ scan' = [scan EXCEPT ![c] = NoScan]
    /\ UNCHANGED orphans

\* The vnode of a directory nobody refers to leaves the core:
\* myfs_release_vnode.  The mount keeps the root's.
Release(d) ==
    /\ d \in loaded \ {root} /\ refs[d] = 0
    /\ loaded' = loaded \ {d}
    /\ UNCHANGED <<used, isdir, data, refs, removed, orphans, cookie, scan>>

Next ==
    \/ \E d \in Inums :
         \/ \E n \in Names :
              \/ \E i \in Inums : Create(d, n, i) \/ Mkdir(d, n, i)
              \/ Walk(d, n) \/ Unlink(d, n) \/ UnlinkFails(d, n)
         \/ \E n \in RmdirNames : Rmdir(d, n) \/ RmdirFails(d, n)
         \/ \E c \in Cookies : Opendir(c, d)
         \/ Release(d)
    \/ \E c \in Cookies : Readdir(c) \/ ReaddirEnd(c) \/ Rewinddir(c) \/ Closedir(c)

Spec == Init /\ [][Next]_vars
-----------------------------------------------------------------------------
\* The places where names of directories that paths lead to say inode i.
Links(i) ==
    UNION {{<<d, k>> : k \in {j \in 3 .. Len(data[d]) : data[d][j].inum = i}} : d \in Dirs}

(***************************************************************************)
(* The directories form a tree: no name twice in a directory, every name   *)
(* leads to an inode in use, every inode in use has exactly one name or    *)
(* waits for a reference to be dropped, and ".." leads to the directory    *)
(* that has the name.  Create, mkdir, unlink and rmdir each change two     *)
(* inodes and have to leave them so, whatever is open meanwhile.  One      *)
(* thing tears the tree: a short name (of at most six characters) that     *)
(* rmdir does not count.  What it led to stays in use without a name, and  *)
(* nothing else does.                                                      *)
(***************************************************************************)
TreeSound ==
    /\ \A d \in Dirs :
         /\ Cardinality(NamesIn(data[d])) = Len(data[d])
         /\ \A k \in DOMAIN data[d] :
               k # 2 \/ d \notin orphans => data[d][k].inum \in used \ removed
    /\ orphans \subseteq used \ removed
    /\ \A i \in used \ {root} :
         \/ i \in removed /\ refs[i] > 0
         \/ i \in orphans /\ Links(i) = {}
         \/ i \notin removed \cup orphans /\ \E l \in Links(i) :
               Links(i) = {l} /\ (i \in isdir => data[i][2].inum = l[1])

(***************************************************************************)
(* rmdir takes away empty directories only: a directory larger than an     *)
(* empty one, dir.c says, "still has stuff in it", and ENOTEMPTY is the    *)
(* answer; so no name is lost with its directory.                          *)
(***************************************************************************)
RmdirOnlyEmpty == orphans = {}

(***************************************************************************)
(* A directory that is being read stays in core with its contents until    *)
(* the last descriptor is closed, also when it is removed, and is          *)
(* referenced once per descriptor, so that it can go then.  Otherwise      *)
(* readdir says "nothing in the directory".  (With rmdir called on names   *)
(* only: on "." and ".." it leaves a reference behind.)                    *)
(***************************************************************************)
OpenStaysInCore ==
    /\ \A c \in Cookies : cookie[c].dir # NoInum => cookie[c].dir \in loaded \cap used
    /\ \A i \in Inums : refs[i] = Cardinality(OnDir(i))

(***************************************************************************)
(* A scan is right while the directory changes: names that are in it all   *)
(* the time are not passed over by readdir when others come or, one        *)
(* between two readdirs, go; and a scan that unlinks what it has just      *)
(* read, as rmall of the shell does, gets no name twice.                   *)
(***************************************************************************)
ScanRight == \A c \in Cookies :
    /\ ~scan[c].again
    /\ cookie[c].dir # NoInum =>
          LET k == Resynced(cookie[c]) IN
          \A p \in 1 .. k.pos : data[k.dir][p].name \notin scan[c].missing

(***************************************************************************)
(* The inductive invariant.                                                *)
(***************************************************************************)
AllNames == Names \cup {".", ".."}

TypeOK ==
    /\ used \subseteq Inums /\ isdir \subseteq used /\ root \in isdir \ removed
    /\ loaded \subseteq Inums /\ removed \subseteq Inums /\ orphans \subseteq Inums
    /\ data \in [Inums -> Seq([name : AllNames, inum : Inums])]
    /\ refs \in [Inums -> Nat]
    /\ cookie \in [Cookies -> [dir : Inums \cup {NoInum}, pos : Nat, index : Int,
                               stale : BOOLEAN]]
    /\ scan \in [Cookies -> [missing : SUBSET AllNames, deletes : Nat, rmall : BOOLEAN,
                             got : SUBSET AllNames, last : AllNames \cup {""},
                             again : BOOLEAN]]

\* "." and ".." first, no name twice, and no name of the root.
Contents(d, s) ==
    /\ Len(s) >= 2 /\ s[1] = Entry(".", d) /\ s[2].name = ".."
    /\ \A k \in 3 .. Len(s) : s[k].name \in Names /\ s[k].inum # root
    /\ \A j, k \in DOMAIN s : s[j].name = s[k].name => j = k

ContentsTold == \A d \in isdir : Contents(d, data[d])

OpenTold ==
    /\ \A c \in Cookies : cookie[c].dir # NoInum => cookie[c].dir \in loaded \cap isdir
    /\ \A i \in Inums : refs[i] >= Cardinality(OnDir(i))

RefsExact == \A i \in Inums : refs[i] = Cardinality(OnDir(i))

\* The first entries of which a scan has no name to return any more.
Passed(k, sc) == IF k.stale THEN k.index - sc.deletes ELSE k.pos
FirstNames(s, m) == {s[p].name : p \in 1 .. m}

ScanFits(k, sc, s) ==
    /\ sc.deletes \in {0, 1} /\ (~k.stale => sc.deletes = 0)
    /\ k.index <= k.pos /\ Passed(k, sc) <= Len(s)
    /\ \A p \in 1 .. Passed(k, sc) : s[p].name \notin sc.missing
    /\ sc.rmall => /\ k.index = k.pos /\ sc.got = FirstNames(s, Passed(k, sc))
                   /\ k.stale => sc.deletes = 1 /\ k.index >= 1 /\ sc.last \notin NamesIn(s)
                   /\ ~k.stale /\ sc.last \in NamesIn(s) =>
                         k.pos >= 1 /\ sc.last = s[k.pos].name

ScansTold == \A c \in Cookies :
    /\ ~scan[c].again
    /\ cookie[c].dir # NoInum => ScanFits(cookie[c], scan[c], data[cookie[c].dir])

TreeTold ==
    /\ removed \subseteq isdir /\ orphans \subseteq used \ (removed \cup {root})
    /\ \A d \in removed : refs[d] > 0
    /\ data[root][2].inum = root
    /\ \A d \in Dirs : \A k \in 3 .. Len(data[d]) :
          data[d][k].inum \in used \ (removed \cup orphans \cup {d})
    /\ \A d, e \in Dirs : \A j \in 3 .. Len(data[d]), k \in 3 .. Len(data[e]) :
          data[d][j].inum = data[e][k].inum => d = e /\ j = k
    /\ \A i \in used \ (removed \cup orphans \cup {root}) : \E d \in Dirs :
          /\ \E k \in 3 .. Len(data[d]) : data[d][k].inum = i
          /\ i \in isdir => data[i][2].inum = d

IInv == /\ TypeOK /\ ContentsTold /\ OpenTold /\ TreeTold
        /\ RmdirNames \subseteq Names => RefsExact
        /\ MaxDeletes <= 1 => ScansTold
        /\ ShortNames = {} => orphans = {}
=============================================================================
