------------------------------- MODULE RootFs -------------------------------
(***************************************************************************)
(* The root file system of rootfs.c: a tree of directories and symbolic    *)
(* links in memory, with its nodes in a skip list by their numbers.        *)
(*                                                                         *)
(* Every operation holds ns->lock from its beginning to its end and is one *)
(* step.  Of the vnode layer only what it does to a node is here: it counts*)
(* the references that callers hold (refs) and remembers that a node is to *)
(* be removed (remove).                                                    *)
(* When the last reference of such a node goes, the vnode layer first      *)
(* makes it busy and then calls rootfs_remove_vnode, which frees it; put   *)
(* from inside an operation the two are one step, from outside ns->lock is *)
(* taken in between.  An operation that needs a node in that interval      *)
(* waits for it with ns->lock held.                                        *)
(*                                                                         *)
(* Names are numbers, in the order of strcmp.  Numbers of nodes are never  *)
(* used twice.  A node's memory is gone once it is freed: an operation     *)
(* that looks at it then stops the model.  Modes, owners and times are     *)
(* left out, and so are allocations that fail.                             *)
(***************************************************************************)
EXTENDS SkipList, Sequences, SequencesExt

CONSTANTS Names,        \* a set of positive numbers
          LongNames,    \* the ones longer than the others
          LinkNames,    \* the ones callers give to symbolic links
          MaxRefs,      \* bound on the references callers hold at once
          OpenDirs,     \* the directories callers read
          Nums,         \* how many entries a readdir asks for
          Rooms         \* how many its buffer has room for

ASSUME RootFsAssumption ==
    /\ Keys = 2 .. Cardinality(Keys) + 1
    /\ Names \subseteq Nat \ {0} /\ LongNames \subseteq Names
    /\ LinkNames \subseteq Names
    /\ MaxRefs \in Nat /\ Nums \subseteq Nat \ {0} /\ Rooms \subseteq Nat

VARIABLES node,      \* per number: the node, and whether it is allocated
          nxvnid,    \* the last number given out
          skiplist,
          refs,      \* per number: the references callers hold
          remove,    \* per number: the vnode layer's flag
          scan,      \* the directory that is open, its cookie, and what it gave
          state      \* "up", "down" after an unmount, or how the model stopped

vars == <<node, nxvnid, skiplist, refs, remove, scan, state>>

root == 1
Vnids == Keys \cup {root}
MemFree == [kind |-> "free", name |-> 0, parent |-> root, removed |-> FALSE, kids |-> <<>>]
NewNode(kind, name, dir) == [MemFree EXCEPT !.kind = kind, !.name = name, !.parent = dir]

\* A cookie: pos and name as in struct dirpos.  The rest is history: the nodes
\* that were there under one name all along, which of them the scan has
\* returned, and, once it has come to its end (over), whether it went wrong.
\* Callers read no further then.
NoScan == [dir |-> 0, pos |-> 0, name |-> 0, there |-> {}, seen |-> {},
           over |-> FALSE, wrong |-> FALSE]

\* rootfs_mount.
Init ==
    /\ node = [n \in Vnids |-> IF n = root THEN NewNode("dir", 0, root) ELSE MemFree]
    /\ nxvnid = root /\ skiplist = NewSL
    /\ refs = [n \in Vnids |-> IF n = root THEN 1 ELSE 0]
    /\ remove = [n \in Vnids |-> FALSE]
    /\ scan = NoScan /\ state = "up"
-----------------------------------------------------------------------------
Alloc == {n \in Vnids : node[n].kind # "free"}
IsDir(n) == node[n].kind = "dir"

\* Callers pass only nodes they hold.
Holds(n) == state = "up" /\ refs[n] > 0
RoomForRef == FoldSet(LAMBDA n, sum : refs[n] + sum, 0, Vnids) <= MaxRefs

\* The children of a directory, in the order of their names.
Child(d, name) == {n \in Range(node[d].kids) : node[n].name = name}
Sorted(ns, kids, n) ==
    LET before == {i \in DOMAIN kids : ns[n].name > ns[kids[i]].name}
    IN  InsertAt(kids, Cardinality(before) + 1, n)

\* Dying: the vnode layer waits for ns->lock to remove it.
Dying(n) == n \in Alloc /\ remove[n] /\ refs[n] = 0

\* get_vnode of a node by its number: in core, or by rootfs_read_vnode.
rootfs_read_vnode(n) == SearchSL(skiplist, n) = n
CanGet(n) == refs[n] > 0 \/ (~Dying(n) /\ rootfs_read_vnode(n))

Stop(how) == state' = how /\ UNCHANGED <<node, nxvnid, skiplist, refs, remove, scan>>

\* The nodes still there under the same name, as seen by the open scan.
Watched(ns) ==
    LET there == {n \in scan.there : /\ n \in Range(ns[scan.dir].kids)
                                     /\ ns[n].name = node[n].name}
    IN  [scan EXCEPT !.there = there, !.seen = @ \cap there]
Rescan(ns) == scan' = IF scan.dir = 0 THEN scan ELSE Watched(ns)
-----------------------------------------------------------------------------
(***************************************************************************)
(* Looking things up.                                                      *)
(***************************************************************************)
Get(n) ==
    /\ CanGet(n) /\ RoomForRef
    /\ refs' = [refs EXCEPT ![n] = @ + 1]
    /\ UNCHANGED <<node, nxvnid, skiplist, remove, scan, state>>

\* rootfs_walk to a name, to "." and to "..".
rootfs_walk(base, name) ==
    /\ Holds(base) /\ IsDir(base) /\ ~node[base].removed
    /\ \E n \in Child(base, name) : Get(n)

WalkDot(base) == Holds(base) /\ IsDir(base) /\ ~node[base].removed /\ Get(base)

WalkDotDot(base) ==
    LET up == node[base].parent IN
    /\ Holds(base) /\ IsDir(base) /\ ~node[base].removed
    /\ CASE up \notin Alloc -> Stop("freed")
         [] Dying(up)       -> Stop("lock")
         [] OTHER           -> Get(up)

\* dec_vnode by the caller, outside ns->lock.
Put(n) ==
    /\ Holds(n) /\ (n = root \/ n = scan.dir => refs[n] > 1)
    /\ refs' = [refs EXCEPT ![n] = @ - 1]
    /\ UNCHANGED <<node, nxvnid, skiplist, remove, scan, state>>

rootfs_remove_vnode(n) ==
    /\ state = "up" /\ Dying(n)
    /\ node' = [node EXCEPT ![n] = MemFree]
    /\ skiplist' = DeleteSL(skiplist, n)
    /\ remove' = [remove EXCEPT ![n] = FALSE]
    /\ UNCHANGED <<nxvnid, refs, scan, state>>
-----------------------------------------------------------------------------
(***************************************************************************)
(* Making and unmaking entries.                                            *)
(***************************************************************************)
do_create(dir, name, kind) ==
    LET n == nxvnid + 1
        made == [node EXCEPT ![n] = NewNode(kind, name, dir)]
        after == [made EXCEPT ![dir].kids = Sorted(made, @, n)] IN
    /\ Holds(dir) /\ IsDir(dir) /\ ~node[dir].removed
    /\ n \in Keys /\ Child(dir, name) = {}
    /\ node' = after /\ nxvnid' = n
    /\ \E level \in 0 .. MaxLevel : skiplist' = InsertSL(skiplist, n, level)
    /\ UNCHANGED <<refs, remove, scan, state>>

rootfs_mkdir(dir, name) == do_create(dir, name, "dir")
rootfs_symlink(dir, name) == name \in LinkNames /\ do_create(dir, name, "link")

\* The nodes after n is unlisted, and freed if nobody holds it.
Without(ns, n) == [ns EXCEPT ![ns[n].parent].kids = Remove(@, n)]
Dropped(ns, n) == IF refs[n] = 0 THEN [ns EXCEPT ![n] = MemFree] ELSE ns

\* remove_vnode and put_vnode on a node that was got.
DropEntry(n) ==
    /\ remove' = [remove EXCEPT ![n] = refs[n] # 0]
    /\ skiplist' = IF refs[n] = 0 THEN DeleteSL(skiplist, n) ELSE skiplist

do_unlink(dir, name, kind) ==
    /\ Holds(dir) /\ IsDir(dir)
    /\ \E n \in Child(dir, name) :
         LET gone == [Without(node, n) EXCEPT ![n].removed = TRUE]
             after == Dropped(gone, n) IN
         /\ node[n].kind = kind /\ node[n].kids = <<>> /\ CanGet(n)
         /\ node' = after
         /\ DropEntry(n)
         /\ Rescan(after)
    /\ UNCHANGED <<nxvnid, refs, state>>

rootfs_unlink(dir, name) == do_unlink(dir, name, "link")
rootfs_rmdir(dir, name) == do_unlink(dir, name, "dir")
-----------------------------------------------------------------------------
(***************************************************************************)
(* rootfs_rename.                                                          *)
(***************************************************************************)
\* The loop that makes sure new is not a subdirectory of old: it compares
\* with olddir, so nothing moves down from a directory at all.
RECURSIVE Climb(_, _)
Climb(avn, olddir) ==
    IF avn = root THEN "clear"
    ELSE IF node[avn].kind = "free" THEN "freed"
    ELSE IF node[avn].parent = olddir THEN "below"
    ELSE Climb(node[avn].parent, olddir)

\* A mistake: the node still names the directory it came from.
MovedMut(ns, vn, newdir, newname) ==
    LET out == [Without(ns, vn) EXCEPT ![vn].name = newname]
    IN  [out EXCEPT ![newdir].kids = Sorted(out, @, vn)]

\* vn under its new name in newdir.
Moved(ns, vn, newdir, newname) ==
    LET out == [Without(ns, vn) EXCEPT ![vn].name = newname, ![vn].parent = newdir]
    IN  [out EXCEPT ![newdir].kids = Sorted(out, @, vn)]

\* realloc of a longer name has freed the old one.
NameMoves(vn, newname) == newname \in LongNames /\ node[vn].name \notin LongNames

\* A mistake: nothing makes sure that new is not below old.
RenameFreshMut(olddir, vn, newdir, newname) ==
    LET after == Moved(node, vn, newdir, newname) IN
    /\ Child(newdir, newname) = {}
    /\ node' = after /\ Rescan(after)
    /\ UNCHANGED <<nxvnid, skiplist, refs, remove, state>>

\* Nothing has the new name.  (Old and new the same changes nothing.)
RenameFresh(olddir, vn, newdir, newname) ==
    LET after == Moved(node, vn, newdir, newname) IN
    /\ Child(newdir, newname) = {}
    /\ Climb(newdir, olddir) = "clear"
    /\ node' = after /\ Rescan(after)
    /\ UNCHANGED <<nxvnid, skiplist, refs, remove, state>>

\* Something has, and is removed first; removed is not set in it.
RenameOver(olddir, vn, newdir, newname) ==
    \E n \in Child(newdir, newname) \ {vn} :
        LET after == Moved(Dropped(Without(node, n), n), vn, newdir, newname) IN
        /\ Climb(newdir, olddir) = "clear"
        /\ node[n].kids = <<>> /\ CanGet(n)
        /\ node' = after /\ Rescan(after)
        /\ DropEntry(n)
        /\ UNCHANGED <<nxvnid, refs, state>>

\* ENOTEMPTY after the name was moved: vn->name points to freed memory.
RenameLosesName(olddir, vn, newdir, newname) ==
    \E n \in Child(newdir, newname) \ {vn} :
        /\ Climb(newdir, olddir) = "clear"
        /\ node[n].kids # <<>> /\ NameMoves(vn, newname)
        /\ Stop("freed")

\* The loop comes to a directory that has been freed.
RenameClimbs(olddir, vn, newdir, newname) ==
    /\ vn \notin Child(newdir, newname)
    /\ Climb(newdir, olddir) = "freed"
    /\ Stop("freed")

rootfs_rename(olddir, oldname, newdir, newname) ==
    /\ Holds(olddir) /\ Holds(newdir) /\ IsDir(olddir) /\ IsDir(newdir)
    /\ \E vn \in Child(olddir, oldname) :
         \/ RenameFresh(olddir, vn, newdir, newname)
         \/ RenameOver(olddir, vn, newdir, newname)
         \/ RenameLosesName(olddir, vn, newdir, newname)
         \/ RenameClimbs(olddir, vn, newdir, newname)
-----------------------------------------------------------------------------
(***************************************************************************)
(* Reading a directory.                                                    *)
(***************************************************************************)
rootfs_opendir(dir) ==
    /\ Holds(dir) /\ IsDir(dir) /\ scan.dir = 0 /\ RoomForRef /\ dir \in OpenDirs
    /\ refs' = [refs EXCEPT ![dir] = @ + 1]
    /\ scan' = [NoScan EXCEPT !.dir = dir, !.there = Range(node[dir].kids)]
    /\ UNCHANGED <<node, nxvnid, skiplist, remove, state>>

rootfs_closedir ==
    /\ state = "up" /\ scan.dir # 0
    /\ refs' = [refs EXCEPT ![scan.dir] = @ - 1]
    /\ scan' = NoScan
    /\ UNCHANGED <<node, nxvnid, skiplist, remove, state>>

rootfs_rewinddir ==
    /\ state = "up" /\ scan.dir # 0 /\ (scan.pos > 0 \/ scan.over)
    /\ scan' = [NoScan EXCEPT !.dir = scan.dir, !.there = Range(node[scan.dir].kids)]
    /\ UNCHANGED <<node, nxvnid, skiplist, refs, remove, state>>

\* The entries from pos on.  Beyond the first the scan goes on by name.
ToGo == LET kids == node[scan.dir].kids IN
        IF scan.pos > 2 THEN SelectSeq(kids, LAMBDA n : node[n].name > scan.name) ELSE kids

FirstOf(s, n) == SubSeq(s, 1, Min({n, Len(s)}))

\* The scan has returned these; it has come to its end with these.
Noted(given) ==
    [scan EXCEPT !.seen = @ \cup (Range(given) \cap scan.there),
                 !.wrong = @ \/ Range(given) \cap scan.seen # {}]
Ended(given) ==
    LET noted == Noted(given) IN
    [NoScan EXCEPT !.dir = scan.dir, !.over = TRUE,
                   !.wrong = noted.wrong \/ noted.seen # scan.there]

\* A mistake: the scan goes on by position.
rootfs_readdirMut(num, room) ==
    LET dots == IF scan.pos < 2 THEN 2 - scan.pos ELSE 0
        kids == node[scan.dir].kids
        past == IF scan.pos > 2 THEN scan.pos - 2 ELSE 0
        left == SubSeq(kids, past + 1, Len(kids))
        most == Min({num, room})
        given == FirstOf(left, most - dots)
        i == Min({most, dots + Len(left)}) IN
    /\ state = "up" /\ scan.dir # 0 /\ ~scan.over
    /\ node[scan.dir].parent \in Alloc
    /\ scan' = IF i < most THEN Ended(given) ELSE [Noted(given) EXCEPT !.pos = Min({@ + i, 3})]
    /\ UNCHANGED <<node, nxvnid, skiplist, refs, remove, state>>

\* "." and "..", then the entries; the cookie keeps the last name.  (pos is
\* of interest up to 3.)  The loop ends at num entries or before the one that
\* no longer fits; a call that returns fewer than both has come to the end.
\* It looks at the parent for ".." before it knows whether that fits.
rootfs_readdir(num, room) ==
    LET dots == IF scan.pos < 2 THEN 2 - scan.pos ELSE 0
        most == Min({num, room})
        given == FirstOf(ToGo, most - dots)
        i == Min({most, dots + Len(ToGo)})
        dotdot == scan.pos < 2 /\ scan.pos + num >= 2 /\ scan.pos + room >= 1 IN
    /\ state = "up" /\ scan.dir # 0 /\ ~scan.over
    /\ IF dotdot /\ node[scan.dir].parent \notin Alloc
       THEN Stop("freed")
       ELSE /\ scan' = IF i < most THEN Ended(given)
                       ELSE [Noted(given) EXCEPT !.pos = Min({@ + i, 3}),
                               !.name = IF given = <<>> THEN @ ELSE node[Last(given)].name]
            /\ UNCHANGED <<node, nxvnid, skiplist, refs, remove, state>>
-----------------------------------------------------------------------------
(***************************************************************************)
(* rootfs_unmount, when the kernel found nobody using the file system: all *)
(* below the first entry of the root is freed, and the root.  The loop     *)
(* ends when it comes back to the root for the first time.                 *)
(***************************************************************************)
RECURSIVE Below(_)
Below(n) == UNION {{k} \cup Below(k) : k \in Range(node[n].kids)}

rootfs_unmount ==
    LET first == node[root].kids
        freed == {root} \cup (IF first = <<>> THEN {} ELSE Below(Head(first))) IN
    /\ state = "up" /\ scan.dir = 0
    /\ \A n \in Vnids : refs[n] = (IF n = root THEN 1 ELSE 0) /\ ~Dying(n)
    /\ node' = [n \in Vnids |-> IF n \in freed THEN MemFree ELSE node[n]]
    /\ skiplist' = NewSL
    /\ refs' = [n \in Vnids |-> 0]
    /\ state' = "down"
    /\ UNCHANGED <<nxvnid, remove, scan>>
-----------------------------------------------------------------------------
Next ==
    \/ \E n \in Vnids : Put(n) \/ rootfs_remove_vnode(n) \/ rootfs_opendir(n)
                        \/ WalkDot(n) \/ WalkDotDot(n)
    \/ \E d \in Vnids, name \in Names :
         \/ rootfs_walk(d, name) \/ rootfs_unlink(d, name) \/ rootfs_rmdir(d, name)
         \/ rootfs_mkdir(d, name) \/ rootfs_symlink(d, name)
         \/ \E d2 \in Vnids, name2 \in Names : rootfs_rename(d, name, d2, name2)
    \/ rootfs_closedir \/ rootfs_rewinddir \/ rootfs_unmount
    \/ \E num \in Nums, room \in Rooms : rootfs_readdir(num, room)

Spec == Init /\ [][Next]_vars
-----------------------------------------------------------------------------
Tree == {root} \cup Below(root)

\* The skip list has exactly the nodes that are allocated, the root apart.
FoundByNumber ==
    /\ {n \in Keys : SearchSL(skiplist, n) = n} = Alloc \ {root}
    /\ skiplist.count = Cardinality(Alloc \ {root})

\* What can be reached from the root is a tree: every node in it is
\* allocated and not removed, is in the list of the directory it names as
\* its parent and in no other, and every directory has its entries in strict
\* order of their names, whatever was created, renamed and removed.  The
\* number in an entry always leads to its node, and no number to memory that
\* was freed (SearchSL in rootfs_read_vnode).
TreeSound ==
    state = "up" =>
    /\ FoundByNumber
    /\ \A n \in Tree : n \in Alloc /\ ~node[n].removed /\ ~remove[n]
    /\ \A d \in Tree : \A i \in DOMAIN node[d].kids :
         /\ node[node[d].kids[i]].parent = d
         /\ \A j \in DOMAIN node[d].kids :
              i < j => node[node[d].kids[i]].name < node[node[d].kids[j]].name

\* Nothing falls out of the tree: a step that puts nothing into a directory
\* outside it leaves every node in it, except for those it removes.  A rename
\* into the tree never cuts off what it moves (the climb from newdir in
\* rootfs_rename).  Into a directory that is removed and still held it does:
\* rootfs_rename does not look at newdir->removed.
NothingLost ==
    [][state' = "up" /\ (\A d \in Vnids \ Tree : node'[d].kids = node[d].kids)
         => \A n \in Tree \ Tree' : remove'[n] \/ node'[n].kind = "free"]_vars

\* A scan of a directory returns no node twice under one name, and at its
\* end it has returned every node that was there under one name all along,
\* whatever was inserted, removed or renamed meanwhile (rootfs_readdir goes
\* on by the last name it gave).
ScanComplete == ~scan.wrong
=============================================================================
