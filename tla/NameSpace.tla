------------------------------ MODULE NameSpace ------------------------------
(***************************************************************************)
(* The system calls of kernel.c as far as they are about vnodes and name   *)
(* spaces: path walking over symbolic links and mount points, the mount    *)
(* table, and the references a call takes and gives back on each of its    *)
(* ways out.                                                               *)
(*                                                                         *)
(* A name space (struct nspace) is a mounted file system.  The one in slot *)
(* 0 is the root file system, mounted by init_vnode_layer and never        *)
(* unmounted.  Every mounted file system has a root directory "r" with a   *)
(* directory "d" in it; the root file system also has a symbolic link "l". *)
(* The trees do not change (modules RootFs and Directory are about that),  *)
(* and which vnodes are in core is left to module VnodeLayer: here a vnode *)
(* has a reference count.                                                  *)
(*                                                                         *)
(* A step is one component of a path, one look at the mount point reached, *)
(* or one critical section of the call's own code with the file system     *)
(* call before it.  What a thread holds is bvn (the vnode parse_path is    *)
(* at, or has found) and first (the vnode of the first of two paths).      *)
(* File system calls may fail.  Paths are sequences of components: "/" and *)
(* repeated slashes are gone, and a trailing slash is a component ".", as  *)
(* new_path makes it.  get_dir_fd replaces the last component by ".".      *)
(* Calls that new_path refuses change nothing.  Memory does not run out,   *)
(* but for the open file of sys_open.                                      *)
(*                                                                         *)
(* The current directory is left out: get_cur_ioctx clears it and          *)
(* sys_chdir, the only place that sets it, first drops the reference to    *)
(* the old one, a NULL pointer.  Relative paths start at an open file.     *)
(***************************************************************************)
EXTENDS Integers, Sequences, FiniteSets

CONSTANTS Threads,
          nns,           \* size of nstab
          Devices,       \* what can be mounted
          Paths,         \* the paths callers use (sequences of components)
          Targets,       \* what the symbolic link can say: <<absolute, path>>
          MAX_SYM_LINKS,
          MaxKept,       \* bound on the references open files keep or calls leak
          Users,         \* the threads that make calls with two paths
          NoVnode

ASSUME NameSpaceAssumption ==
    /\ nns \in Nat \ {0} /\ MAX_SYM_LINKS \in Nat
    /\ MaxKept \in Nat
    /\ IsFiniteSet(Threads) /\ Users \subseteq Threads
    /\ Paths \subseteq Seq(STRING) /\ Targets \subseteq BOOLEAN \X Seq(STRING)

VARIABLES
    nshead,   \* the slots of the name spaces, in the order of the list
    nspace,   \* per slot: its device, its state and the vnode it covers
    mounted,  \* per vnode: the slot of the name space mounted on it, or 0
    rcnt,     \* per vnode: its reference count
    files,    \* per vnode: how many open files refer to it
    fsrcnt,   \* fs->rcnt of the file system type that is mounted
    th,       \* what each thread is doing
    dead      \* how the process came to a stop, if it did; "dropped": a
              \* count fell short, and the model goes no further

vars == <<nshead, nspace, mounted, rcnt, files, fsrcnt, th, dead>>

Slots == 0 .. nns - 1
Nodes(s) == IF s = 0 THEN {"r", "d", "l"} ELSE {"r", "d"}
Vnodes == UNION {{<<s, n>> : n \in Nodes(s)} : s \in Slots}
RootOf(s) == <<s, "r">>
rootvn == RootOf(0)

ASSUME NoVnodeAssumption == NoVnode \notin Vnodes

\* A slot is free; taken by a mount that is not finished (ns->root is NULL);
\* mounted; or being emptied by an unmount (ns->shutdown).
States == {"free", "mounting", "mounted", "shutdown"}
FreeNs == [state |-> "free", dev |-> 0, mount |-> NoVnode]

\* parse_path is at a component ("walk"), looks for something mounted on the
\* vnode it reached ("cross"), or has found its vnode ("got").
Idle == [at |-> "idle", bvn |-> NoVnode, first |-> NoVnode, path |-> <<>>,
         eat |-> TRUE, iter |-> 0, slot |-> 0, dev |-> 0]

Init ==
    /\ nshead = <<0>>
    /\ nspace = [s \in Slots |-> IF s = 0
                    THEN [state |-> "mounted", dev |-> 0, mount |-> NoVnode]
                    ELSE FreeNs]
    /\ mounted = [v \in Vnodes |-> 0]
    /\ rcnt = [v \in Vnodes |-> IF v = rootvn THEN 1 ELSE 0]
    /\ files = [v \in Vnodes |-> 0]
    /\ fsrcnt = 1
    /\ th = [t \in Threads |-> Idle]
    /\ dead = "no"
-----------------------------------------------------------------------------
Alive == dead = "no"

At(t, place) == Alive /\ th[t].at = place

\* The path has been walked, and the call has only this vnode, or two.
GotOne(t) == At(t, "got") /\ th[t].first = NoVnode
GotTwo(t) == At(t, "got") /\ th[t].first # NoVnode

One(v, w) == IF v = w THEN 1 ELSE 0

\* The counts after inc_vnode of the one and dec_vnode of the other.
Moved(inc, dec) == [v \in Vnodes |-> rcnt[v] + One(v, inc) - One(v, dec)]
Dropped(dec) == Moved(NoVnode, dec)

Return(t) == th' = [th EXCEPT ![t] = Idle]

\* The process stops, and its threads with it.
Stop(how) == dead' = how /\ th' = [t \in Threads |-> Idle]

mountVars == <<nshead, nspace, mounted, fsrcnt>>

(***************************************************************************)
(* References that are accounted for: those of the threads, of the open    *)
(* files, of the mounted name spaces to their roots and to what they cover.*)
(* A thread that walks ns->next in sys_sync holds the root of its ns; one  *)
(* that mounts or unmounts holds the covered vnode.                        *)
(***************************************************************************)
CallsAt(v) == {t \in Threads : th[t].bvn = v}
PairsAt(v) == {t \in Threads : th[t].first = v}
MountsOn(v) == {s \in Slots : nspace[s].mount = v /\ nspace[s].state = "mounted"}
RootRef(v) == IF v = RootOf(v[1]) /\ nspace[v[1]].state = "mounted" THEN 1 ELSE 0

HoldersOf(v) == Cardinality(CallsAt(v)) + Cardinality(PairsAt(v)) + files[v]
                + Cardinality(MountsOn(v)) + RootRef(v)

Leaks == {v \in Vnodes : rcnt[v] > HoldersOf(v)}
NumFiles == Cardinality(UNION {{v} \X (1 .. files[v]) : v \in Vnodes})
Room == Cardinality(Leaks) + NumFiles < MaxKept
-----------------------------------------------------------------------------
(***************************************************************************)
(* parse_path_fd: the base of the path is the root or an open file.        *)
(***************************************************************************)
\* The thread is at vnode v with path p to go, or has arrived.
Onward(v, first, p, eat, iter) ==
    IF p = <<>>
    THEN [Idle EXCEPT !.at = "got", !.bvn = v, !.first = first]
    ELSE [Idle EXCEPT !.at = "walk", !.bvn = v, !.first = first, !.path = p,
                      !.eat = eat, !.iter = iter]

Begin(t, base, first, p, eat) ==
    /\ rcnt' = Moved(base, NoVnode)
    /\ th' = [th EXCEPT ![t] = Onward(base, first, p, eat, 0)]
    /\ UNCHANGED <<mountVars, files, dead>>

Bases == {rootvn} \cup {v \in Vnodes : files[v] > 0}

parse_path_fd(t, base, p, eat) ==
    /\ At(t, "idle") /\ base \in Bases
    /\ eat \/ (p # <<>> /\ p[Len(p)] = "l")   \* else eat makes no difference
    /\ Begin(t, base, NoVnode, p, eat)

\* sys_link and sys_rename have the vnode of their first path and walk the
\* second.
SecondPath(t, base, p) ==
    /\ t \in Users /\ GotOne(t) /\ base \in Bases
    /\ Begin(t, base, th[t].bvn, p, TRUE)

\* is_root: the vnode to go up from at the root of a name space.
is_root(v) == v = RootOf(v[1]) /\ nspace[v[1]].mount # NoVnode
UpFrom(v, c) == IF c = ".." /\ is_root(v) THEN nspace[v[1]].mount ELSE v

\* The directory entry the file system's walk finds (".." of a root is the
\* root itself).
Entry(v, c) ==
    IF v[2] = "l" THEN NoVnode
    ELSE CASE c = "."  -> v
           [] c = ".." -> RootOf(v[1])
           [] OTHER    -> IF v[2] = "r" /\ c \in Nodes(v[1]) \ {"r"} THEN <<v[1], c>>
                                                                    ELSE NoVnode

Component(t) == Head(th[t].path)
Rest(t) == Tail(th[t].path)

\* The kernel lets the file system eat a symbolic link unless it is the last
\* component of a call that wants the link itself.
Eats(t, v) == v[2] = "l" /\ (th[t].eat \/ Rest(t) # <<>>)

\* One component, and it is not a link to follow: get_vnode in the file
\* system, lookup_vnode, and dec_vnode of the directory.
WalkEntry(t) ==
    /\ At(t, "walk")
    /\ LET vn == Entry(UpFrom(th[t].bvn, Component(t)), Component(t)) IN
         /\ vn # NoVnode /\ ~Eats(t, vn)
         /\ rcnt' = Moved(vn, th[t].bvn)
         /\ th' = [th EXCEPT ![t].at = "cross", ![t].bvn = vn, ![t].path = Rest(t)]
    /\ UNCHANGED <<mountVars, files, dead>>

\* walk failed: the directory is dropped, and by sys_link and sys_rename
\* what they already had.
WalkFails(t) ==
    /\ At(t, "walk")
    /\ rcnt' = [v \in Vnodes |-> rcnt[v] - One(v, th[t].bvn) - One(v, th[t].first)]
    /\ Return(t)
    /\ UNCHANGED <<mountVars, files, dead>>

\* A mistake: the links followed are not counted over the whole path.
WalkLinkMut(t, target) ==
    /\ At(t, "walk")
    /\ LET vn == Entry(th[t].bvn, Component(t)) IN vn # NoVnode /\ Eats(t, vn)
    /\ LET next == IF target[1] THEN rootvn ELSE th[t].bvn IN
         /\ rcnt' = Moved(next, th[t].bvn)
         /\ th' = [th EXCEPT ![t] = Onward(next, th[t].first, target[2] \o Rest(t),
                                           th[t].eat, 0)]
    /\ UNCHANGED <<mountVars, files, dead>>

\* walk hands back what the link says: it takes the component's place.
WalkLink(t, target) ==
    /\ At(t, "walk") /\ th[t].iter < MAX_SYM_LINKS
    /\ LET vn == Entry(th[t].bvn, Component(t)) IN vn # NoVnode /\ Eats(t, vn)
    /\ LET next == IF target[1] THEN rootvn ELSE th[t].bvn IN
         /\ rcnt' = Moved(next, th[t].bvn)
         /\ th' = [th EXCEPT ![t] = Onward(next, th[t].first, target[2] \o Rest(t),
                                           th[t].eat, th[t].iter + 1)]
    /\ UNCHANGED <<mountVars, files, dead>>

\* A mistake: the root that is handed out is not counted.
CrossMut(t) ==
    /\ At(t, "cross")
    /\ LET vn == th[t].bvn
           next == IF mounted[vn] # 0 THEN RootOf(mounted[vn]) ELSE vn IN
         /\ rcnt' = IF next # vn THEN Dropped(vn) ELSE rcnt
         /\ th' = [th EXCEPT ![t] = Onward(next, th[t].first, th[t].path,
                                           th[t].eat, th[t].iter)]
    /\ UNCHANGED <<mountVars, files, dead>>

\* is_mount_vnode, after every component.
Cross(t) ==
    /\ At(t, "cross")
    /\ LET vn == th[t].bvn
           next == IF mounted[vn] # 0 THEN RootOf(mounted[vn]) ELSE vn IN
         /\ rcnt' = Moved(next, vn)
         /\ th' = [th EXCEPT ![t] = Onward(next, th[t].first, th[t].path,
                                           th[t].eat, th[t].iter)]
    /\ UNCHANGED <<mountVars, files, dead>>
-----------------------------------------------------------------------------
(***************************************************************************)
(* Calls that ask the file system something about the vnode found, or let  *)
(* it change something there, and drop the vnode whatever the answer.      *)
(***************************************************************************)
AskAndDrop(t) ==
    /\ GotOne(t)
    /\ rcnt' = Dropped(th[t].bvn)
    /\ Return(t)
    /\ UNCHANGED <<mountVars, files, dead>>

sys_access(t) == AskAndDrop(t)
sys_symlink(t) == AskAndDrop(t)
sys_readlink(t) == AskAndDrop(t)
sys_mkdir(t) == AskAndDrop(t)
sys_unlink(t) == AskAndDrop(t)
sys_rmdir(t) == AskAndDrop(t)
sys_rstat(t) == AskAndDrop(t)
sys_wstat(t) == AskAndDrop(t)

\* sys_chdir: dec_vnode of the current directory, which is NULL.
sys_chdir(t) ==
    /\ GotOne(t) /\ th[t].bvn[2] # "l"
    /\ Stop("null")
    /\ UNCHANGED <<mountVars, rcnt, files>>

\* The open file keeps the reference.  When the descriptor table is full
\* (module FdTable), new_fd's positive EMFILE passes for a descriptor: the
\* ofile is lost, and its reference with it.
NewFile(t, v) ==
    /\ t \in Users /\ Room
    /\ files' = [files EXCEPT ![v] = @ + 1] \/ UNCHANGED files
    /\ Return(t)
    /\ UNCHANGED <<mountVars, dead>>

sys_opendir(t) == GotOne(t) /\ NewFile(t, th[t].bvn) /\ UNCHANGED rcnt

\* sys_open without O_CREAT.  It, sys_opendir and sys_chdir drop the vnode if
\* the file system does not let them go on.
sys_open(t) == GotOne(t) /\ NewFile(t, th[t].bvn) /\ UNCHANGED rcnt

CallFails(t) == AskAndDrop(t)

\* sys_open with O_CREAT: create returns a reference to the file, the
\* directory's is dropped.
sys_open_creat(t) ==
    /\ GotOne(t)
    /\ LET dvn == th[t].bvn
           vn == Entry(dvn, "d") IN
         /\ vn # NoVnode
         /\ NewFile(t, vn)
         /\ rcnt' = Moved(vn, dvn)

\* The same when there is no memory for the open file (error3): the file is
\* unlinked and dropped (errorC), and the directory, which was dropped after
\* create, is dropped again (errorB).
CreatUndone(t) ==
    /\ GotOne(t) /\ Entry(th[t].bvn, "d") # NoVnode
    /\ rcnt' = [rcnt EXCEPT ![th[t].bvn] = @ - 2]
    /\ dead' = "dropped"
    /\ Return(t)
    /\ UNCHANGED <<mountVars, files>>

\* sys_close and sys_closedir of the last use: invoke_free drops the vnode.
sys_close(t, v) ==
    /\ At(t, "idle") /\ files[v] > 0
    /\ files' = [files EXCEPT ![v] = @ - 1]
    /\ rcnt' = Dropped(v)
    /\ UNCHANGED <<mountVars, th, dead>>

DropBoth(t) ==
    /\ rcnt' = [v \in Vnodes |-> rcnt[v] - One(v, th[t].bvn) - One(v, th[t].first)]
    /\ Return(t)
    /\ UNCHANGED <<mountVars, files, dead>>

sys_link(t) == GotTwo(t) /\ DropBoth(t)

sys_rename(t) ==
    /\ GotTwo(t) /\ th[t].bvn[1] = th[t].first[1]
    /\ DropBoth(t)

\* Between two name spaces (EXDEV) only the old directory is dropped.
RenameAcross(t) ==
    /\ GotTwo(t) /\ th[t].bvn[1] # th[t].first[1]
    /\ Room
    /\ rcnt' = Dropped(th[t].first)
    /\ Return(t)
    /\ UNCHANGED <<mountVars, files, dead>>
-----------------------------------------------------------------------------
(***************************************************************************)
(* sys_mount.                                                              *)
(***************************************************************************)
\* The vnode is not a directory, there is no such file system, the device is
\* mounted already, or there is no slot: error2 to error4.
MountRefused(t) == AskAndDrop(t)

\* inc_file_system, and under vnlock: the device is not on the list, and a
\* slot is free.  The name space is on the list from now on.
FreeSlots == {s \in Slots : nspace[s].state = "free"}

MountBegin(t, dev, s) ==
    /\ GotOne(t) /\ th[t].bvn[2] # "l"
    /\ \A i \in DOMAIN nshead : nspace[nshead[i]].dev # dev
    /\ s \in FreeSlots /\ \A f \in FreeSlots : s <= f
    /\ fsrcnt' = fsrcnt + 1
    /\ nshead' = <<s>> \o nshead
    /\ nspace' = [nspace EXCEPT ![s] = [FreeNs EXCEPT !.state = "mounting", !.dev = dev]]
    /\ th' = [th EXCEPT ![t].at = "mounting", ![t].slot = s]
    /\ UNCHANGED <<mounted, rcnt, files, dead>>

\* What comes behind the name space moves up to its place.
Unlisted(s) ==
    LET at == CHOOSE i \in DOMAIN nshead : nshead[i] = s IN
    [i \in 1 .. Len(nshead) - 1 |-> IF i < at THEN nshead[i] ELSE nshead[i + 1]]

\* The file system cannot be mounted (error5).
MountFails(t) ==
    /\ At(t, "mounting")
    /\ nshead' = Unlisted(th[t].slot)
    /\ nspace' = [nspace EXCEPT ![th[t].slot] = FreeNs]
    /\ fsrcnt' = fsrcnt - 1
    /\ rcnt' = Dropped(th[t].bvn)
    /\ Return(t)
    /\ UNCHANGED <<mounted, files, dead>>

\* new_vnode has counted the root's first reference; the reference to the
\* covered vnode stays with the name space.
MountDone(t) ==
    LET s == th[t].slot
        mount == th[t].bvn IN
    /\ At(t, "mounting")
    /\ mount # rootvn /\ mounted[mount] = 0
    /\ nspace' = [nspace EXCEPT ![s].state = "mounted", ![s].mount = mount]
    /\ mounted' = [mounted EXCEPT ![mount] = s]
    /\ rcnt' = [rcnt EXCEPT ![RootOf(s)] = 1]
    /\ Return(t)
    /\ UNCHANGED <<nshead, files, fsrcnt, dead>>

\* EBUSY (error6): dec_vnode takes vnlock, which this thread holds.
MountBusy(t) ==
    /\ At(t, "mounting")
    /\ th[t].bvn = rootvn \/ mounted[th[t].bvn] # 0
    /\ Stop("lock")
    /\ UNCHANGED <<mountVars, rcnt, files>>
-----------------------------------------------------------------------------
(***************************************************************************)
(* sys_unmount.                                                            *)
(***************************************************************************)
\* Not the root of a name space, or the root of all (error2): the vnode that
\* get_file_fd counted is not dropped.
UnmountRefused(t) ==
    /\ GotOne(t)
    /\ th[t].bvn # RootOf(th[t].bvn[1]) \/ th[t].bvn = rootvn
    /\ Room
    /\ Return(t)
    /\ UNCHANGED <<mountVars, rcnt, files, dead>>

InUse(s) == \/ rcnt[RootOf(s)] # 2
            \/ \E n \in Nodes(s) \ {"r"} : rcnt[<<s, n>>] # 0

\* Somebody uses the name space (error3): EBUSY.
UnmountBusy(t) ==
    LET s == th[t].bvn[1] IN
    /\ GotOne(t) /\ th[t].bvn = RootOf(s) /\ s # 0
    /\ InUse(s)
    /\ rcnt' = Dropped(th[t].bvn)
    /\ Return(t)
    /\ UNCHANGED <<mountVars, files, dead>>

\* A mistake: the covered vnode still says that something is mounted on it.
UncoverMut(t, s) ==
    /\ rcnt' = [rcnt EXCEPT ![RootOf(s)] = @ - 2]
    /\ nspace' = [nspace EXCEPT ![s].state = "shutdown"]
    /\ th' = [th EXCEPT ![t].at = "unmounting", ![t].bvn = nspace[s].mount,
                        ![t].slot = s]
    /\ UNCHANGED <<nshead, mounted, files, fsrcnt, dead>>

\* Nobody does: the name space cannot be reached any more.  The reference to
\* the covered vnode is now this thread's.
Uncover(t, s) ==
    /\ rcnt' = [rcnt EXCEPT ![RootOf(s)] = @ - 2]
    /\ mounted' = [mounted EXCEPT ![nspace[s].mount] = 0]
    /\ nspace' = [nspace EXCEPT ![s].state = "shutdown"]
    /\ th' = [th EXCEPT ![t].at = "unmounting", ![t].bvn = nspace[s].mount,
                        ![t].slot = s]
    /\ UNCHANGED <<nshead, files, fsrcnt, dead>>

\* A mistake: the counts of the directories below the root are not looked at.
UnmountBeginMut(t) ==
    LET s == th[t].bvn[1] IN
    /\ GotOne(t) /\ th[t].bvn = RootOf(s) /\ s # 0
    /\ rcnt[RootOf(s)] = 2
    /\ Uncover(t, s)

UnmountBegin(t) ==
    LET s == th[t].bvn[1] IN
    /\ GotOne(t) /\ th[t].bvn = RootOf(s) /\ s # 0
    /\ ~InUse(s)
    /\ Uncover(t, s)

\* Every vnode released and cleared: off the list, and the slot is free.  A
\* sys_sync that is at this name space has a stale pointer from now on.
UnmountUnlist(t) ==
    LET s == th[t].slot IN
    /\ At(t, "unmounting")
    /\ nshead' = Unlisted(s)
    /\ th' = [u \in Threads |->
                CASE u = t -> [th[t] EXCEPT !.at = "closing", !.dev = nspace[s].dev]
                  [] th[u].at = "sync" /\ th[u].slot = s
                           -> [th[u] EXCEPT !.at = "stale", !.bvn = NoVnode]
                  [] OTHER -> th[u]]
    /\ nspace' = [nspace EXCEPT ![s] = FreeNs]
    /\ rcnt' = [v \in Vnodes |-> IF v[1] = s THEN 0 ELSE rcnt[v]]
    /\ UNCHANGED <<mounted, files, fsrcnt, dead>>

\* The file system writes what it has left and closes the device.
UnmountDone(t) ==
    /\ At(t, "closing")
    /\ fsrcnt' = fsrcnt - 1
    /\ rcnt' = Dropped(th[t].bvn)
    /\ Return(t)
    /\ UNCHANGED <<nshead, nspace, mounted, files, dead>>
-----------------------------------------------------------------------------
(***************************************************************************)
(* sys_sync goes along the list and holds the root of the name space it is *)
(* at.  A name space whose mount is not finished has no root yet.          *)
(***************************************************************************)
SyncAt(t, s) ==
    IF nspace[s].state = "mounting"
    THEN /\ Stop("null")
         /\ UNCHANGED <<mountVars, rcnt, files>>
    ELSE /\ rcnt' = Moved(RootOf(s), th[t].bvn)
         /\ th' = [th EXCEPT ![t] = [Idle EXCEPT !.at = "sync", !.bvn = RootOf(s),
                                                 !.slot = s]]
         /\ UNCHANGED <<mountVars, files, dead>>

sys_sync(t) == t \in Users /\ At(t, "idle") /\ SyncAt(t, Head(nshead))

SyncNext(t) ==
    /\ At(t, "sync")
    /\ \E i \in 1 .. Len(nshead) - 1 : /\ nshead[i] = th[t].slot
                                       /\ SyncAt(t, nshead[i + 1])

SyncDone(t) ==
    /\ At(t, "sync") /\ nshead[Len(nshead)] = th[t].slot
    /\ rcnt' = Dropped(th[t].bvn)
    /\ Return(t)
    /\ UNCHANGED <<mountVars, files, dead>>

\* The name space sys_sync is at was unmounted meanwhile: it drops the count
\* of whatever the vnode is now and follows ns->next of freed memory.
SyncStale(t) ==
    /\ At(t, "stale")
    /\ Stop("freed")
    /\ UNCHANGED <<mountVars, rcnt, files>>
-----------------------------------------------------------------------------
Start(t) ==
    \/ \E base \in Vnodes, p \in Paths, eat \in BOOLEAN : parse_path_fd(t, base, p, eat)
    \/ \E v \in Vnodes : sys_close(t, v)
    \/ sys_sync(t)

Continue(t) ==
    \/ WalkEntry(t) \/ WalkFails(t) \/ Cross(t)
    \/ \E target \in Targets : WalkLink(t, target)
    \/ \E base \in Vnodes, p \in Paths : SecondPath(t, base, p)
    \/ sys_access(t) \/ sys_symlink(t) \/ sys_readlink(t) \/ sys_mkdir(t)
    \/ sys_unlink(t) \/ sys_rmdir(t) \/ sys_rstat(t) \/ sys_wstat(t)
    \/ sys_chdir(t)
    \/ sys_opendir(t) \/ sys_open(t) \/ CallFails(t)
    \/ sys_open_creat(t) \/ CreatUndone(t)
    \/ sys_link(t) \/ sys_rename(t) \/ RenameAcross(t)
    \/ MountRefused(t) \/ MountFails(t) \/ MountDone(t) \/ MountBusy(t)
    \/ \E dev \in Devices, s \in Slots : MountBegin(t, dev, s)
    \/ UnmountRefused(t) \/ UnmountBusy(t) \/ UnmountBegin(t)
    \/ UnmountUnlist(t) \/ UnmountDone(t)
    \/ SyncNext(t) \/ SyncDone(t) \/ SyncStale(t)

Next == \E t \in Threads : Start(t) \/ Continue(t)

Spec == Init /\ [][Next]_vars
-----------------------------------------------------------------------------
(***************************************************************************)
(* What the calls owe each other.                                          *)
(***************************************************************************)
Places == {"idle", "walk", "cross", "got", "mounting", "unmounting", "closing",
           "sync", "stale"}
Calls == [at : Places, bvn : Vnodes \cup {NoVnode}, first : Vnodes \cup {NoVnode},
          path : Seq(STRING), eat : BOOLEAN, iter : 0 .. MAX_SYM_LINKS,
          slot : Slots, dev : Devices \cup {0}]

\* Up to the double drop of sys_open.
TypeOK ==
    /\ nshead \in Seq(Slots) /\ th \in [Threads -> Calls]
    /\ nspace \in [Slots -> [state : States, dev : Devices \cup {0},
                             mount : Vnodes \cup {NoVnode}]]
    /\ mounted \in [Vnodes -> Slots]
    /\ rcnt \in [Vnodes -> Nat] /\ files \in [Vnodes -> Nat]
    /\ fsrcnt \in Nat /\ dead \in {"no", "null", "lock", "freed"}

\* No vnode has fewer references than there are calls, open files, name
\* spaces and mount points that count on it.  sys_unmount counts on it when
\* it decrements the root "twice ...: one for the mount, one for the
\* get_file" (kernel.c:1670).
EveryRefCounted == \A v \in Vnodes : rcnt[v] >= HoldersOf(v)

\* Every way out of parse_path and of the system calls but one drops only
\* what it took (kernel.c, the error labels): no reference is missing until
\* sys_open fails to get an open file for a file it has created, and drops
\* the directory a second time (kernel.c:1042).
NoRefMissing == dead # "dropped" => EveryRefCounted

Held == ({v \in Vnodes : files[v] > 0} \cup {nspace[s].mount : s \in Slots}
         \cup {th[t].bvn : t \in {u \in Threads : th[u].at # "sync"}}
         \cup {th[t].first : t \in Threads}) \ {NoVnode}

\* What a call, an open file or a mount point holds stays in a mounted name
\* space: sys_unmount's look at the counts under vnlock misses no walker that
\* crosses the mount point, goes up by "..", or mounts further down.
HeldIsMounted == \A v \in Held : nspace[v[1]].state = "mounted"

Live == {s \in Slots \ {0} : nspace[s].state = "mounted"}
Closing == {t \in Threads : th[t].at = "closing"}
Parent(s) == nspace[s].mount[1]

\* The mount points and the mount table agree: a vnode says what is mounted
\* on it exactly if that name space says it covers the vnode, the name spaces
\* form a tree that hangs from the root file system, the list has each slot
\* in use once, and the file system type counts them all.
PointsAgree == \A v \in Vnodes : \A s \in Slots \ {0} :
    mounted[v] = s <=> s \in Live /\ nspace[s].mount = v
HangsTogether == \A S \in SUBSET Live : S # {} => \E s \in S : Parent(s) \notin S
Listed == /\ Len(nshead) = Cardinality(Slots \ FreeSlots)
          /\ {nshead[i] : i \in DOMAIN nshead} = Slots \ FreeSlots
TypeCounted == Alive =>
    fsrcnt = Cardinality(Slots \ FreeSlots) + Cardinality(Closing)

MountTreeSound == PointsAgree /\ HangsTogether /\ Listed /\ TypeCounted

\* A device is "already mounted" (kernel.c:1554) as long as a file system
\* uses it: no second one is mounted from it before the first has written
\* what it has left and closed the device.
DeviceOnce == \A dev \in Devices :
    Cardinality({s \in Slots \ FreeSlots : nspace[s].dev = dev})
      + Cardinality({t \in Closing : th[t].dev = dev}) <= 1

\* How far a call is from its end, most significant first: paths to begin,
\* links it may still follow, components, and the place it is at.
Place(c) == CASE c.at = "walk" -> 4 [] c.at = "cross" -> 5 [] c.at = "got" -> 3
              [] c.at \in {"mounting", "unmounting"} -> 2 [] OTHER -> 1

Behind(slot, list) ==
    IF \E i \in DOMAIN list : list[i] = slot
    THEN Len(list) - (CHOOSE i \in DOMAIN list : list[i] = slot) ELSE 0

Distance(c, list) ==
    <<IF c.first = NoVnode THEN 1 ELSE 0,
      IF c.at \in {"walk", "cross"} THEN 1 + MAX_SYM_LINKS - c.iter ELSE 0,
      Len(c.path),
      IF c.at = "sync" THEN Behind(c.slot, list) + 2 ELSE Place(c)>>

Nearer(a, b) == \E i \in 1 .. 4 : a[i] < b[i] /\ \A j \in 1 .. i - 1 : a[j] = b[j]

\* Every step brings a call nearer its end, whatever the links say and
\* whatever is mounted or unmounted meanwhile (MAX_SYM_LINKS in parse_path,
\* the list of name spaces in sys_sync): no call goes on for ever.
CallsAdvance ==
    [][\A t \in Threads :
          th[t].at # "idle" /\ th'[t] # th[t] /\ th'[t].at # "idle"
            => Nearer(Distance(th'[t], nshead'), Distance(th[t], nshead))]_vars

(***************************************************************************)
(* The inductive invariant.  A slot that is emptied belongs to one call,   *)
(* which has the reference to the vnode it covered; a slot that is filled  *)
(* belongs to one call; a sys_sync is at the root of a name space that has *)
(* one.  It holds up to the double drop of sys_open.                       *)
(***************************************************************************)
CallFits(c) ==
    /\ c.at \in {"idle", "stale"} <=> c.bvn = NoVnode
    /\ c.first # NoVnode => c.at \in {"walk", "cross", "got"}
    /\ c.path # <<>> => c.at \in {"walk", "cross"}
    /\ c.at = "walk" => c.path # <<>>
    /\ c.at = "mounting" => nspace[c.slot].state = "mounting"
    /\ c.at = "unmounting" => /\ nspace[c.slot].state = "shutdown"
                              /\ nspace[c.slot].mount = c.bvn
    /\ c.at = "sync" => /\ c.bvn = RootOf(c.slot)
                        /\ nspace[c.slot].state \in {"mounted", "shutdown"}

CallsTold ==
    /\ \A t \in Threads : CallFits(th[t])
    /\ \A t, u \in Threads :
          /\ th[t].at \in {"mounting", "unmounting"} /\ th[u].at = th[t].at
          /\ th[u].slot = th[t].slot
          => t = u

SlotsTold ==
    /\ nspace[0].state = "mounted" /\ nspace[0].mount = NoVnode
    /\ \A s \in Slots \ {0} :
          nspace[s].mount # NoVnode <=> nspace[s].state \in {"mounted", "shutdown"}
    /\ Alive => \A s \in Slots : nspace[s].state = "shutdown" =>
          \E t \in Threads : th[t].at = "unmounting" /\ th[t].slot = s

ListTold ==
    /\ \A i \in DOMAIN nshead : nspace[nshead[i]].state # "free"
    /\ \A s \in Slots : nspace[s].state # "free" => \E i \in DOMAIN nshead : nshead[i] = s
    /\ \A i, j \in DOMAIN nshead : nshead[i] = nshead[j] => i = j

IInv == /\ TypeOK /\ CallsTold /\ SlotsTold /\ ListTold
        /\ EveryRefCounted /\ HeldIsMounted /\ MountTreeSound
=============================================================================
