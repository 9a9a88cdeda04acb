# A verification project for fs-kit

fs-kit is a kit for writing file systems: a vnode layer and a block cache taken
from BeOS, a small file system (myfs) on top of them, a root file system that
mount points live in, and a shell that drives it all inside one Unix process.
This directory holds TLA+ models of its parts, the TLC configurations that check
them on small instances, and proofs, checked by TLAPS, of what holds for every
instance. All line numbers are those of the repository's source files.

## 1. The system's parts

| part | source | state | operations |
|---|---|---|---|
| benaphore locks | `lock.h`, `sysdep.c` | a counter and a semaphore | LOCK, UNLOCK |
| vnode layer | `kernel.c` | vnode array, FREE/USED/LOCKED lists, skip list by id, `vnlock` | get/put/new/remove/unremove_vnode, inc/dec_vnode, load/flush/steal |
| open files | `kernel.c` | descriptor tables, `ofile` with `rcnt`, `ocnt` | open, close, use, duplicate |
| system calls, paths | `kernel.c` | what a call holds | parse_path and the sys_* calls |
| mount table | `kernel.c` | list of name spaces, covered vnodes | sys_mount, sys_unmount |
| block cache | `cache.c` | hash table, entries on two lists, DIRTY/BUSY flags, lock counts, journal clones, `bc.lock` | get_block, cached_read/write, release_block, mark_blocks_dirty, set_blocks_info, flushes, removal of a device |
| bit vectors | `bitvector.c` | bits, `next_free`, `is_full` | search and set, clear |
| block map, inode map | `bitmap.c`, `inode.c` | two bit vectors, `used_blocks` | allocate, free, load at mount |
| data streams | `dstream.c` | direct and indirect addresses and size in the inode | grow, shrink, read, write |
| files, directories | `file.c`, `dir.c` | packed directory entries | create, unlink, mkdir, rmdir, ... |
| super block, volumes | `mount.c`, `io.c`, `makefs.c` | super block, clean/dirty flag | create, mount, unmount |
| temporary blocks | `util.c` | a list of block buffers | get_tmp_blocks, free_tmp_blocks |
| root file system | `rootfs.c` | a tree of names in memory | its vnode operations |
| skip list | `sl.c` | sorted linked levels | insert, delete, search |
| journal | `journal.c` | none: empty stubs | |
| shell, tools, tests | `fsh.c`, `tstfs.c`, ... | none of interest | |

The vnode layer calls the file system (read_vnode, release_vnode, remove_vnode,
walk, ...) and is called back by it (get_vnode, put_vnode, new_vnode,
remove_vnode); it drops `vnlock` around those calls. A file system does all its
disk I/O through the block cache, which drops `bc.lock` around disk transfers.
Both use a flag (`busy`, `CE_BUSY`) to reserve what they work on meanwhile, and
wait for somebody else's flag by sleeping and looking again.

What is hard about this code: everything that happens while a lock is dropped
(loading, evicting and destroying vnodes; reading, evicting and flushing cache
entries); counts that are changed outside the lock (`ofile`); limits (no vnode,
no cache entry, no descriptor, no block left) met in the middle of an operation;
the same address or id used again too early; errors that leave half of an
operation done. Section 8 of this file and `hazards` in `PROJECT.json` list
where each of these bites.

The repository runs all of it in one thread; `stub.c`'s semaphores do not block.
`README` of the repository says of myfs that there is "no real locking", of the
vnode layer that it "does implement correct locking", and of the cache that it
is the real BeOS cache. So the lock, the vnode layer, the descriptors and the
cache are modelled with several threads and semaphores that do block, and myfs
with whole calls as steps.

## 2. The modules

| module | models | used with |
|---|---|---|
| `Mutex` | what a lock promises | the abstract specification `Benaphore` refines |
| `Benaphore` | LOCK and UNLOCK of `lock.h` | `Benaphore.cfg` |
| `BenaphoreProofs` | theorems about `Benaphore` | |
| `VnodeLayer` | the vnode table of `kernel.c` | `VnodeTable.cfg`, `VnodeReuse.cfg` |
| `VnodeLayerProofs` | theorems about `VnodeLayer` | |
| `FdTable` | descriptors and open files of `kernel.c` | `FdTable.cfg` |
| `FdTableProofs` | theorems about `FdTable` | |
| `BlockCache` | `cache.c` | `MCBlockCache`, `Cache*.cfg` |
| `BlockCacheProofs` | theorems about `BlockCache` | |
| `BitVector` | `bitvector.c`, as functions on vectors | extended by `DataStream` |
| `DataStream` | `dstream.c` over the maps of `bitmap.c` and `inode.c` | `MCDataStream`, `Storage*.cfg` |
| `DataStreamProofs` | theorems about `DataStream` and `BitVector` | |
| `Directory` | `dir.c`, with create and unlink of `file.c` | `MCDirectory`, `Directory*.cfg` |
| `DirectoryProofs` | theorems about `Directory` | |
| `NameSpace` | path walking, the mount table and the system calls of `kernel.c` | `MCNameSpace`, `NameSpaces*.cfg` |
| `NameSpaceProofs` | theorems about `NameSpace` | |
| `SkipList` | `sl.c`, as functions on lists | extended by `RootFs`; `MCRootFs` |
| `RootFs` | `rootfs.c` | `MCRootFs`, `RootFs.cfg` |
| `Volume` | `mount.c`, with the maps on disk of `bitmap.c` and `inode.c` | `Volume*.cfg` |
| `VolumeProofs` | theorems about `Volume` | |

Definitions whose name contains `Mut` are mistakes a maintainer could make; each
stands before the definition it would replace, and with it in place TLC finds
the property it is paired with violated.

### Benaphore

`c` is the counter, `s` the semaphore's count; a thread is out, waiting in
`acquire_sem`, inside, or between UNLOCK's `atomic_add` and its `release_sem`.
One action per atomic operation. The semaphores are the host's; `stub.c`'s do
not block and are not modelled.

### VnodeLayer

State: the fields of each vnode (`vnid`, `inlist`, `rcnt`, `busy`, `remove`),
the skip list as a map from ids to vnodes, `vnlock`, what each thread is doing,
the references each thread holds (`ref`), and the file system's side: which ids
are in use, which have a name, how many in-core copies of each file exist.
A step is one critical section of `vnlock`, or one call into the file system.
A thread that returns from the file system and goes on under `vnlock` takes both
in one step, except in `dec_vnode`'s removal, where the moment the file system
frees the id matters. `vnlock` is held across steps only where `load_vnode` goes
round its loop. Name spaces are left out (one file system), and so is the order
of the USED list: any unreferenced vnode may be the victim.

Two file systems create files in two ways. rootfs numbers its files with a
counter and names them at once, and a vnode is loaded when somebody walks there
(`DoCreate`); myfs allocates an inode and calls `new_vnode` (`Create`).
`EarlyReuse` says whether that inode may be one whose vnode is still in the skip
list. It may: `myfs_remove_vnode` frees the inode before `dec_vnode` has taken
the vnode off. `VnodeReuse.cfg` shows what comes of it with two threads. With
`EarlyReuse` false, as in `vnode_table` and the theorems, a thread that creates
and one that removes are not inside myfs at the same time, which is all that
myfs, without "real locking", is meant for.

### FdTable

The descriptor table with its bitmap, the two counts of each `ofile`, and what
each thread is doing. `rcnt` and `ocnt` change in steps of their own, outside
`fds->lock`. A failing `sys_readdir` loses a reference, as the code does;
`MaxLeaks` bounds how often. An open that finds the table full loses its `ofile`
and the vnode: `new_fd` returns a positive EMFILE, which the test `nfd < 0`
takes for a descriptor (`new_fd_full`, life "lost"). Duplication of descriptors
(`new_fd` without a file) is modelled although no system call of this version
asks for it: it is the only reason for `ocnt`.

### BlockCache

State: the hash table, the entries (block number, list, DIRTY, BUSY, lock count,
clone, contents), `bc.lock`, the call of each thread, what each thread has
locked, and the disk. Contents are version numbers, with a mark for contents
in the middle of a change. A step is one critical section of `bc.lock` or one
disk transfer. `ReadAhead` bounds how many blocks a miss reads, `MaxVersion` the
versions of a block, `MaxHeld` the blocks a thread may hold. A device is removed
from the cache with its blocks written (`remove_cached_device_blocks`) or, by a
mount that is refused, thrown away (`DiscardDeviceBlocks`). Left out: transfers
of 64K and more, which bypass the cache; several blocks in one
`set_blocks_info`; failing writes. The background flusher is not started on Unix.

### BitVector and DataStream

`GetFreeRangeOfBits` is a function from vectors to vectors, with the search as a
recursive function over the bits passed: chunks, wrap-around, hint and `is_full`
included, and including the way the search leaves a chunk when a run meets the
end of the vector. `DataStream` keeps the two maps, `used_blocks`, the inodes in
core and on disk, and the addresses in indirect blocks. Its actions are whole
calls: create, write up to a position, set the size, remove, and release and
read an inode again. Contents of files are left out: what matters is which
blocks a file leads to. `miscut` is history: it says that a file was cut to a
size that `shrink_dstream` gets wrong (`Miscut`), one byte past a block boundary
or inside the indirect range. What the code says of itself without condition
breaks then (`OneUsePerBlock` in `storage_freed_twice`, `RoundedUp` in
`StorageRounding.cfg`); the other properties hold up to there. `EveryByteMapped`
also says what the first wrong cut costs: nothing but the block of the last byte,
and that only where the cut was to one past a boundary.

### Directory

State: the inodes in use, the entries of each directory, which directories have
their contents in core, the references that outlast a call, the directories
removed while open, and the cookies of scans. A call is one step; what
interleaves is the calls of a scan with calls that change the directory. The
counters that tell a cookie to re-sync are only compared, so the model keeps
whether they differ. `scan` is not state of the program: it records what a scan
has met, for the properties. Sizes of entries are modelled, because `rmdir`
takes a directory for empty by its size, and with them the names of at most six
characters (`ShortNames`) that it overlooks; `orphans` is history, what such
names led to when their directory was removed. Calls reach directories by paths,
so never one that was removed; files are not kept open (the vnode table is about
that), and there is space for every entry.

### NameSpace

State: the list `nshead` and the slots of `nstab` (device, state, covered
vnode), per vnode what is mounted on it, its count and the open files that refer
to it, the count of the file system type, and what each thread is doing. A step
is one component of a path, one look for a mount point, or one critical section
of a call with the file system call before it. `parse_path`'s variables are
those of the code: `bvn`, the path to go, `iter`. What a symbolic link says is
chosen at each step, so a link may change while it is followed. The trees below
the mount points do not change; `MaxKept` bounds open files and lost references
together, `Users` the threads that open files, rename and sync, `MAX_SYM_LINKS`
is 1 instead of 16.

The calls' own ways out are followed with the references they drop, and with
those they forget or drop twice: `sys_open` that undoes a create drops the
directory again (`CreatUndone`; the model ends there), `sys_rename` between two
file systems keeps the new directory, a refused `sys_unmount` keeps the root, a
full descriptor table keeps the file. Where the process comes to a stop the
model does (`dead`): `sys_chdir` drops the current directory, which is NULL; a
mount on "/" or on a covered vnode that two threads reach at once waits for
`vnlock` with `vnlock` held (`MountBusy`); `sys_sync` meets a name space that
has no root yet, or follows one that was unmounted under it.

### SkipList and RootFs

A skip list is a record of its level, its count and the forward pointers of
every node; `InsertSL`, `DeleteSL` and `SearchSL` go through the levels as the
code does. `RandomLevelSL` may draw any level at every insert. rootfs, one of the list's
users, inserts ascending numbers; `MCRootFs` has beside it the list of the other
user, the vnode layer, which nodes enter and leave in any order. `RootFs` keeps
the nodes (`kind`, `name`, `parent`, `removed` and the children in the
order of the list), the skip list by number, the references callers hold, the
vnode layer's `remove` flag and one open scan. `ns->lock` is held by a whole
operation, so an operation is a step; the only thing that comes between is the
vnode layer, which calls `rootfs_remove_vnode` when the last reference to a
removed node goes. `rootfs_readdir` is asked for a number of entries and for as
many as the buffer has room for. Reading a node that was freed stops the model.

### Volume

State: the super block and the blocks of the block map on the device, the dirty
blocks in the cache, the mounted volume's `used_blocks` and map, and what is
going on. Creation is one step per run of blocks it takes, because each is
written back by itself. The cache may write any dirty block at any time, and a
crash loses it: every order of writes and every cut is there. A call that
changes a file writes the super block at its end (`FileDone`). The number of
blocks is whatever the device has: the last of them may have no bit in the map
(`HasBit`), and taking one writes past the map (`OverrunMap`, where the model
ends); those in a last partial word are not counted by a mount (`Unseen`). The
inode map may be several blocks. `kept`, `safe` and `missed` are history: what
the last unmount let go, and what the last mount did not count. `FileBlocks`
bounds the blocks that files take; which of them a search finds depends on its
hint, so any may be.

## 3. The runs

| run | instance | shows |
|---|---|---|
| `lock` | 5 threads | exclusion, no barging, no lost wake-up, refinement of `Mutex` |
| `vnode_table` | 2 threads, 2 vnodes, 3 ids, 2 references each | unique vnodes, exact counts, one copy in core, also when vnodes run out; `busy` ends |
| `cache_coherence` | 2 threads, 2 entries, 3 blocks, read-ahead 2 | nobody sees stale contents, pointers stay good |
| `cache_log` | 2 threads, 1 entry, 2 blocks, 2 versions | the journal's clones; BUSY ends |
| `cache_race` | 2 threads, 2 entries, 3 blocks | **violated**: two threads read the same block in |
| `fd_table` | 3 threads, 2 files, 2 descriptors | counts exact, no use after free, one close, everything freed but what two known paths lose |
| `directories` | 3 inodes beside the root, 3 names, one of them short, 1 scan | the tree stays a tree but for what `rmdir` overlooks, readdir passes nothing over |
| `storage` | 2 files, 5 blocks, 2 direct and 2 indirect addresses | no shared block, no lost count, every byte mapped, up to a cut that `shrink_dstream` gets wrong |
| `storage_freed_twice` | shrinking inside the indirect range | **violated**: two files share a block |
| `name_spaces` | 2 threads, 3 slots, 2 devices, 3 paths, 1 link to follow | no reference missing, nobody left in an unmounted name space, mount points and mount table agree, every call comes to its end |
| `rootfs` | 3 nodes beside the root, 2 names, 2 references, 1 scan of 1 or 3 entries at a time with room for 2 or 3; the vnode layer's list with 5 keys on 3 levels | the tree stays a tree and loses nothing, numbers lead to nodes, scans are complete, a search finds exactly what is in the list |
| `volume` | 25 blocks, 6 of them the map, 4 bits to a block, words of 20, 3 file blocks | the next mount finds what the last unmount let go, the count is exact but for what the mount did not see, crashes lose nothing that was safe |

Beside the runs there are configurations in which TLC finds a property violated
that the code's own words, or a caller's expectation, would have. They belong to
the findings of section 6:

| configuration | module | violated | because |
|---|---|---|---|
| `VnodeReuse.cfg` | `VnodeLayer` | `OneCopyInCore` | an id is used again before its vnode is off the skip list |
| `DirectoryRmdir.cfg` | `MCDirectory` | `RmdirOnlyEmpty` | `rmdir` removes a directory that is not empty |
| `StorageRounding.cfg` | `DataStream` | `RoundedUp` | a cut to one past a block boundary leaves a byte without a block |
| `StorageTail.cfg` | `DataStream` | `SearchFinds` | on 5 blocks in chunks of 2 the search misses a free block |
| `NameSpacesCreat.cfg` | `MCNameSpace` | `EveryRefCounted` | a reference is dropped twice |
| `NameSpacesDevice.cfg` | `MCNameSpace` | `DeviceOnce` | a device is mounted while its last file system still writes |
| `VolumeTail.cfg` | `Volume` | `UsedIsReal` | on 14 blocks in words of 4 the count at a mount is wrong |
| `VolumeMapShort.cfg` | `Volume` | `MapLargeEnough` | on 17 blocks with 4 bits to a block one without a bit is taken |

Deadlock is checked in `lock`, `fd_table` and `directories`. It is
off where the system may really stop: threads that hold every vnode or cache
entry end in a panic (an endless loop, or a NULL pointer with the lock held),
`myfs_create` without a free inode goes on with an unset pointer, name spaces
and rootfs stop as described above, rootfs is over after its unmount, and a
volume whose map was overrun is not followed further.

### Why the bounds are enough

* `lock`: the counter and the semaphore only tell apart who is inside, who waits
  and who owes a release; five threads give several of each at once. The
  theorems hold for any number.
* `vnode_table`: two vnodes for up to four references make every path of
  `load_vnode` and `new_vnode` happen: hit, miss, busy, eviction, none left. The
  theorems hold for any number of threads and vnodes. With one reference per
  thread `load_vnode` never runs out.
* `cache_coherence`: three blocks on two entries force evictions while another
  thread wants the evicted block; read-ahead of 2 covers a partial hit.
  `cache_log` needs only one entry, for its properties are about one entry at a
  time; two versions let a block be changed again after it was cloned.
* `fd_table`: two files and two descriptors let the table fill up, a descriptor
  be reused while a call on its old file is under way, and the last close race
  with two users.
* `directories`: three names in one directory are what a scan needs to pass one
  over (two deleted before the position, one behind it); three inodes also give
  directories inside directories. `MaxDeletes` is 1: at most one name is deleted
  between two readdirs, as the shell's `rmall` does; with 2 `ScanRight` is
  violated. One name is short and two are not. `rmdir` is not called with "." or
  ".."; with ".." `OpenStaysInCore` is violated. A second scan instead of a
  third name was checked as well.
* `storage`: five data blocks are fewer than two full files need, so space runs
  out in the direct range, at the indirect block and inside it; chunks of two
  bits make the search cross chunks and wrap around. The disk is a whole number
  of chunks; `StorageTail.cfg` has one that is not. Files are cut to every kind of
  size: nothing, inside a block, one past a boundary, inside the indirect range.
  After a cut that `shrink_dstream` gets wrong the run goes no further
  (`BeforeMiscut`): the count would fall without end as blocks are freed again.
* `name_spaces`: two slots beside the root allow a name space mounted below
  another, a second mount while one is going away, and the reuse of a slot; a
  second thread walks, mounts or unmounts at each point of the first one's call.
* `rootfs`: three nodes give a directory in a directory with something in it,
  and a rename over, into and out of each of them. The scan is read one and three
  entries at a time and with a buffer that is full before. rootfs's own list has
  one level, for nothing it does depends on the levels; the vnode layer's list
  beside it is every list of five keys on three levels.
* `volume`: the inode map, blocks 7 and 8, crosses from one block of the map into
  the next, and the inode table, blocks 9 to 15, lies in two of them; files have
  blocks in different blocks of the map, one in the last partial word, and one
  without a bit.

### Fairness

`Benaphore` assumes that a thread inside a critical section leaves it and that a
waiter the semaphore lets through goes on. `FdTable` assumes weak fairness of a
thread's steps inside a call: its critical sections are short and end.
`VnodeLayer` and `BlockCache` assume strong fairness of each thread's steps
inside a call, because a step needs the lock, which comes and goes. With two
threads, the number in those runs, `LockNoBarging` justifies it: a thread that
waits for the lock gets it before the other can take it again. With more threads
it would depend on the host's semaphores serving their queue in order. File
system calls and disk transfers are assumed to return. Nobody is assumed to
start a call, to drop a reference or to release a block. `NameSpace` needs no
fairness: `CallsAdvance` says that every step of a call lowers a measure of what
it has left to do, so a call that keeps taking steps ends.

## 4. What is proved

`BenaphoreProofs`, for any set of threads. The inductive invariant `LockInv`:
the counter is one minus the number of threads inside LOCK..UNLOCK, and exactly
one permission to enter (a semaphore count, a thread inside, or a thread about
to release) exists when anybody is there. From it: `LockMutualExclusion`;
`LockNoBarging`, that a thread never takes the fast path past a waiter; and
`LockImplementsMutex`, the refinement of `Mutex` with the thread inside as
holder.

`VnodeLayerProofs`, for any threads, vnodes, ids and references, if ids are not
reused early (with `EarlyReuse` the theorems are false: `VnodeReuse.cfg`). The
inductive invariant `IInv` says that the skip list and the vnodes agree, counts
equal references, the list a vnode is on tells its state, `busy` has exactly one
owner, a removed file has no name, and the file system's in-core copies are
those of the vnodes. None of the properties is inductive alone: uniqueness needs
to know that a thread about to call `new_vnode` owns an id not in the skip list;
exact counts need that a vnode being flushed has no references, which needs the
lists to be truthful; and so on round the circle. From it: `VnodeUnique`,
`VnodeCountsExact`, `VnodeNeverDestroyed`, `VnodeOneCopy` and
`VnodeIdentityKept`. Each action is one lemma, with a step for every conjunct it
can disturb.

`FdTableProofs`, for any threads, descriptors and files. The counts of an
`ofile` change outside `fds->lock`, so that between two steps of a call they are
only right if the threads on their way through `close` and `put_fd` are counted
in. `CountsExact` counts them; what it needs beside itself is `LifeTold`: which
life an `ofile` is in (none, open, closed) follows from who still has it; one
that is being opened is nobody else's, and an open one without descriptors has
exactly one thread that is to close it. From it:
`FdCountsExact`, `FdNoUseAfterFree`, `FdClosedOnce`. `MaxLeaks` may be any
number: references lost by a failing `sys_readdir` are counted, too, and an
`ofile` lost by a full table belongs to nobody.

`BlockCacheProofs`, for any threads, entries, blocks and read-ahead, with all
operations at once. The invariant's first half, `Structure`, is about who owns
what while `bc.lock` is dropped: a thread that fills has entered its blocks into
the hash table before their entries carry the new numbers (`FillsTellTruth`),
entries it works on are marked and on no list it did not put them
(`EntsTellTruth`), who has locked a block finds it (`ClientsTellTruth`), and
`remove_cached_device_blocks` is alone. The second half says where the newest
contents of a block are (`Coherent`) and that versions only grow on their way to
the disk (`VersionsOrdered`). From it: `CacheIsSound`, `CacheCoherent`,
`CacheKeepsLog`, and the action properties `CacheWritesInOrder` and
`CachePointerStaysGood`. They hold with the race of finding 8 in the model: two
threads do set out for the same block, and the second stops in `panic` with
`bc.lock`, but what it leaves is sound.

`NameSpaceProofs`, for any threads, slots, devices, paths and links, and any
`MAX_SYM_LINKS`. The invariant adds to the three properties that a slot being
filled or emptied belongs to one call, and the call has the reference to the
vnode covered (`CallsTold`, `SlotsTold`), and that the list has each slot in use
once (`ListTold`). Unmounting is where they need each other: that nobody is left
in a name space is known from its counts being those of the calls and open
files, and that nothing is mounted below it from the mount points' references.
The counts are those of their holders until `sys_open` drops a directory twice
(`CreatUndone`, where the model ends): `NoRefMissing` says so, and
`NameSpacesCreat.cfg` shows what it does not say. From it: `NsNoRefMissing`,
`NsHeldIsMounted`, `NsMountTreeSound`. And `NsCallsAdvance`: a step lowers a
lexicographic measure of the call that takes it (paths to go, links that may
still be followed, components, what is left of the call or the name spaces
behind on the list), so the end of calls does not hang on fairness.

`DirectoryProofs`, for any inodes, names, scans and sizes of directories. The
invariant is in parts that hold under different conditions, which are the ones
the code needs:

* `ContentsTold` and `OpenTold`, always: "." and ".." come first, no name is
  there twice and none leads to the root; who reads a directory has it in core.
  They hold even where `rmdir` takes away a directory with something in it, or
  the very directory it is called in.
* `RefsExact`, if `rmdir` is not called with "." or "..": there a reference is
  lost.
* `ScansTold`, if at most one name goes between two readdirs: every entry in
  front of the position `readdir` will re-sync to has been returned or was not
  there from the start; for a scan like `rmall`'s, what it has got is exactly
  what is in front of it, unless the last one is gone.
* `TreeTold`, always: names lead to inodes in use, one name to an inode, ".."
  back, but for `orphans`, what was in a directory that `rmdir` took for empty.
* `orphans` is empty if no name has at most six characters: `SizeSays` proves that
  48 bytes leave no room for an entry of 24.

From it: `DirTreeSound`, without condition, and `DirRmdirOnlyEmpty`,
`DirOpenStays`, `DirScanRight`, each with its condition. The conditions cannot
be dropped: `DirectoryRmdir.cfg` refutes the first, and section 3 says what
TLC finds without the others.

`VolumeProofs`, for any size of the volume, of its blocks, its inode table and
its words, where the maps, the inodes and the root directory have room. That
includes volumes whose map is too short, up to the first write past its end, and
those that end in a partial word. The invariant says that what the cache shows
of the map, dirty or from the disk, is the map in memory. While a volume is made
one block of the map may be behind (`Behind`), and proving it shows why finding
15 does no harm: the run taken next always begins in that block. What was let go
by an unmount (`safe`) is in what the disk has and in what the cache shows, so
that no order of writes and no crash can lose it. From it:
`VolumeMountFindsAll`, `VolumeUsedExact`, `VolumeSafeOverCrashes`, and
`VolumeUsedIsReal`: if the volume is a whole number of words the count is right
without exception. Bytes have at least two bits (`ByteBits` is 8 in the code):
with one, the map's own run could cross blocks.

`DataStreamProofs`, for any disk, any sizes of blocks, chunks and indirect
blocks, any number of files and direct addresses, and any writes and sizes, until
a file is cut to a size that `shrink_dstream` gets wrong (`miscut`): one byte past
a block boundary (finding 3), or inside the indirect range (finding 2). After
that the theorems would be false: `StorageRounding.cfg` and `storage_freed_twice`
show it. `StreamEveryByteMapped` goes one step further, through the first wrong
cut itself (`ShrinkKeeps`, `MiscutMaps`): it costs at most the block of the last
byte.
The invariant speaks of the places of an inode, the
indirect block among them, and of the block at each (`At`):

* `MapOK`: the hint is inside the chunks, the count is exact, and a map of whole
  chunks that says it is full is full. `Reserved` blocks are set.
* `Shape`, of the inode in core and of the one on disk: the direct addresses are
  exactly those of the size, so that what the assertion of `grow_dstream` asks for
  holds; the indirect ones are at least those of the size and have no gap. They
  may be more: a call that fails half way, or a reload after it, leaves
  addresses behind the end of the inode that is on disk.
* `Within`: what the inode on disk leads to, the inode in core leads to. Without
  it a reload after a failed write could bring back blocks that others have.
* `Sole` and `Disjoint`: no block is at two places of a file or in two files, and
  all of them are set in the map and not reserved.

`NoSharedBlock` is not inductive without the others: that a new block is nobody's
follows from everybody's blocks being set in the map, that shrinking frees
nobody else's from their being different, and that the contents of another's
indirect block stay from that block being set. A call is many steps of a
recursive function, so what one block does is a lemma (`GrowBlockGrows`: one more
block at the end, or an error and nothing changed; `FreeBlockIs`), and what the
call does is an induction over its blocks (`GrowIs`, `ShrinkIs`). The step of the
whole system is then one lemma about storing what a call returns (`StoreInv`).
From it: `StreamNoSharedBlock`, `StreamMapCovers`, `StreamEveryByteMapped`,
`StreamGrowNeverDies`, `StreamBlocksStay` and `StreamSearchFinds`, the last for a
map of whole chunks: there the search of `GetFreeRangeOfBits`, with its hint, its
wrap-around and its flag, ends and finds a free bit whenever there is one. That
it ends is a measure of the bits still ahead that every step lowers
(`MeasureFalls`).

The library's induction theorems cannot be applied here, because they take a
predicate as a parameter. The induction is done with sets instead: a set of
numbers that is not empty has a least element (`LeastNat`, from the
well-foundedness of < in the library), so that a set that holds 0 and with each
number the next holds them all (`UpTo`); and a recursive function exists when its
steps stay in a set (`Recursion`), or when a bounded measure falls (`Descent`).

The only assumptions are the named ASSUMEs of the modules: the sets are finite,
the placeholder values are not members of them, numbers are in the range the
code has them in. They are evaluated by TLC in the runs of the same modules, and
every inductive invariant was checked by TLC on the runs' instances before it
was proved.

## 5. What is only model-checked

Liveness (`SomebodyEnters`, `BusyEnds`, `ClosedIsFreed`) and the absence of
deadlock are out of the prover's reach. `SkipList` and `RootFs` have no proofs:
the walk along the levels of a skip list, the climb of `rootfs_rename` and the
nodes below a node are RECURSIVE operators, in whose presence the prover loses
its SMT solver, and `TreeSound` is about reachability in a graph that changes.
Their runs check them on every input of the instance.

## 6. Findings

Each of the first ten is shown by a run or by a configuration of section 3 that
TLC finds violated. In one thread:

1. `DirectoryRmdir.cfg`: `rmdir` takes a directory with one short name for
   empty (dir.c:337), against the comment there. The file is lost.
2. `storage_freed_twice`: addresses in the indirect block are freed and not
   cleared (dstream.c:391). Write into the indirect range, shrink within it,
   remove the file; the blocks given up first are freed again, whoever has them
   now.
3. `StorageRounding.cfg`: the rounding in `shrink_dstream` (dstream.c:363), against
   its comment "round up the new file size to the next block boundary". Write,
   then set the size to one past a multiple of the block size.
4. `StorageTail.cfg`: where the map is no whole number of chunks the search passes
   over a chunk with a free block (bitvector.c:176).
5. `VolumeTail.cfg`: the check of the map at a mount looks at whole words only
   (bitmap.c:406), and puts a wrong count in the place of a right one.
6. `VolumeMapShort.cfg`: the size of the map is rounded down before it is rounded
   up (bitmap.c:43). The last blocks of such a volume have no bit.
7. `NameSpacesCreat.cfg`: `sys_open` with O_CREAT that gets no memory for the open
   file drops the directory a second time (kernel.c:1042).

Only with several threads:

8. `cache_race`: `get_ents` releases `bc.lock` between the lookup of a block and
   its insertion, against the comment in `cache_block_io`.
9. `VnodeReuse.cfg`: `dec_vnode` (kernel.c:2157) with a file system, such as myfs,
   that frees the id in remove_vnode: two copies of one file.
10. `NameSpacesDevice.cfg`: a device can be mounted again as soon as its name space
    is off the list, before the file system's unmount has written what it has
    left and closed it (kernel.c:1708).

Met while modelling, and part of the models as the code has them:

11. `sys_mount` on "/" or on a vnode that has become a mount point meanwhile:
   `dec_vnode` is called with `vnlock` held (kernel.c:1608).
12. References are lost by `sys_rename` between file systems (kernel.c:1400), by
   a refused `sys_unmount` (kernel.c:1653) and by a full descriptor table, whose
   positive EMFILE passes for a descriptor (kernel.c:1017, kernel.c:828). A lost
   reference keeps a file system from ever being unmounted.
13. `sys_sync` uses `ns->root` of a name space that is still being mounted, and
   `ns->next` of one that was unmounted while it worked (kernel.c:567).
14. `rootfs_rename` compares each parent of the new directory with the old one
   and not with what is moved (rootfs.c:370): nothing can be moved down from a
   directory at all, and so nothing can be moved below itself. A directory
   renamed over does not get `removed`, so it can still get entries, and a
   name that got longer is lost when the target is not empty (rootfs.c:379).
   `rootfs_readdir` and `rootfs_walk` look at the parent of a removed directory
   after it may have been freed. `rootfs_unmount` frees what is below the first
   entry of the root.
15. The run of the inode map or of the inode table can cross into a block of the
   map that is not written back (bitmap.c:267). Volumes come out right because
   the run taken next begins in that very block: `volume`, where one crosses,
   holds.
16. A super block on the device does not mean there is a root directory:
   `write_super_block` in `myfs_create_fs` comes before the cache's writes.
   Mounting such a volume ends the process (`CHECK_INODE` in `myfs_read_vnode`).

## 7. What is not modelled, and the plan

1. The rest of the cache: transfers that bypass it, several blocks in one
   `set_blocks_info`, failing writes.
2. `Directory` over `DataStream`: running out of space while an entry is
   inserted. Unmount over `VnodeLayer`: vnodes of a name space that goes away
   are marked busy and stay on the USED list.
3. Proofs: the invariants of `RootFs`, once its recursive operators are functions.
   `DataStreamProofs` has the induction they would need.

Left out for good: the shell, the test programs and the option parser (no state
to speak of), the journal (empty stubs), the temporary block buffers (used by
one call, while a volume is made), the debugger dumps, `cache_flusher` (not
started on Unix), `unremove_vnode`, `DoForSL` and `DoForRangeSL` (nothing calls
them), freeing of double indirect blocks (never allocated), running out of
memory, and the current directory, which nothing can set.

## 8. Hazards

`PROJECT.json` lists them with their lines and the properties that would catch
them. Those without a property belong to what is not modelled: transfers that
bypass the cache, failing writes, running out of space in a directory, unmount
against eviction; or to places where the model does what the code does and no
line of the code promises better: `load_vnode` and `get_ents` out of entries,
`sys_mount` on a busy mount point, a failing `sys_readdir`, a full descriptor
table, `rmdir` of "." and "..". For the size of the map (bitmap.c:43) and the
device of an unmount under way (kernel.c:1708) a configuration of section 3
refutes what one would want.
