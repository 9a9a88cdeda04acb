------------------------------ MODULE FdTable ------------------------------
(***************************************************************************)
(* Open files and file descriptors of kernel.c: sys_open and sys_opendir,  *)
(* sys_close and sys_closedir, the calls that use a descriptor (sys_read,  *)
(* sys_write, sys_readdir and their like), and new_fd, get_fd, put_fd,     *)
(* remove_fd, invoke_close and invoke_free under them.                     *)
(*                                                                         *)
(* The table is shared by the threads of a process and protected by        *)
(* fds->lock; the two counts of an ofile are changed by atomic_add outside *)
(* it.  ocnt counts descriptors: at zero the file system's close is called.*)
(* rcnt counts descriptors and calls in progress: at zero free_cookie is   *)
(* called, the vnode reference dropped and the ofile freed.                *)
(*                                                                         *)
(* A step is one critical section of fds->lock, one atomic_add, or one     *)
(* call into the file system.  Error codes are positive, as on Unix (the   *)
(* build of this repository): a full table goes unnoticed.  The two tables *)
(* (kernel and process) and the close-on-exec bits are left out; calloc    *)
(* succeeds.                                                               *)
(***************************************************************************)
EXTENDS Integers, FiniteSets

CONSTANTS Threads,   \* the threads of a process
          Files,     \* ofile structures (a bound)
          Num,       \* fds->num, the size of the table
          Types,     \* FD_FILE, FD_DIR
          DirType,   \* FD_DIR
          MaxLeaks,  \* bound on failing sys_readdir calls, all on one ofile
          NoFile

FDs == 0 .. Num - 1

ASSUME FdAssumption ==
    /\ IsFiniteSet(Threads) /\ IsFiniteSet(Files)
    /\ Num \in Nat /\ MaxLeaks \in Nat
    /\ DirType \in Types /\ NoFile \notin Files

VARIABLES
    slot,    \* fds->fds
    alloc,   \* fds->alloc, the bitmap of used descriptors
    rcnt, ocnt, type,   \* fields of an ofile
    life,    \* "none" not allocated, "open", "closed" after the fs's close,
             \* "lost" when nothing leads to it and nothing will free it
    pc,      \* where each thread is
    tf,      \* the ofile it works on
    leaked   \* ghost: references that failing sys_readdir calls left behind

vars == <<slot, alloc, rcnt, ocnt, type, life, pc, tf, leaked>>

(***************************************************************************)
(* "newfd" about to call new_fd, "use" between get_fd and put_fd,          *)
(* "closing" in remove_fd after its UNLOCK, "close" in invoke_close, "put" *)
(* about to drop rcnt, "free" in invoke_free.                              *)
(***************************************************************************)
Places == {"idle", "newfd", "use", "closing", "close", "put", "free"}

Init ==
    /\ slot = [d \in FDs |-> NoFile]
    /\ alloc = [d \in FDs |-> FALSE]
    /\ rcnt = [f \in Files |-> 0]
    /\ ocnt = [f \in Files |-> 0]
    /\ type = [f \in Files |-> DirType]
    /\ life = [f \in Files |-> "none"]
    /\ pc = [t \in Threads |-> "idle"]
    /\ tf = [t \in Threads |-> NoFile]
    /\ leaked = [f \in Files |-> 0]

At(t, place, f) ==
    /\ pc' = [pc EXCEPT ![t] = place]
    /\ tf' = [tf EXCEPT ![t] = f]
-----------------------------------------------------------------------------
\* sys_open, sys_opendir: the file system has opened the file; a new ofile.
sys_open(t, f, ty) ==
    /\ pc[t] = "idle" /\ life[f] = "none"
    /\ life' = [life EXCEPT ![f] = "open"]
    /\ type' = [type EXCEPT ![f] = ty]
    /\ rcnt' = [rcnt EXCEPT ![f] = 0]
    /\ ocnt' = [ocnt EXCEPT ![f] = 0]
    /\ leaked' = [leaked EXCEPT ![f] = 0]
    /\ At(t, "newfd", f)
    /\ UNCHANGED <<slot, alloc>>

\* new_fd: the lowest descriptor whose bit is clear.
new_fd(t, d) ==
    LET f == tf[t] IN
    /\ pc[t] = "newfd" /\ ~alloc[d] /\ \A e \in 0 .. d - 1 : alloc[e]
    /\ alloc' = [alloc EXCEPT ![d] = TRUE]
    /\ slot' = [slot EXCEPT ![d] = f]
    /\ rcnt' = [rcnt EXCEPT ![f] = @ + 1]
    /\ ocnt' = [ocnt EXCEPT ![f] = @ + 1]
    /\ At(t, "idle", NoFile)
    /\ UNCHANGED <<type, life, leaked>>

\* The table is full: new_fd's EMFILE is positive, so the callers' test
\* (nfd < 0) misses it, error4 is never taken, the error code is returned as
\* a descriptor, and the ofile and its reference to the vnode are lost.
new_fd_full(t) ==
    LET f == tf[t] IN
    /\ pc[t] = "newfd" /\ \A d \in FDs : alloc[d]
    /\ life' = [life EXCEPT ![f] = "lost"]
    /\ At(t, "idle", NoFile)
    /\ UNCHANGED <<slot, alloc, rcnt, ocnt, type, leaked>>

\* A mistake: a directory's descriptor is used without counting the use.
get_fdMut(t, d, ty) ==
    LET f == slot[d] IN
    /\ pc[t] = "idle" /\ f # NoFile /\ type[f] = ty
    /\ rcnt' = [rcnt EXCEPT ![f] = IF ty = DirType THEN @ ELSE @ + 1]
    /\ At(t, "use", f)
    /\ UNCHANGED <<slot, alloc, ocnt, type, life, leaked>>

\* get_fd, at the start of sys_read, sys_write, sys_readdir, sys_lseek, ...
get_fd(t, d, ty) ==
    LET f == slot[d] IN
    /\ pc[t] = "idle" /\ f # NoFile /\ type[f] = ty
    /\ rcnt' = [rcnt EXCEPT ![f] = @ + 1]
    /\ At(t, "use", f)
    /\ UNCHANGED <<slot, alloc, ocnt, type, life, leaked>>

\* get_fd and remove_fd find nothing of that kind: EBADF, nothing changes.
BadFd(t, d, ty) ==
    /\ pc[t] = "idle" /\ (slot[d] # NoFile => type[slot[d]] # ty)
    /\ UNCHANGED vars

\* The call is done with the file and goes on to put_fd.
EndUse(t) ==
    /\ pc[t] = "use"
    /\ At(t, "put", tf[t])
    /\ UNCHANGED <<slot, alloc, rcnt, ocnt, type, life, leaked>>

\* sys_readdir: the file system's readdir failed, and error1 skips put_fd.
ReaddirFails(t) ==
    LET f == tf[t] IN
    /\ pc[t] = "use" /\ type[f] = DirType
    /\ leaked[f] < MaxLeaks /\ \A g \in Files \ {f} : leaked[g] = 0
    /\ leaked' = [leaked EXCEPT ![f] = @ + 1]
    /\ At(t, "idle", NoFile)
    /\ UNCHANGED <<slot, alloc, rcnt, ocnt, type, life>>

\* Mistakes: put_fd frees while one reference is left; or never frees.
put_fdMutEarly(t) ==
    LET f == tf[t] IN
    /\ pc[t] = "put"
    /\ rcnt' = [rcnt EXCEPT ![f] = @ - 1]
    /\ IF rcnt[f] <= 2 THEN At(t, "free", f) ELSE At(t, "idle", NoFile)
    /\ UNCHANGED <<slot, alloc, ocnt, type, life, leaked>>

put_fdMutNever(t) ==
    LET f == tf[t] IN
    /\ pc[t] = "put"
    /\ rcnt' = [rcnt EXCEPT ![f] = @ - 1]
    /\ At(t, "idle", NoFile)
    /\ UNCHANGED <<slot, alloc, ocnt, type, life, leaked>>

\* put_fd and the end of remove_fd: the last reference frees the ofile.
put_fd(t) ==
    LET f == tf[t] IN
    /\ pc[t] = "put"
    /\ rcnt' = [rcnt EXCEPT ![f] = @ - 1]
    /\ IF rcnt[f] = 1 THEN At(t, "free", f) ELSE At(t, "idle", NoFile)
    /\ UNCHANGED <<slot, alloc, ocnt, type, life, leaked>>

\* free_cookie, dec_vnode, free(f).
invoke_free(t) ==
    /\ pc[t] = "free"
    /\ life' = [life EXCEPT ![tf[t]] = "none"]
    /\ At(t, "idle", NoFile)
    /\ UNCHANGED <<slot, alloc, rcnt, ocnt, type, leaked>>

\* sys_close, sys_closedir: remove_fd takes the descriptor away.
remove_fd(t, d, ty) ==
    LET f == slot[d] IN
    /\ pc[t] = "idle" /\ f # NoFile /\ type[f] = ty
    /\ alloc' = [alloc EXCEPT ![d] = FALSE]
    /\ slot' = [slot EXCEPT ![d] = NoFile]
    /\ At(t, "closing", f)
    /\ UNCHANGED <<rcnt, ocnt, type, life, leaked>>

\* A mistake: remove_fd closes when no call uses the file, whatever ocnt.
DropOpenMut(t) ==
    LET f == tf[t] IN
    /\ pc[t] = "closing"
    /\ ocnt' = [ocnt EXCEPT ![f] = @ - 1]
    /\ At(t, IF rcnt[f] = 1 THEN "close" ELSE "put", f)
    /\ UNCHANGED <<slot, alloc, rcnt, type, life, leaked>>

DropOpen(t) ==
    LET f == tf[t] IN
    /\ pc[t] = "closing"
    /\ ocnt' = [ocnt EXCEPT ![f] = @ - 1]
    /\ At(t, IF ocnt[f] = 1 THEN "close" ELSE "put", f)
    /\ UNCHANGED <<slot, alloc, rcnt, type, life, leaked>>

invoke_close(t) ==
    /\ pc[t] = "close"
    /\ life' = [life EXCEPT ![tf[t]] = "closed"]
    /\ At(t, "put", tf[t])
    /\ UNCHANGED <<slot, alloc, rcnt, ocnt, type, leaked>>

(***************************************************************************)
(* new_fd with f == NULL duplicates descriptor d, to a free descriptor or, *)
(* closing what is there, to n.  No system call of this version asks for   *)
(* it, but it is what ocnt is for.                                         *)
(***************************************************************************)
Dup(t, d, n) ==
    LET f == slot[d] IN
    /\ pc[t] = "idle" /\ f # NoFile
    /\ ~alloc[n] /\ \A e \in 0 .. n - 1 : alloc[e]
    /\ alloc' = [alloc EXCEPT ![n] = TRUE]
    /\ slot' = [slot EXCEPT ![n] = f]
    /\ rcnt' = [rcnt EXCEPT ![f] = @ + 1]
    /\ ocnt' = [ocnt EXCEPT ![f] = @ + 1]
    /\ UNCHANGED <<type, life, pc, tf, leaked>>

Dup2(t, d, n) ==
    LET f == slot[d] IN
    /\ pc[t] = "idle" /\ f # NoFile
    /\ alloc' = [alloc EXCEPT ![n] = TRUE]
    /\ slot' = [slot EXCEPT ![n] = f]
    /\ rcnt' = [rcnt EXCEPT ![f] = @ + 1]
    /\ ocnt' = [ocnt EXCEPT ![f] = @ + 1]
    /\ IF slot[n] = NoFile THEN UNCHANGED <<pc, tf>> ELSE At(t, "closing", slot[n])
    /\ UNCHANGED <<type, life, leaked>>
-----------------------------------------------------------------------------
\* A step inside a call that is under way.
CallStep(t) ==
    \/ new_fd_full(t) \/ EndUse(t) \/ put_fd(t) \/ invoke_free(t)
    \/ DropOpen(t) \/ invoke_close(t)
    \/ \E d \in FDs : new_fd(t, d)

CallStart(t) ==
    \/ \E f \in Files, ty \in Types : sys_open(t, f, ty)
    \/ \E d \in FDs, ty \in Types :
          get_fd(t, d, ty) \/ remove_fd(t, d, ty) \/ BadFd(t, d, ty)
    \/ \E d, n \in FDs : Dup(t, d, n) \/ Dup2(t, d, n)

Next == \E t \in Threads : CallStart(t) \/ CallStep(t) \/ ReaddirFails(t)

Spec == Init /\ [][Next]_vars

\* A thread inside a call keeps running, and the file system answers.
FairSpec == Spec /\ \A t \in Threads : WF_vars(CallStep(t))
-----------------------------------------------------------------------------
TypeOK ==
    /\ slot \in [FDs -> Files \cup {NoFile}]
    /\ alloc \in [FDs -> BOOLEAN]
    /\ rcnt \in [Files -> Nat] /\ ocnt \in [Files -> Nat]
    /\ type \in [Files -> Types]
    /\ life \in [Files -> {"none", "open", "closed", "lost"}]
    /\ pc \in [Threads -> Places]
    /\ tf \in [Threads -> Files \cup {NoFile}]
    /\ leaked \in [Files -> Nat]

SlotsOf(f) == {d \in FDs : slot[d] = f}
ThreadsAt(places, f) == {t \in Threads : pc[t] \in places /\ tf[t] = f}

(***************************************************************************)
(* The bitmap new_fd searches and the table get_fd reads agree; ocnt is    *)
(* the number of descriptors, and rcnt the number of descriptors and calls *)
(* in progress (and of references sys_readdir lost), although both are     *)
(* changed outside fds->lock.                                              *)
(***************************************************************************)
CountsExact ==
    /\ \A d \in FDs : alloc[d] <=> slot[d] # NoFile
    /\ \A f \in Files : life[f] \in {"open", "closed"} =>
        /\ ocnt[f] = Cardinality(SlotsOf(f)) + Cardinality(ThreadsAt({"closing"}, f))
        /\ rcnt[f] = Cardinality(SlotsOf(f)) + leaked[f]
                     + Cardinality(ThreadsAt({"use", "closing", "close", "put"}, f))

(***************************************************************************)
(* An ofile is not freed while a descriptor leads to it or a call is using *)
(* it, however sys_close races with the calls of other threads.            *)
(***************************************************************************)
NoUseAfterFree ==
    /\ \A d \in FDs : slot[d] # NoFile => life[slot[d]] = "open"
    /\ \A t \in Threads : pc[t] # "idle" => life[tf[t]] \in {"open", "closed"}

(***************************************************************************)
(* The file system sees close exactly once, after the last descriptor is   *)
(* gone, and always before free_cookie.                                    *)
(***************************************************************************)
ClosedOnce ==
    /\ \A f \in Files : life[f] = "closed" => SlotsOf(f) = {}
    /\ \A t \in Threads : /\ pc[t] = "close" => life[tf[t]] = "open"
                          /\ pc[t] = "free" => life[tf[t]] = "closed"
    /\ \A t, u \in Threads :
          pc[t] = "free" /\ pc[u] # "idle" /\ tf[t] = tf[u] => t = u

\* The parts of a life: an ofile on its way to new_fd is its thread's alone,
\* one whose last descriptor went has one thread that closes it, and one
\* whose last reference went has one thread that frees it.
LifeTold ==
    /\ \A t \in Threads : pc[t] # "idle" => tf[t] \in Files
    /\ \A t \in Threads : pc[t] = "newfd" =>
          /\ life[tf[t]] = "open" /\ rcnt[tf[t]] = 0 /\ leaked[tf[t]] = 0
          /\ \A u \in Threads : pc[u] # "idle" /\ tf[u] = tf[t] => u = t
    /\ \A t \in Threads : pc[t] = "closing" => life[tf[t]] = "open"
    /\ \A t \in Threads : pc[t] = "close" =>
          /\ ocnt[tf[t]] = 0
          /\ \A u \in Threads : pc[u] = "close" /\ tf[u] = tf[t] => u = t
    /\ \A t \in Threads : pc[t] = "free" => rcnt[tf[t]] = 0
    /\ \A f \in Files : life[f] = "closed" => ocnt[f] = 0
    /\ \A f \in Files : life[f] = "open" /\ ocnt[f] = 0 =>
          \E t \in Threads : tf[t] = f /\ pc[t] \in {"newfd", "close"}

\* The inductive invariant.
IInv == TypeOK /\ CountsExact /\ NoUseAfterFree /\ ClosedOnce /\ LifeTold

(***************************************************************************)
(* A file that no descriptor leads to is given one, or is closed and freed *)
(* and so its vnode reference dropped, in the end.  Two paths of kernel.c  *)
(* are known not to, and are named here: a failing sys_readdir, which lost *)
(* a reference (leaked), and an open that found the table full ("lost").   *)
(***************************************************************************)
ClosedIsFreed == \A f \in Files :
    life[f] \in {"open", "closed"} /\ SlotsOf(f) = {}
      ~> \/ life[f] = "none" \/ SlotsOf(f) # {}
         \/ life[f] = "closed" /\ leaked[f] > 0
         \/ life[f] = "lost"
=============================================================================
