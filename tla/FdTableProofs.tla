--------------------------- MODULE FdTableProofs ---------------------------
(***************************************************************************)
(* The two counts of an ofile are exact, and it is closed once and freed   *)
(* once, for every number of threads, descriptors and ofiles.              *)
(***************************************************************************)
EXTENDS FdTable, FiniteSetTheorems, TLAPS

Counted == {"use", "closing", "close", "put"}

\* The sets that ocnt and rcnt count are finite.
LEMMA CountSets ==
    ASSUME NEW S, NEW f
    PROVE  /\ IsFiniteSet(SlotsOf(f)) /\ Cardinality(SlotsOf(f)) \in Nat
           /\ IsFiniteSet(ThreadsAt(S, f)) /\ Cardinality(ThreadsAt(S, f)) \in Nat
           /\ Cardinality(SlotsOf(f)) = 0 <=> SlotsOf(f) = {}
           /\ Cardinality(ThreadsAt(S, f)) = 0 <=> ThreadsAt(S, f) = {}
<1>1. IsFiniteSet(FDs)
  BY FdAssumption, FS_Interval DEF FDs
<1>2. IsFiniteSet(SlotsOf(f))
  BY <1>1, FS_Subset DEF SlotsOf
<1>3. IsFiniteSet(ThreadsAt(S, f))
  BY FdAssumption, FS_Subset DEF ThreadsAt
<1> QED
  BY <1>2, <1>3, FS_CardinalityType, FS_EmptySet

\* The same of the next state.
LEMMA CountSetsNext ==
    ASSUME NEW S, NEW f
    PROVE  /\ Cardinality(SlotsOf(f)') \in Nat
           /\ Cardinality(ThreadsAt(S, f)') \in Nat
<1>1. IsFiniteSet(FDs)
  BY FdAssumption, FS_Interval DEF FDs
<1>2. IsFiniteSet(SlotsOf(f)')
  BY <1>1, FS_Subset DEF SlotsOf
<1>3. IsFiniteSet(ThreadsAt(S, f)')
  BY FdAssumption, FS_Subset DEF ThreadsAt
<1> QED
  BY <1>2, <1>3, FS_CardinalityType

\* A step of thread t to a place where it works on f moves t from one of the
\* sets that are counted to another.
LEMMA AtCount ==
    ASSUME TypeOK, NEW t \in Threads, NEW place, NEW f, At(t, place, f),
           NEW S, NEW g
    PROVE  Cardinality(ThreadsAt(S, g)') =
             Cardinality(ThreadsAt(S, g))
             - (IF pc[t] \in S /\ tf[t] = g THEN 1 ELSE 0)
             + (IF place \in S /\ f = g THEN 1 ELSE 0)
<1> DEFINE A == ThreadsAt(S, g)  R == A \ {t}
<1>1. IsFiniteSet(A) /\ IsFiniteSet(R)
  BY CountSets, FS_Subset
<1>2. Cardinality(A) = Cardinality(R) + (IF t \in A THEN 1 ELSE 0)
  BY <1>1, FS_RemoveElement, FS_CardinalityType
<1>3. t \in A <=> pc[t] \in S /\ tf[t] = g
  BY DEF ThreadsAt
<1>4. A' = IF place \in S /\ f = g THEN R \cup {t} ELSE R
  BY DEF At, ThreadsAt, TypeOK
<1>5. Cardinality(R \cup {t}) = Cardinality(R) + 1
  BY <1>1, FS_AddElement
<1> HIDE DEF A, R
<1>6. Cardinality(R) \in Nat
  BY <1>1, FS_CardinalityType
<1> QED
  BY <1>2, <1>3, <1>4, <1>5, <1>6 DEF A

\* A step that puts f, or nothing, into slot d.
LEMMA SlotCount ==
    ASSUME TypeOK, NEW d \in FDs, NEW f, slot' = [slot EXCEPT ![d] = f], NEW g
    PROVE  Cardinality(SlotsOf(g)') =
             Cardinality(SlotsOf(g)) - (IF slot[d] = g THEN 1 ELSE 0)
                                     + (IF f = g THEN 1 ELSE 0)
<1> DEFINE A == SlotsOf(g)  R == A \ {d}
<1>1. IsFiniteSet(A) /\ IsFiniteSet(R)
  BY CountSets, FS_Subset
<1>2. Cardinality(A) = Cardinality(R) + (IF d \in A THEN 1 ELSE 0)
  BY <1>1, FS_RemoveElement, FS_CardinalityType
<1>3. d \in A <=> slot[d] = g
  BY DEF SlotsOf
<1>4. A' = IF f = g THEN R \cup {d} ELSE R
  BY DEF SlotsOf, TypeOK
<1>5. Cardinality(R \cup {d}) = Cardinality(R) + 1
  BY <1>1, FS_AddElement
<1> HIDE DEF A, R
<1>6. Cardinality(R) \in Nat
  BY <1>1, FS_CardinalityType
<1> QED
  BY <1>2, <1>3, <1>4, <1>5, <1>6 DEF A

\* Steps that leave the table or the threads alone.
LEMMA SlotsKept ==
    ASSUME slot' = slot, NEW g
    PROVE  SlotsOf(g)' = SlotsOf(g)
BY DEF SlotsOf

LEMMA ThreadsKept ==
    ASSUME pc' = pc, tf' = tf, NEW S, NEW g
    PROVE  ThreadsAt(S, g)' = ThreadsAt(S, g)
BY DEF ThreadsAt

\* What the counts say: a descriptor or a call in progress keeps them from
\* being zero, and one that is alone is all there is.
LEMMA CountsSay ==
    ASSUME IInv, NEW f \in Files, life[f] \in {"open", "closed"}
    PROVE  /\ \A k \in FDs : slot[k] = f => ocnt[f] > 0 /\ rcnt[f] > 0
           /\ \A t \in Threads : tf[t] = f /\ pc[t] = "closing" =>
                 ocnt[f] > 0 /\ rcnt[f] > 0
           /\ \A t \in Threads : tf[t] = f /\ pc[t] \in Counted => rcnt[f] > 0
           /\ \A t, u \in Threads :
                 /\ tf[t] = f /\ pc[t] \in Counted /\ rcnt[f] = 1
                 /\ tf[u] = f /\ pc[u] \in Counted
                 => u = t
           /\ \A t \in Threads :
                 tf[t] = f /\ pc[t] \in Counted /\ rcnt[f] = 1
                 => leaked[f] = 0 /\ SlotsOf(f) = {}
           /\ \A t \in Threads :
                 tf[t] = f /\ pc[t] \in Counted \ {"closing"} /\ rcnt[f] = 1
                 => ocnt[f] = 0
           /\ \A t, u \in Threads :
                 /\ tf[t] = f /\ pc[t] = "closing" /\ ocnt[f] = 1
                 /\ tf[u] = f /\ pc[u] = "closing"
                 => u = t
           /\ \A t \in Threads :
                 tf[t] = f /\ pc[t] = "closing" /\ ocnt[f] = 1 => SlotsOf(f) = {}
<1> DEFINE s == Cardinality(SlotsOf(f))
           c == Cardinality(ThreadsAt({"closing"}, f))
           n == Cardinality(ThreadsAt(Counted, f))
<1>1. ocnt[f] = s + c /\ rcnt[f] = s + leaked[f] + n
  BY DEF IInv, CountsExact, Counted
<1>2. s \in Nat /\ c \in Nat /\ n \in Nat /\ leaked[f] \in Nat
  BY CountSets DEF IInv, TypeOK
<1>3. ASSUME NEW d \in FDs, slot[d] = f
      PROVE  s > 0
  <2>1. d \in SlotsOf(f)
    BY <1>3 DEF SlotsOf
  <2> QED
    BY <2>1, CountSets
<1>4. ASSUME NEW S, NEW t \in Threads, tf[t] = f, pc[t] \in S
      PROVE  Cardinality(ThreadsAt(S, f)) > 0
  <2>1. t \in ThreadsAt(S, f)
    BY <1>4 DEF ThreadsAt
  <2> QED
    BY <2>1, CountSets
<1>5. ASSUME NEW S, NEW t \in Threads, NEW u \in Threads,
             tf[t] = f, pc[t] \in S, tf[u] = f, pc[u] \in S,
             Cardinality(ThreadsAt(S, f)) = 1
      PROVE  u = t
  <2>1. t \in ThreadsAt(S, f) /\ u \in ThreadsAt(S, f)
    BY <1>5 DEF ThreadsAt
  <2> QED
    BY <2>1, <1>5, CountSets, FS_Singleton
<1>6. \A t \in Threads : tf[t] = f /\ pc[t] = "closing" => c > 0 /\ n > 0
  BY <1>4 DEF Counted
<1>7. \A t \in Threads : tf[t] = f /\ pc[t] \in Counted => n > 0
  BY <1>4
<1>8. n = 1 => \A t, u \in Threads :
         tf[t] = f /\ pc[t] \in Counted /\ tf[u] = f /\ pc[u] \in Counted => u = t
  BY <1>5
<1>9. c = 1 => \A t, u \in Threads :
         tf[t] = f /\ pc[t] = "closing" /\ tf[u] = f /\ pc[u] = "closing" => u = t
  BY <1>5
<1>10. s = 0 => SlotsOf(f) = {}
  BY CountSets
<1>11. \A t \in Threads :
         tf[t] = f /\ pc[t] \in Counted \ {"closing"} /\ n = 1 => c = 0
  <2> SUFFICES ASSUME NEW t \in Threads, tf[t] = f, pc[t] \in Counted \ {"closing"},
                      n = 1, c # 0
               PROVE  FALSE
    OBVIOUS
  <2>1. ThreadsAt({"closing"}, f) # {}
    BY CountSets
  <2>2. PICK u \in Threads : tf[u] = f /\ pc[u] = "closing"
    BY <2>1 DEF ThreadsAt
  <2> QED
    BY <2>2, <1>8 DEF Counted
<1> HIDE DEF s, c, n
<1>12. \A t \in Threads : tf[t] = f /\ pc[t] \in Counted /\ rcnt[f] = 1 =>
          n = 1 /\ s = 0 /\ leaked[f] = 0
  BY <1>1, <1>2, <1>7
<1>13. \A t \in Threads : tf[t] = f /\ pc[t] = "closing" /\ ocnt[f] = 1 =>
          c = 1 /\ s = 0
  BY <1>1, <1>2, <1>6
<1>14. \A k \in FDs : slot[k] = f => ocnt[f] > 0 /\ rcnt[f] > 0
  BY <1>1, <1>2, <1>3
<1>15. \A t \in Threads : tf[t] = f /\ pc[t] = "closing" => ocnt[f] > 0 /\ rcnt[f] > 0
  BY <1>1, <1>2, <1>6
<1>16. \A t \in Threads : tf[t] = f /\ pc[t] \in Counted => rcnt[f] > 0
  BY <1>1, <1>2, <1>7
<1>17. \A t \in Threads :
          tf[t] = f /\ pc[t] \in Counted \ {"closing"} /\ rcnt[f] = 1 => ocnt[f] = 0
  BY <1>1, <1>2, <1>11, <1>12
<1> QED
  BY <1>8, <1>9, <1>10, <1>12, <1>13, <1>14, <1>15, <1>16, <1>17

-----------------------------------------------------------------------------
(***************************************************************************)
(* Every step keeps the invariant.                                         *)
(***************************************************************************)
\* At the start there are no descriptors and no ofiles.
LEMMA InitIInv == Init => IInv
<1> SUFFICES ASSUME Init PROVE IInv
  OBVIOUS
<1>1. TypeOK
  BY FdAssumption DEF Init, TypeOK, Places
<1>2. CountsExact
  BY DEF Init, CountsExact
<1>3. NoUseAfterFree /\ ClosedOnce /\ LifeTold
  BY DEF Init, NoUseAfterFree, ClosedOnce, LifeTold
<1> QED
  BY <1>1, <1>2, <1>3 DEF IInv

\* A new ofile: nothing leads to it yet.
LEMMA OpenStep ==
    ASSUME IInv, NEW t \in Threads, NEW f \in Files, NEW ty \in Types,
           sys_open(t, f, ty)
    PROVE  IInv'
<1>1. TypeOK'
  BY DEF IInv, TypeOK, sys_open, At, Places
<1>2. \A d \in FDs : slot[d] # f
  BY FdAssumption DEF IInv, NoUseAfterFree, sys_open
<1>3. \A u \in Threads : pc[u] # "idle" => tf[u] # f
  BY DEF IInv, NoUseAfterFree, sys_open
<1>4. CountsExact'
  <2>1. \A g \in Files : SlotsOf(g)' = SlotsOf(g)
    BY SlotsKept DEF sys_open
  <2>2. \A g \in Files :
           /\ ThreadsAt({"closing"}, g)' = ThreadsAt({"closing"}, g)
           /\ ThreadsAt(Counted, g)' = ThreadsAt(Counted, g)
    BY DEF ThreadsAt, sys_open, At, IInv, TypeOK, Counted
  <2>3. SlotsOf(f) = {} /\ ThreadsAt({"closing"}, f) = {} /\ ThreadsAt(Counted, f) = {}
    BY <1>2, <1>3 DEF SlotsOf, ThreadsAt, Counted
  <2>4. SlotsOf(f)' = {} /\ ThreadsAt({"closing"}, f)' = {} /\ ThreadsAt(Counted, f)' = {}
    BY <2>1, <2>2, <2>3
  <2>5. Cardinality({}) = 0
    BY FS_EmptySet
  <2>6. \A g \in Files \ {f} : life'[g] = life[g] /\ ocnt'[g] = ocnt[g]
                                /\ rcnt'[g] = rcnt[g] /\ leaked'[g] = leaked[g]
    BY DEF sys_open, IInv, TypeOK
  <2>7. ocnt'[f] = 0 /\ rcnt'[f] = 0 /\ leaked'[f] = 0
    BY DEF sys_open, IInv, TypeOK
  <2>8. \A k \in FDs : (alloc[k] <=> slot[k] # NoFile)'
    BY DEF sys_open, IInv, CountsExact
  <2> QED
    BY SMTT(30), <2>1, <2>2, <2>4, <2>5, <2>6, <2>7, <2>8
    DEF IInv, CountsExact, Counted
<1>5. NoUseAfterFree'
  BY <1>2, <1>3 DEF NoUseAfterFree, IInv, TypeOK, sys_open, At, LifeTold
<1>6. ClosedOnce'
  <2>1. \A g \in Files : SlotsOf(g)' = SlotsOf(g)
    BY SlotsKept DEF sys_open
  <2> QED
    BY <2>1, <1>3 DEF ClosedOnce, IInv, TypeOK, sys_open, At, LifeTold
<1>7. LifeTold'
  BY <1>2, <1>3 DEF LifeTold, IInv, TypeOK, sys_open, At
<1> QED
  BY <1>1, <1>4, <1>5, <1>6, <1>7 DEF IInv

\* The first descriptor of an ofile.
LEMMA NewFdStep ==
    ASSUME IInv, NEW t \in Threads, NEW d \in FDs, new_fd(t, d)
    PROVE  IInv'
<1>file. tf[t] \in Files /\ life[tf[t]] \in {"open", "closed"}
  BY DEF new_fd, IInv, LifeTold, NoUseAfterFree
<1>said. /\ \A k \in FDs : slot[k] = tf[t] => ocnt[tf[t]] > 0 /\ rcnt[tf[t]] > 0
         /\ \A u \in Threads : tf[u] = tf[t] /\ pc[u] = "closing"
               => ocnt[tf[t]] > 0 /\ rcnt[tf[t]] > 0
         /\ \A u \in Threads : tf[u] = tf[t] /\ pc[u] \in Counted => rcnt[tf[t]] > 0
  BY <1>file, CountsSay
<1>type. TypeOK'
  BY FdAssumption, <1>file, <1>said DEF IInv, TypeOK, Counted, new_fd, At, Places
<1>counts. CountsExact'
  <2>1. \A g \in Files : Cardinality(SlotsOf(g)') =
             Cardinality(SlotsOf(g)) - (IF slot[d] = g THEN 1 ELSE 0)
                                     + (IF tf[t] = g THEN 1 ELSE 0)
    <3>1. slot' = [slot EXCEPT ![d] = tf[t]] /\ TypeOK
      BY DEF new_fd, IInv
    <3> TAKE g \in Files
    <3> QED
      BY <3>1, SlotCount, ZenonT(60)
  <2>2. \A g \in Files, S \in {{"closing"}, Counted} :
           Cardinality(ThreadsAt(S, g)') =
             Cardinality(ThreadsAt(S, g))
             - (IF pc[t] \in S /\ tf[t] = g THEN 1 ELSE 0)
             + (IF "idle" \in S /\ NoFile = g THEN 1 ELSE 0)
    BY AtCount DEF new_fd, IInv
  <2>3. \A g \in Files : /\ Cardinality(SlotsOf(g)) \in Nat
                         /\ Cardinality(ThreadsAt({"closing"}, g)) \in Nat
                         /\ Cardinality(ThreadsAt(Counted, g)) \in Nat
    BY CountSets
  <2>4. \A k \in FDs : (alloc[k] <=> slot[k] # NoFile)'
    BY FdAssumption, <1>file DEF new_fd, At, IInv, CountsExact, TypeOK
  <2> SUFFICES ASSUME NEW g \in Files, life'[g] \in {"open", "closed"}
               PROVE  /\ ocnt'[g] = Cardinality(SlotsOf(g)')
                                    + Cardinality(ThreadsAt({"closing"}, g)')
                      /\ rcnt'[g] = Cardinality(SlotsOf(g)') + leaked'[g]
                                    + Cardinality(ThreadsAt(Counted, g)')
    BY <2>4 DEF CountsExact, Counted
  <2>5. life[g] \in {"open", "closed"}
    BY DEF new_fd, At, IInv, TypeOK, NoUseAfterFree
  <2>6. /\ ocnt[g] = Cardinality(SlotsOf(g)) + Cardinality(ThreadsAt({"closing"}, g))
        /\ rcnt[g] = Cardinality(SlotsOf(g)) + leaked[g]
                     + Cardinality(ThreadsAt(Counted, g))
    BY <2>5 DEF IInv, CountsExact, Counted
  <2>7. slot[d] = NoFile
    BY DEF new_fd, IInv, CountsExact
  <2> QED
    BY <2>1, <2>2, <2>3, <2>6, <1>file, FdAssumption, <2>7
       DEF new_fd, IInv, TypeOK, Counted
<1>used. NoUseAfterFree'
  BY FdAssumption, <1>file, <1>said
     DEF NoUseAfterFree, IInv, TypeOK, new_fd, At, LifeTold, Counted
<1>closed. ClosedOnce'
  BY FdAssumption, <1>file, <1>said
     DEF ClosedOnce, SlotsOf, IInv, TypeOK, new_fd, At, LifeTold,
         NoUseAfterFree, Counted
<1>life. LifeTold'
  BY FdAssumption, <1>file, <1>said
     DEF LifeTold, IInv, TypeOK, new_fd, At, NoUseAfterFree, ClosedOnce, Counted
<1> QED
  BY <1>type, <1>counts, <1>used, <1>closed, <1>life DEF IInv


\* No descriptor is free: the ofile is lost.
LEMMA NewFdFullStep ==
    ASSUME IInv, NEW t \in Threads, new_fd_full(t)
    PROVE  IInv'
<1>file. tf[t] \in Files /\ life[tf[t]] \in {"open", "closed"}
  BY DEF new_fd_full, IInv, LifeTold, NoUseAfterFree
<1>said. /\ \A k \in FDs : slot[k] = tf[t] => ocnt[tf[t]] > 0 /\ rcnt[tf[t]] > 0
         /\ \A u \in Threads : tf[u] = tf[t] /\ pc[u] = "closing"
               => ocnt[tf[t]] > 0 /\ rcnt[tf[t]] > 0
         /\ \A u \in Threads : tf[u] = tf[t] /\ pc[u] \in Counted => rcnt[tf[t]] > 0
  BY <1>file, CountsSay
<1>type. TypeOK'
  BY FdAssumption, <1>file, <1>said
     DEF IInv, TypeOK, Counted, new_fd_full, At, Places
<1>counts. CountsExact'
  <2>1. \A g \in Files : Cardinality(SlotsOf(g)') = Cardinality(SlotsOf(g))
    BY SlotsKept DEF new_fd_full
  <2>2. \A g \in Files, S \in {{"closing"}, Counted} :
           Cardinality(ThreadsAt(S, g)') =
             Cardinality(ThreadsAt(S, g))
             - (IF pc[t] \in S /\ tf[t] = g THEN 1 ELSE 0)
             + (IF "idle" \in S /\ NoFile = g THEN 1 ELSE 0)
    BY AtCount DEF new_fd_full, IInv
  <2>3. \A g \in Files : /\ Cardinality(SlotsOf(g)) \in Nat
                         /\ Cardinality(ThreadsAt({"closing"}, g)) \in Nat
                         /\ Cardinality(ThreadsAt(Counted, g)) \in Nat
    BY CountSets
  <2>4. \A k \in FDs : (alloc[k] <=> slot[k] # NoFile)'
    BY FdAssumption, <1>file DEF new_fd_full, At, IInv, CountsExact, TypeOK
  <2> SUFFICES ASSUME NEW g \in Files, life'[g] \in {"open", "closed"}
               PROVE  /\ ocnt'[g] = Cardinality(SlotsOf(g)')
                                    + Cardinality(ThreadsAt({"closing"}, g)')
                      /\ rcnt'[g] = Cardinality(SlotsOf(g)') + leaked'[g]
                                    + Cardinality(ThreadsAt(Counted, g)')
    BY <2>4 DEF CountsExact, Counted
  <2>5. life[g] \in {"open", "closed"}
    BY DEF new_fd_full, At, IInv, TypeOK, NoUseAfterFree
  <2>6. /\ ocnt[g] = Cardinality(SlotsOf(g)) + Cardinality(ThreadsAt({"closing"}, g))
        /\ rcnt[g] = Cardinality(SlotsOf(g)) + leaked[g]
                     + Cardinality(ThreadsAt(Counted, g))
    BY <2>5 DEF IInv, CountsExact, Counted
  <2> QED
    BY <2>1, <2>2, <2>3, <2>6, <1>file, FdAssumption
       DEF new_fd_full, IInv, TypeOK, Counted
<1>used. NoUseAfterFree'
  BY FdAssumption, <1>file, <1>said
     DEF NoUseAfterFree, IInv, TypeOK, new_fd_full, At, LifeTold, Counted
<1>closed. ClosedOnce'
  BY FdAssumption, <1>file, <1>said
     DEF ClosedOnce, SlotsOf, IInv, TypeOK, new_fd_full, At, LifeTold,
         NoUseAfterFree, Counted
<1>life. LifeTold'
  BY FdAssumption, <1>file, <1>said
     DEF LifeTold, IInv, TypeOK, new_fd_full, At, NoUseAfterFree, ClosedOnce,
         Counted
<1> QED
  BY <1>type, <1>counts, <1>used, <1>closed, <1>life DEF IInv


\* A call takes a reference while it uses a descriptor.
LEMMA GetFdStep ==
    ASSUME IInv, NEW t \in Threads, NEW d \in FDs, NEW ty \in Types, get_fd(t, d, ty)
    PROVE  IInv'
<1>file. PICK f \in Files : slot[d] = f /\ life[f] = "open" /\ life[f] \in {"open", "closed"}
  BY DEF get_fd, IInv, TypeOK, NoUseAfterFree
<1>said. /\ \A k \in FDs : slot[k] = f => ocnt[f] > 0 /\ rcnt[f] > 0
         /\ \A u \in Threads : tf[u] = f /\ pc[u] = "closing"
               => ocnt[f] > 0 /\ rcnt[f] > 0
         /\ \A u \in Threads : tf[u] = f /\ pc[u] \in Counted => rcnt[f] > 0
  BY <1>file, CountsSay
<1>type. TypeOK'
  BY FdAssumption, <1>file, <1>said DEF IInv, TypeOK, Counted, get_fd, At, Places
<1>counts. CountsExact'
  <2>1. \A g \in Files : Cardinality(SlotsOf(g)') = Cardinality(SlotsOf(g))
    BY SlotsKept DEF get_fd
  <2>2. \A g \in Files, S \in {{"closing"}, Counted} :
           Cardinality(ThreadsAt(S, g)') =
             Cardinality(ThreadsAt(S, g))
             - (IF pc[t] \in S /\ tf[t] = g THEN 1 ELSE 0)
             + (IF "use" \in S /\ f = g THEN 1 ELSE 0)
    BY AtCount, <1>file DEF get_fd, IInv
  <2>3. \A g \in Files : /\ Cardinality(SlotsOf(g)) \in Nat
                         /\ Cardinality(ThreadsAt({"closing"}, g)) \in Nat
                         /\ Cardinality(ThreadsAt(Counted, g)) \in Nat
    BY CountSets
  <2>4. \A k \in FDs : (alloc[k] <=> slot[k] # NoFile)'
    BY FdAssumption, <1>file DEF get_fd, At, IInv, CountsExact, TypeOK
  <2> SUFFICES ASSUME NEW g \in Files, life'[g] \in {"open", "closed"}
               PROVE  /\ ocnt'[g] = Cardinality(SlotsOf(g)')
                                    + Cardinality(ThreadsAt({"closing"}, g)')
                      /\ rcnt'[g] = Cardinality(SlotsOf(g)') + leaked'[g]
                                    + Cardinality(ThreadsAt(Counted, g)')
    BY <2>4 DEF CountsExact, Counted
  <2>5. life[g] \in {"open", "closed"}
    BY DEF get_fd, At, IInv, TypeOK, NoUseAfterFree
  <2>6. /\ ocnt[g] = Cardinality(SlotsOf(g)) + Cardinality(ThreadsAt({"closing"}, g))
        /\ rcnt[g] = Cardinality(SlotsOf(g)) + leaked[g]
                     + Cardinality(ThreadsAt(Counted, g))
    BY <2>5 DEF IInv, CountsExact, Counted
  <2> QED
    BY <2>1, <2>2, <2>3, <2>6, <1>file DEF get_fd, IInv, TypeOK, Counted
<1>used. NoUseAfterFree'
  BY FdAssumption, <1>file, <1>said
     DEF NoUseAfterFree, IInv, TypeOK, get_fd, At, LifeTold, Counted
<1>closed. ClosedOnce'
  BY FdAssumption, <1>file, <1>said
     DEF ClosedOnce, SlotsOf, IInv, TypeOK, get_fd, At, LifeTold,
         NoUseAfterFree, Counted
<1>life. LifeTold'
  BY FdAssumption, <1>file, <1>said
     DEF LifeTold, IInv, TypeOK, get_fd, At, NoUseAfterFree, ClosedOnce, Counted
<1> QED
  BY <1>type, <1>counts, <1>used, <1>closed, <1>life DEF IInv


\* The call is done with the file.
LEMMA EndUseStep ==
    ASSUME IInv, NEW t \in Threads, EndUse(t)
    PROVE  IInv'
<1>file. tf[t] \in Files /\ life[tf[t]] \in {"open", "closed"}
  BY DEF EndUse, IInv, LifeTold, NoUseAfterFree
<1>said. /\ \A k \in FDs : slot[k] = tf[t] => ocnt[tf[t]] > 0 /\ rcnt[tf[t]] > 0
         /\ \A u \in Threads : tf[u] = tf[t] /\ pc[u] = "closing"
               => ocnt[tf[t]] > 0 /\ rcnt[tf[t]] > 0
         /\ \A u \in Threads : tf[u] = tf[t] /\ pc[u] \in Counted => rcnt[tf[t]] > 0
  BY <1>file, CountsSay
<1>type. TypeOK'
  BY FdAssumption, <1>file, <1>said DEF IInv, TypeOK, Counted, EndUse, At, Places
<1>counts. CountsExact'
  <2>1. \A g \in Files : Cardinality(SlotsOf(g)') = Cardinality(SlotsOf(g))
    BY SlotsKept DEF EndUse
  <2>2. \A g \in Files, S \in {{"closing"}, Counted} :
           Cardinality(ThreadsAt(S, g)') =
             Cardinality(ThreadsAt(S, g))
             - (IF pc[t] \in S /\ tf[t] = g THEN 1 ELSE 0)
             + (IF "put" \in S /\ tf[t] = g THEN 1 ELSE 0)
    BY AtCount DEF EndUse, IInv
  <2>3. \A g \in Files : /\ Cardinality(SlotsOf(g)) \in Nat
                         /\ Cardinality(ThreadsAt({"closing"}, g)) \in Nat
                         /\ Cardinality(ThreadsAt(Counted, g)) \in Nat
    BY CountSets
  <2>4. \A k \in FDs : (alloc[k] <=> slot[k] # NoFile)'
    BY FdAssumption, <1>file DEF EndUse, At, IInv, CountsExact, TypeOK
  <2> SUFFICES ASSUME NEW g \in Files, life'[g] \in {"open", "closed"}
               PROVE  /\ ocnt'[g] = Cardinality(SlotsOf(g)')
                                    + Cardinality(ThreadsAt({"closing"}, g)')
                      /\ rcnt'[g] = Cardinality(SlotsOf(g)') + leaked'[g]
                                    + Cardinality(ThreadsAt(Counted, g)')
    BY <2>4 DEF CountsExact, Counted
  <2>5. life[g] \in {"open", "closed"}
    BY DEF EndUse, At, IInv, TypeOK, NoUseAfterFree
  <2>6. /\ ocnt[g] = Cardinality(SlotsOf(g)) + Cardinality(ThreadsAt({"closing"}, g))
        /\ rcnt[g] = Cardinality(SlotsOf(g)) + leaked[g]
                     + Cardinality(ThreadsAt(Counted, g))
    BY <2>5 DEF IInv, CountsExact, Counted
  <2> QED
    BY <2>1, <2>2, <2>3, <2>6, <1>file DEF EndUse, IInv, TypeOK, Counted
<1>used. NoUseAfterFree'
  BY FdAssumption, <1>file, <1>said
     DEF NoUseAfterFree, IInv, TypeOK, EndUse, At, LifeTold, Counted
<1>closed. ClosedOnce'
  BY FdAssumption, <1>file, <1>said
     DEF ClosedOnce, SlotsOf, IInv, TypeOK, EndUse, At, LifeTold,
         NoUseAfterFree, Counted
<1>life. LifeTold'
  BY FdAssumption, <1>file, <1>said
     DEF LifeTold, IInv, TypeOK, EndUse, At, NoUseAfterFree, ClosedOnce, Counted
<1> QED
  BY <1>type, <1>counts, <1>used, <1>closed, <1>life DEF IInv


\* A failing sys_readdir keeps its reference.
LEMMA ReaddirFailsStep ==
    ASSUME IInv, NEW t \in Threads, ReaddirFails(t)
    PROVE  IInv'
<1>file. tf[t] \in Files /\ life[tf[t]] \in {"open", "closed"}
  BY DEF ReaddirFails, IInv, LifeTold, NoUseAfterFree
<1>said. /\ \A k \in FDs : slot[k] = tf[t] => ocnt[tf[t]] > 0 /\ rcnt[tf[t]] > 0
         /\ \A u \in Threads : tf[u] = tf[t] /\ pc[u] = "closing"
               => ocnt[tf[t]] > 0 /\ rcnt[tf[t]] > 0
         /\ \A u \in Threads : tf[u] = tf[t] /\ pc[u] \in Counted => rcnt[tf[t]] > 0
  BY <1>file, CountsSay
<1>type. TypeOK'
  BY FdAssumption, <1>file, <1>said
     DEF IInv, TypeOK, Counted, ReaddirFails, At, Places
<1>counts. CountsExact'
  <2>1. \A g \in Files : Cardinality(SlotsOf(g)') = Cardinality(SlotsOf(g))
    BY SlotsKept DEF ReaddirFails
  <2>2. \A g \in Files, S \in {{"closing"}, Counted} :
           Cardinality(ThreadsAt(S, g)') =
             Cardinality(ThreadsAt(S, g))
             - (IF pc[t] \in S /\ tf[t] = g THEN 1 ELSE 0)
             + (IF "idle" \in S /\ NoFile = g THEN 1 ELSE 0)
    BY AtCount DEF ReaddirFails, IInv
  <2>3. \A g \in Files : /\ Cardinality(SlotsOf(g)) \in Nat
                         /\ Cardinality(ThreadsAt({"closing"}, g)) \in Nat
                         /\ Cardinality(ThreadsAt(Counted, g)) \in Nat
    BY CountSets
  <2>4. \A k \in FDs : (alloc[k] <=> slot[k] # NoFile)'
    BY FdAssumption, <1>file DEF ReaddirFails, At, IInv, CountsExact, TypeOK
  <2> SUFFICES ASSUME NEW g \in Files, life'[g] \in {"open", "closed"}
               PROVE  /\ ocnt'[g] = Cardinality(SlotsOf(g)')
                                    + Cardinality(ThreadsAt({"closing"}, g)')
                      /\ rcnt'[g] = Cardinality(SlotsOf(g)') + leaked'[g]
                                    + Cardinality(ThreadsAt(Counted, g)')
    BY <2>4 DEF CountsExact, Counted
  <2>5. life[g] \in {"open", "closed"}
    BY DEF ReaddirFails, At, IInv, TypeOK, NoUseAfterFree
  <2>6. /\ ocnt[g] = Cardinality(SlotsOf(g)) + Cardinality(ThreadsAt({"closing"}, g))
        /\ rcnt[g] = Cardinality(SlotsOf(g)) + leaked[g]
                     + Cardinality(ThreadsAt(Counted, g))
    BY <2>5 DEF IInv, CountsExact, Counted
  <2> QED
    BY <2>1, <2>2, <2>3, <2>6, <1>file, FdAssumption
       DEF ReaddirFails, IInv, TypeOK, Counted
<1>used. NoUseAfterFree'
  BY FdAssumption, <1>file, <1>said
     DEF NoUseAfterFree, IInv, TypeOK, ReaddirFails, At, LifeTold, Counted
<1>closed. ClosedOnce'
  BY FdAssumption, <1>file, <1>said
     DEF ClosedOnce, SlotsOf, IInv, TypeOK, ReaddirFails, At, LifeTold,
         NoUseAfterFree, Counted
<1>life. LifeTold'
  BY FdAssumption, <1>file, <1>said
     DEF LifeTold, IInv, TypeOK, ReaddirFails, At, NoUseAfterFree, ClosedOnce,
         Counted
<1> QED
  BY <1>type, <1>counts, <1>used, <1>closed, <1>life DEF IInv


\* The last reference leads to invoke_free.
LEMMA PutStep ==
    ASSUME IInv, NEW t \in Threads, put_fd(t)
    PROVE  IInv'
<1>file. tf[t] \in Files /\ life[tf[t]] \in {"open", "closed"}
  BY DEF put_fd, IInv, LifeTold, NoUseAfterFree
<1>said. /\ \A k \in FDs : slot[k] = tf[t] => ocnt[tf[t]] > 0 /\ rcnt[tf[t]] > 0
         /\ \A u \in Threads : tf[u] = tf[t] /\ pc[u] = "closing"
               => ocnt[tf[t]] > 0 /\ rcnt[tf[t]] > 0
         /\ \A u \in Threads : tf[u] = tf[t] /\ pc[u] \in Counted => rcnt[tf[t]] > 0
  BY <1>file, CountsSay
<1>place. pc[t] \in Counted \ {"closing"}
  BY DEF put_fd, Counted
<1>last. rcnt[tf[t]] = 1 =>
           /\ ocnt[tf[t]] = 0 /\ leaked[tf[t]] = 0
           /\ \A d \in FDs : slot[d] # tf[t]
           /\ \A u \in Threads : tf[u] = tf[t] /\ pc[u] \in Counted => u = t
  BY <1>file, <1>place, CountsSay DEF SlotsOf
<1>alone. ASSUME rcnt[tf[t]] = 1
          PROVE  /\ life[tf[t]] = "closed"
                 /\ \A u \in Threads : tf[u] = tf[t] /\ pc[u] # "idle" => u = t
  <2>1. \A u \in Threads : tf[u] = tf[t] => pc[u] # "newfd" /\ pc[u] # "free"
    BY <1>file, <1>alone DEF put_fd, IInv, LifeTold
  <2>2. \A u \in Threads : tf[u] = tf[t] /\ pc[u] # "idle" => u = t
    BY <1>last, <1>alone, <2>1 DEF IInv, TypeOK, Places, Counted
  <2>3. life[tf[t]] # "open"
    BY <1>file, <1>last, <1>alone, <2>1, <2>2 DEF put_fd, IInv, LifeTold
  <2> QED
    BY <1>file, <2>2, <2>3 DEF IInv, TypeOK
<1>type. TypeOK'
  <2>1. rcnt' \in [Files -> Nat]
    BY <1>file, <1>said, <1>place DEF put_fd, IInv, TypeOK
  <2>2. PICK p \in Places, g \in Files \cup {NoFile} : At(t, p, g)
    BY <1>file DEF put_fd, Places
  <2>3. pc' \in [Threads -> Places] /\ tf' \in [Threads -> Files \cup {NoFile}]
    BY <2>2 DEF At, IInv, TypeOK
  <2> QED
    BY <2>1, <2>3 DEF put_fd, IInv, TypeOK
<1>counts. CountsExact'
  <2>1. \A g \in Files : Cardinality(SlotsOf(g)') = Cardinality(SlotsOf(g))
    BY SlotsKept DEF put_fd
  <2>2. \A g \in Files, S \in {{"closing"}, Counted} :
           Cardinality(ThreadsAt(S, g)') =
             Cardinality(ThreadsAt(S, g)) - (IF pc[t] \in S /\ tf[t] = g THEN 1 ELSE 0)
    <3>1. CASE rcnt[tf[t]] = 1
      <4>1. At(t, "free", tf[t])
        BY <3>1 DEF put_fd
      <4>2. "free" \notin {"closing"} /\ "free" \notin Counted
        BY DEF Counted
      <4> QED
        BY <4>1, <4>2, AtCount, CountSets DEF IInv
    <3>2. CASE rcnt[tf[t]] # 1
      <4>1. At(t, "idle", NoFile)
        BY <3>2 DEF put_fd
      <4> QED
        BY <4>1, FdAssumption, AtCount, CountSets DEF IInv
    <3> QED
      BY <3>1, <3>2
  <2>3. \A g \in Files : /\ Cardinality(SlotsOf(g)) \in Nat
                         /\ Cardinality(ThreadsAt({"closing"}, g)) \in Nat
                         /\ Cardinality(ThreadsAt(Counted, g)) \in Nat
    BY CountSets
  <2>4. \A k \in FDs : (alloc[k] <=> slot[k] # NoFile)'
    BY FdAssumption, <1>file DEF put_fd, At, IInv, CountsExact, TypeOK
  <2> SUFFICES ASSUME NEW g \in Files, life'[g] \in {"open", "closed"}
               PROVE  /\ ocnt'[g] = Cardinality(SlotsOf(g)')
                                    + Cardinality(ThreadsAt({"closing"}, g)')
                      /\ rcnt'[g] = Cardinality(SlotsOf(g)') + leaked'[g]
                                    + Cardinality(ThreadsAt(Counted, g)')
    BY <2>4 DEF CountsExact, Counted
  <2>5. life[g] \in {"open", "closed"}
    BY DEF put_fd, At, IInv, TypeOK, NoUseAfterFree
  <2>6. /\ ocnt[g] = Cardinality(SlotsOf(g)) + Cardinality(ThreadsAt({"closing"}, g))
        /\ rcnt[g] = Cardinality(SlotsOf(g)) + leaked[g]
                     + Cardinality(ThreadsAt(Counted, g))
    BY <2>5 DEF IInv, CountsExact, Counted
  <2> QED
    BY <2>1, <2>2, <2>3, <2>6, <1>file DEF put_fd, IInv, TypeOK, Counted
<1>used. NoUseAfterFree'
  BY FdAssumption, <1>file, <1>said, <1>last, <1>alone
     DEF NoUseAfterFree, IInv, TypeOK, put_fd, At, LifeTold, Counted
<1>closed. ClosedOnce'
  BY FdAssumption, <1>file, <1>said, <1>last, <1>alone
     DEF ClosedOnce, SlotsOf, IInv, TypeOK, put_fd, At, LifeTold,
         NoUseAfterFree, Counted
<1>life. LifeTold'
  BY FdAssumption, <1>file, <1>said, <1>last, <1>alone
     DEF LifeTold, IInv, TypeOK, put_fd, At, NoUseAfterFree, ClosedOnce, Counted
<1> QED
  BY <1>type, <1>counts, <1>used, <1>closed, <1>life DEF IInv


\* Nothing leads to an ofile that is freed.
LEMMA FreeStep ==
    ASSUME IInv, NEW t \in Threads, invoke_free(t)
    PROVE  IInv'
<1>file. tf[t] \in Files /\ life[tf[t]] \in {"open", "closed"}
  BY DEF invoke_free, IInv, LifeTold, NoUseAfterFree
<1>said. /\ \A k \in FDs : slot[k] = tf[t] => ocnt[tf[t]] > 0 /\ rcnt[tf[t]] > 0
         /\ \A u \in Threads : tf[u] = tf[t] /\ pc[u] = "closing"
               => ocnt[tf[t]] > 0 /\ rcnt[tf[t]] > 0
         /\ \A u \in Threads : tf[u] = tf[t] /\ pc[u] \in Counted => rcnt[tf[t]] > 0
  BY <1>file, CountsSay
<1>type. TypeOK'
  BY FdAssumption, <1>file, <1>said
     DEF IInv, TypeOK, Counted, invoke_free, At, Places
<1>counts. CountsExact'
  <2>1. \A g \in Files : Cardinality(SlotsOf(g)') = Cardinality(SlotsOf(g))
    BY SlotsKept DEF invoke_free
  <2>2. \A g \in Files, S \in {{"closing"}, Counted} :
           Cardinality(ThreadsAt(S, g)') =
             Cardinality(ThreadsAt(S, g))
             - (IF pc[t] \in S /\ tf[t] = g THEN 1 ELSE 0)
             + (IF "idle" \in S /\ NoFile = g THEN 1 ELSE 0)
    BY AtCount DEF invoke_free, IInv
  <2>3. \A g \in Files : /\ Cardinality(SlotsOf(g)) \in Nat
                         /\ Cardinality(ThreadsAt({"closing"}, g)) \in Nat
                         /\ Cardinality(ThreadsAt(Counted, g)) \in Nat
    BY CountSets
  <2>4. \A k \in FDs : (alloc[k] <=> slot[k] # NoFile)'
    BY FdAssumption, <1>file DEF invoke_free, At, IInv, CountsExact, TypeOK
  <2> SUFFICES ASSUME NEW g \in Files, life'[g] \in {"open", "closed"}
               PROVE  /\ ocnt'[g] = Cardinality(SlotsOf(g)')
                                    + Cardinality(ThreadsAt({"closing"}, g)')
                      /\ rcnt'[g] = Cardinality(SlotsOf(g)') + leaked'[g]
                                    + Cardinality(ThreadsAt(Counted, g)')
    BY <2>4 DEF CountsExact, Counted
  <2>5. life[g] \in {"open", "closed"}
    BY DEF invoke_free, At, IInv, TypeOK, NoUseAfterFree
  <2>6. /\ ocnt[g] = Cardinality(SlotsOf(g)) + Cardinality(ThreadsAt({"closing"}, g))
        /\ rcnt[g] = Cardinality(SlotsOf(g)) + leaked[g]
                     + Cardinality(ThreadsAt(Counted, g))
    BY <2>5 DEF IInv, CountsExact, Counted
  <2> QED
    BY <2>1, <2>2, <2>3, <2>6, <1>file, FdAssumption
       DEF invoke_free, IInv, TypeOK, Counted
<1>used. NoUseAfterFree'
  BY FdAssumption, <1>file, <1>said
     DEF NoUseAfterFree, IInv, TypeOK, invoke_free, At, LifeTold, Counted,
         ClosedOnce
<1>closed. ClosedOnce'
  BY FdAssumption, <1>file, <1>said
     DEF ClosedOnce, SlotsOf, IInv, TypeOK, invoke_free, At, LifeTold,
         NoUseAfterFree, Counted
<1>life. LifeTold'
  BY FdAssumption, <1>file, <1>said
     DEF LifeTold, IInv, TypeOK, invoke_free, At, NoUseAfterFree, ClosedOnce,
         Counted
<1> QED
  BY <1>type, <1>counts, <1>used, <1>closed, <1>life DEF IInv


\* A descriptor goes; its two counts are still to be dropped.
LEMMA RemoveFdStep ==
    ASSUME IInv, NEW t \in Threads, NEW d \in FDs, NEW ty \in Types, remove_fd(t, d, ty)
    PROVE  IInv'
<1>file. PICK f \in Files : slot[d] = f /\ life[f] = "open" /\ life[f] \in {"open", "closed"}
  BY DEF remove_fd, IInv, TypeOK, NoUseAfterFree
<1>said. /\ \A k \in FDs : slot[k] = f => ocnt[f] > 0 /\ rcnt[f] > 0
         /\ \A u \in Threads : tf[u] = f /\ pc[u] = "closing"
               => ocnt[f] > 0 /\ rcnt[f] > 0
         /\ \A u \in Threads : tf[u] = f /\ pc[u] \in Counted => rcnt[f] > 0
  BY <1>file, CountsSay
<1>type. TypeOK'
  BY FdAssumption, <1>file, <1>said DEF IInv, TypeOK, Counted, remove_fd, At, Places
<1>counts. CountsExact'
  <2>1. \A g \in Files : Cardinality(SlotsOf(g)') =
             Cardinality(SlotsOf(g)) - (IF slot[d] = g THEN 1 ELSE 0)
                                     + (IF NoFile = g THEN 1 ELSE 0)
    <3>1. slot' = [slot EXCEPT ![d] = NoFile] /\ TypeOK
      BY DEF remove_fd, IInv
    <3> TAKE g \in Files
    <3> QED
      BY <3>1, SlotCount, ZenonT(60)
  <2>2. \A g \in Files, S \in {{"closing"}, Counted} :
           Cardinality(ThreadsAt(S, g)') =
             Cardinality(ThreadsAt(S, g))
             - (IF pc[t] \in S /\ tf[t] = g THEN 1 ELSE 0)
             + (IF "closing" \in S /\ f = g THEN 1 ELSE 0)
    BY AtCount, <1>file DEF remove_fd, IInv
  <2>3. \A g \in Files : /\ Cardinality(SlotsOf(g)) \in Nat
                         /\ Cardinality(ThreadsAt({"closing"}, g)) \in Nat
                         /\ Cardinality(ThreadsAt(Counted, g)) \in Nat
    BY CountSets
  <2>4. \A k \in FDs : (alloc[k] <=> slot[k] # NoFile)'
    BY FdAssumption, <1>file DEF remove_fd, At, IInv, CountsExact, TypeOK
  <2> SUFFICES ASSUME NEW g \in Files, life'[g] \in {"open", "closed"}
               PROVE  /\ ocnt'[g] = Cardinality(SlotsOf(g)')
                                    + Cardinality(ThreadsAt({"closing"}, g)')
                      /\ rcnt'[g] = Cardinality(SlotsOf(g)') + leaked'[g]
                                    + Cardinality(ThreadsAt(Counted, g)')
    BY <2>4 DEF CountsExact, Counted
  <2>5. life[g] \in {"open", "closed"}
    BY DEF remove_fd, At, IInv, TypeOK, NoUseAfterFree
  <2>6. /\ ocnt[g] = Cardinality(SlotsOf(g)) + Cardinality(ThreadsAt({"closing"}, g))
        /\ rcnt[g] = Cardinality(SlotsOf(g)) + leaked[g]
                     + Cardinality(ThreadsAt(Counted, g))
    BY <2>5 DEF IInv, CountsExact, Counted
  <2> QED
    BY <2>1, <2>2, <2>3, <2>6, <1>file, FdAssumption
       DEF remove_fd, IInv, TypeOK, Counted
<1>used. NoUseAfterFree'
  BY FdAssumption, <1>file, <1>said
     DEF NoUseAfterFree, IInv, TypeOK, remove_fd, At, LifeTold, Counted
<1>closed. ClosedOnce'
  BY FdAssumption, <1>file, <1>said
     DEF ClosedOnce, SlotsOf, IInv, TypeOK, remove_fd, At, LifeTold,
         NoUseAfterFree, Counted
<1>life. LifeTold'
  BY FdAssumption, <1>file, <1>said
     DEF LifeTold, IInv, TypeOK, remove_fd, At, NoUseAfterFree, ClosedOnce,
         Counted
<1> QED
  BY <1>type, <1>counts, <1>used, <1>closed, <1>life DEF IInv


\* The last descriptor leads to invoke_close.
LEMMA DropOpenStep ==
    ASSUME IInv, NEW t \in Threads, DropOpen(t)
    PROVE  IInv'
<1>file. tf[t] \in Files /\ life[tf[t]] \in {"open", "closed"}
  BY DEF DropOpen, IInv, LifeTold, NoUseAfterFree
<1>said. /\ \A k \in FDs : slot[k] = tf[t] => ocnt[tf[t]] > 0 /\ rcnt[tf[t]] > 0
         /\ \A u \in Threads : tf[u] = tf[t] /\ pc[u] = "closing"
               => ocnt[tf[t]] > 0 /\ rcnt[tf[t]] > 0
         /\ \A u \in Threads : tf[u] = tf[t] /\ pc[u] \in Counted => rcnt[tf[t]] > 0
  BY <1>file, CountsSay
<1>last. ocnt[tf[t]] = 1 =>
           /\ \A d \in FDs : slot[d] # tf[t]
           /\ \A u \in Threads : tf[u] = tf[t] /\ pc[u] = "closing" => u = t
  BY <1>file, CountsSay DEF DropOpen, SlotsOf
<1>type. TypeOK'
  BY FdAssumption, <1>file, <1>said, <1>last
     DEF IInv, TypeOK, Counted, DropOpen, At, Places
<1>counts. CountsExact'
  <2>1. \A g \in Files : Cardinality(SlotsOf(g)') = Cardinality(SlotsOf(g))
    BY SlotsKept DEF DropOpen
  <2>2. \A g \in Files, S \in {{"closing"}, Counted} :
           Cardinality(ThreadsAt(S, g)') =
             Cardinality(ThreadsAt(S, g))
             - (IF pc[t] \in S /\ tf[t] = g THEN 1 ELSE 0)
             + (IF (IF ocnt[tf[t]] = 1 THEN "close" ELSE "put") \in S /\ tf[t] = g THEN 1 ELSE 0)
    BY AtCount DEF DropOpen, IInv
  <2>3. \A g \in Files : /\ Cardinality(SlotsOf(g)) \in Nat
                         /\ Cardinality(ThreadsAt({"closing"}, g)) \in Nat
                         /\ Cardinality(ThreadsAt(Counted, g)) \in Nat
    BY CountSets
  <2>4. \A k \in FDs : (alloc[k] <=> slot[k] # NoFile)'
    BY FdAssumption, <1>file DEF DropOpen, At, IInv, CountsExact, TypeOK
  <2> SUFFICES ASSUME NEW g \in Files, life'[g] \in {"open", "closed"}
               PROVE  /\ ocnt'[g] = Cardinality(SlotsOf(g)')
                                    + Cardinality(ThreadsAt({"closing"}, g)')
                      /\ rcnt'[g] = Cardinality(SlotsOf(g)') + leaked'[g]
                                    + Cardinality(ThreadsAt(Counted, g)')
    BY <2>4 DEF CountsExact, Counted
  <2>5. life[g] \in {"open", "closed"}
    BY DEF DropOpen, At, IInv, TypeOK, NoUseAfterFree
  <2>6. /\ ocnt[g] = Cardinality(SlotsOf(g)) + Cardinality(ThreadsAt({"closing"}, g))
        /\ rcnt[g] = Cardinality(SlotsOf(g)) + leaked[g]
                     + Cardinality(ThreadsAt(Counted, g))
    BY <2>5 DEF IInv, CountsExact, Counted
  <2> QED
    BY <2>1, <2>2, <2>3, <2>6, <1>file DEF DropOpen, IInv, TypeOK, Counted
<1>used. NoUseAfterFree'
  BY FdAssumption, <1>file, <1>said, <1>last
     DEF NoUseAfterFree, IInv, TypeOK, DropOpen, At, LifeTold, Counted
<1>closed. ClosedOnce'
  BY FdAssumption, <1>file, <1>said, <1>last
     DEF ClosedOnce, SlotsOf, IInv, TypeOK, DropOpen, At, LifeTold,
         NoUseAfterFree, Counted
<1>life. LifeTold'
  BY FdAssumption, <1>file, <1>said, <1>last
     DEF LifeTold, IInv, TypeOK, DropOpen, At, NoUseAfterFree, ClosedOnce,
         Counted
<1> QED
  BY <1>type, <1>counts, <1>used, <1>closed, <1>life DEF IInv


\* The file system is told of the close.
LEMMA CloseStep ==
    ASSUME IInv, NEW t \in Threads, invoke_close(t)
    PROVE  IInv'
<1>file. tf[t] \in Files /\ life[tf[t]] \in {"open", "closed"}
  BY DEF invoke_close, IInv, LifeTold, NoUseAfterFree
<1>said. /\ \A k \in FDs : slot[k] = tf[t] => ocnt[tf[t]] > 0 /\ rcnt[tf[t]] > 0
         /\ \A u \in Threads : tf[u] = tf[t] /\ pc[u] = "closing"
               => ocnt[tf[t]] > 0 /\ rcnt[tf[t]] > 0
         /\ \A u \in Threads : tf[u] = tf[t] /\ pc[u] \in Counted => rcnt[tf[t]] > 0
  BY <1>file, CountsSay
<1>type. TypeOK'
  BY FdAssumption, <1>file, <1>said
     DEF IInv, TypeOK, Counted, invoke_close, At, Places
<1>counts. CountsExact'
  <2>1. \A g \in Files : Cardinality(SlotsOf(g)') = Cardinality(SlotsOf(g))
    BY SlotsKept DEF invoke_close
  <2>2. \A g \in Files, S \in {{"closing"}, Counted} :
           Cardinality(ThreadsAt(S, g)') =
             Cardinality(ThreadsAt(S, g))
             - (IF pc[t] \in S /\ tf[t] = g THEN 1 ELSE 0)
             + (IF "put" \in S /\ tf[t] = g THEN 1 ELSE 0)
    BY AtCount DEF invoke_close, IInv
  <2>3. \A g \in Files : /\ Cardinality(SlotsOf(g)) \in Nat
                         /\ Cardinality(ThreadsAt({"closing"}, g)) \in Nat
                         /\ Cardinality(ThreadsAt(Counted, g)) \in Nat
    BY CountSets
  <2>4. \A k \in FDs : (alloc[k] <=> slot[k] # NoFile)'
    BY FdAssumption, <1>file DEF invoke_close, At, IInv, CountsExact, TypeOK
  <2> SUFFICES ASSUME NEW g \in Files, life'[g] \in {"open", "closed"}
               PROVE  /\ ocnt'[g] = Cardinality(SlotsOf(g)')
                                    + Cardinality(ThreadsAt({"closing"}, g)')
                      /\ rcnt'[g] = Cardinality(SlotsOf(g)') + leaked'[g]
                                    + Cardinality(ThreadsAt(Counted, g)')
    BY <2>4 DEF CountsExact, Counted
  <2>5. life[g] \in {"open", "closed"}
    BY DEF invoke_close, At, IInv, TypeOK, NoUseAfterFree
  <2>6. /\ ocnt[g] = Cardinality(SlotsOf(g)) + Cardinality(ThreadsAt({"closing"}, g))
        /\ rcnt[g] = Cardinality(SlotsOf(g)) + leaked[g]
                     + Cardinality(ThreadsAt(Counted, g))
    BY <2>5 DEF IInv, CountsExact, Counted
  <2> QED
    BY <2>1, <2>2, <2>3, <2>6, <1>file DEF invoke_close, IInv, TypeOK, Counted
<1>used. NoUseAfterFree'
  BY FdAssumption, <1>file, <1>said
     DEF NoUseAfterFree, IInv, TypeOK, invoke_close, At, LifeTold, Counted
<1>closed. ClosedOnce'
  BY FdAssumption, <1>file, <1>said
     DEF ClosedOnce, SlotsOf, IInv, TypeOK, invoke_close, At, LifeTold,
         NoUseAfterFree, Counted
<1>life. LifeTold'
  BY FdAssumption, <1>file, <1>said
     DEF LifeTold, IInv, TypeOK, invoke_close, At, NoUseAfterFree, ClosedOnce,
         Counted
<1> QED
  BY <1>type, <1>counts, <1>used, <1>closed, <1>life DEF IInv


\* Another descriptor of the same ofile.
LEMMA DupStep ==
    ASSUME IInv, NEW t \in Threads, NEW d \in FDs, NEW n \in FDs, Dup(t, d, n)
    PROVE  IInv'
<1>file. PICK f \in Files : slot[d] = f /\ life[f] = "open" /\ life[f] \in {"open", "closed"}
  BY DEF Dup, IInv, TypeOK, NoUseAfterFree
<1>said. /\ \A k \in FDs : slot[k] = f => ocnt[f] > 0 /\ rcnt[f] > 0
         /\ \A u \in Threads : tf[u] = f /\ pc[u] = "closing"
               => ocnt[f] > 0 /\ rcnt[f] > 0
         /\ \A u \in Threads : tf[u] = f /\ pc[u] \in Counted => rcnt[f] > 0
  BY <1>file, CountsSay
<1>type. TypeOK'
  BY FdAssumption, <1>file, <1>said DEF IInv, TypeOK, Counted, Dup, Places
<1>counts. CountsExact'
  <2>1. \A g \in Files : Cardinality(SlotsOf(g)') =
             Cardinality(SlotsOf(g)) - (IF slot[n] = g THEN 1 ELSE 0)
                                     + (IF f = g THEN 1 ELSE 0)
    <3>1. slot' = [slot EXCEPT ![n] = f] /\ TypeOK
      BY <1>file DEF Dup, IInv
    <3> TAKE g \in Files
    <3> QED
      BY <3>1, SlotCount, ZenonT(60)
  <2>2. \A g \in Files, S \in {{"closing"}, Counted} :
           Cardinality(ThreadsAt(S, g)') = Cardinality(ThreadsAt(S, g))
    BY ThreadsKept DEF Dup
  <2>3. \A g \in Files : /\ Cardinality(SlotsOf(g)) \in Nat
                         /\ Cardinality(ThreadsAt({"closing"}, g)) \in Nat
                         /\ Cardinality(ThreadsAt(Counted, g)) \in Nat
    BY CountSets
  <2>4. \A k \in FDs : (alloc[k] <=> slot[k] # NoFile)'
    BY FdAssumption, <1>file DEF Dup, IInv, CountsExact, TypeOK
  <2> SUFFICES ASSUME NEW g \in Files, life'[g] \in {"open", "closed"}
               PROVE  /\ ocnt'[g] = Cardinality(SlotsOf(g)')
                                    + Cardinality(ThreadsAt({"closing"}, g)')
                      /\ rcnt'[g] = Cardinality(SlotsOf(g)') + leaked'[g]
                                    + Cardinality(ThreadsAt(Counted, g)')
    BY <2>4 DEF CountsExact, Counted
  <2>5. life[g] \in {"open", "closed"}
    BY DEF Dup, IInv, TypeOK, NoUseAfterFree
  <2>6. /\ ocnt[g] = Cardinality(SlotsOf(g)) + Cardinality(ThreadsAt({"closing"}, g))
        /\ rcnt[g] = Cardinality(SlotsOf(g)) + leaked[g]
                     + Cardinality(ThreadsAt(Counted, g))
    BY <2>5 DEF IInv, CountsExact, Counted
  <2>7. slot[n] = NoFile
    BY DEF Dup, IInv, CountsExact
  <2> QED
    BY <2>1, <2>2, <2>3, <2>6, <1>file, FdAssumption, <2>7
       DEF Dup, IInv, TypeOK, Counted
<1>used. NoUseAfterFree'
  BY FdAssumption, <1>file, <1>said
     DEF NoUseAfterFree, IInv, TypeOK, Dup, LifeTold, Counted
<1>closed. ClosedOnce'
  BY FdAssumption, <1>file, <1>said
     DEF ClosedOnce, SlotsOf, IInv, TypeOK, Dup, LifeTold, NoUseAfterFree,
         Counted
<1>life. LifeTold'
  BY FdAssumption, <1>file, <1>said
     DEF LifeTold, IInv, TypeOK, Dup, NoUseAfterFree, ClosedOnce, Counted
<1> QED
  BY <1>type, <1>counts, <1>used, <1>closed, <1>life DEF IInv


\* Another descriptor of the same ofile, in the place of one that goes.
LEMMA Dup2Step ==
    ASSUME IInv, NEW t \in Threads, NEW d \in FDs, NEW n \in FDs, Dup2(t, d, n)
    PROVE  IInv'
<1>file. PICK f \in Files : slot[d] = f /\ life[f] = "open" /\ life[f] \in {"open", "closed"}
  BY DEF Dup2, IInv, TypeOK, NoUseAfterFree
<1>said. /\ \A k \in FDs : slot[k] = f => ocnt[f] > 0 /\ rcnt[f] > 0
         /\ \A u \in Threads : tf[u] = f /\ pc[u] = "closing"
               => ocnt[f] > 0 /\ rcnt[f] > 0
         /\ \A u \in Threads : tf[u] = f /\ pc[u] \in Counted => rcnt[f] > 0
  BY <1>file, CountsSay
<1>type. TypeOK'
  BY FdAssumption, <1>file, <1>said DEF IInv, TypeOK, Counted, Dup2, At, Places
<1>counts. CountsExact'
  <2>1. \A g \in Files : Cardinality(SlotsOf(g)') =
             Cardinality(SlotsOf(g)) - (IF slot[n] = g THEN 1 ELSE 0)
                                     + (IF f = g THEN 1 ELSE 0)
    <3>1. slot' = [slot EXCEPT ![n] = f] /\ TypeOK
      BY <1>file DEF Dup2, IInv
    <3> TAKE g \in Files
    <3> QED
      BY <3>1, SlotCount, ZenonT(60)
  <2>2. \A g \in Files, S \in {{"closing"}, Counted} :
           Cardinality(ThreadsAt(S, g)') =
             Cardinality(ThreadsAt(S, g)) + (IF slot[n] = g THEN 1 ELSE 0)
    <3>1. CASE slot[n] = NoFile
      BY <3>1, FdAssumption, ThreadsKept, CountSets DEF Dup2
    <3>2. CASE slot[n] # NoFile
      <4>1. At(t, "closing", slot[n]) /\ pc[t] = "idle"
        BY <3>2 DEF Dup2
      <4> QED
        BY <4>1, AtCount, CountSets DEF IInv, Counted
    <3> QED
      BY <3>1, <3>2
  <2>3. \A g \in Files : /\ Cardinality(SlotsOf(g)) \in Nat
                         /\ Cardinality(ThreadsAt({"closing"}, g)) \in Nat
                         /\ Cardinality(ThreadsAt(Counted, g)) \in Nat
    BY CountSets
  <2>4. \A k \in FDs : (alloc[k] <=> slot[k] # NoFile)'
    BY FdAssumption, <1>file DEF Dup2, At, IInv, CountsExact, TypeOK
  <2> SUFFICES ASSUME NEW g \in Files, life'[g] \in {"open", "closed"}
               PROVE  /\ ocnt'[g] = Cardinality(SlotsOf(g)')
                                    + Cardinality(ThreadsAt({"closing"}, g)')
                      /\ rcnt'[g] = Cardinality(SlotsOf(g)') + leaked'[g]
                                    + Cardinality(ThreadsAt(Counted, g)')
    BY <2>4 DEF CountsExact, Counted
  <2>5. life[g] \in {"open", "closed"}
    BY DEF Dup2, At, IInv, TypeOK, NoUseAfterFree
  <2>6. /\ ocnt[g] = Cardinality(SlotsOf(g)) + Cardinality(ThreadsAt({"closing"}, g))
        /\ rcnt[g] = Cardinality(SlotsOf(g)) + leaked[g]
                     + Cardinality(ThreadsAt(Counted, g))
    BY <2>5 DEF IInv, CountsExact, Counted
  <2> QED
    BY <2>1, <2>2, <2>3, <2>6, <1>file DEF Dup2, IInv, TypeOK, Counted
<1>used. NoUseAfterFree'
  BY FdAssumption, <1>file, <1>said
     DEF NoUseAfterFree, IInv, TypeOK, Dup2, At, LifeTold, Counted
<1>closed. ClosedOnce'
  BY FdAssumption, <1>file, <1>said
     DEF ClosedOnce, SlotsOf, IInv, TypeOK, Dup2, At, LifeTold, NoUseAfterFree,
         Counted
<1>other. slot[n] # NoFile => slot[n] \in Files /\ life[slot[n]] = "open"
  BY DEF IInv, TypeOK, NoUseAfterFree
<1>kept. /\ ocnt'[f] = ocnt[f] + 1 /\ \A g \in Files \ {f} : ocnt'[g] = ocnt[g]
         /\ rcnt'[f] = rcnt[f] + 1 /\ \A g \in Files \ {f} : rcnt'[g] = rcnt[g]
         /\ life' = life /\ leaked' = leaked /\ pc[t] = "idle"
  BY <1>file DEF Dup2, IInv, TypeOK
<1>open. \A u \in Threads : tf[u] = f => pc[u] # "newfd" /\ pc[u] # "close"
  BY <1>file, <1>said DEF IInv, LifeTold
<1>life. LifeTold'
  <2>1. CASE slot[n] = NoFile
    BY <1>file, <1>said, <1>kept, <1>open, <2>1
       DEF LifeTold, IInv, TypeOK, Dup2, NoUseAfterFree
  <2>2. CASE slot[n] # NoFile
    <3>1. At(t, "closing", slot[n])
      BY <2>2 DEF Dup2
    <3>2. \A u \in Threads : tf[u] = slot[n] => pc[u] # "newfd"
      BY <1>other, <2>2, CountsSay DEF IInv, LifeTold
    <3>3. /\ pc'[t] = "closing" /\ tf'[t] = slot[n]
          /\ \A u \in Threads \ {t} : pc'[u] = pc[u] /\ tf'[u] = tf[u]
      BY <3>1 DEF At, IInv, TypeOK
    <3>4. \A u \in Threads : pc'[u] # "idle" => tf'[u] \in Files
      BY <3>3, <1>other, <2>2 DEF IInv, LifeTold
    <3>5. \A u \in Threads : pc'[u] = "newfd" =>
            /\ life'[tf'[u]] = "open" /\ rcnt'[tf'[u]] = 0 /\ leaked'[tf'[u]] = 0
            /\ \A v \in Threads : pc'[v] # "idle" /\ tf'[v] = tf'[u] => v = u
      BY <3>2, <3>3, <1>kept, <1>open DEF IInv, LifeTold
    <3>6. /\ \A u \in Threads : pc'[u] = "closing" => life'[tf'[u]] = "open"
          /\ \A u \in Threads : pc'[u] = "free" => rcnt'[tf'[u]] = 0
      BY <3>3, <1>kept, <1>file, <1>other, <2>2 DEF IInv, LifeTold, ClosedOnce
    <3>7. \A u \in Threads : pc'[u] = "close" =>
            /\ ocnt'[tf'[u]] = 0
            /\ \A v \in Threads : pc'[v] = "close" /\ tf'[v] = tf'[u] => v = u
      BY <3>3, <1>kept, <1>open DEF IInv, LifeTold
    <3>8. \A g \in Files : life'[g] = "closed" => ocnt'[g] = 0
      BY <1>kept, <1>file DEF IInv, LifeTold
    <3>9. \A g \in Files : life'[g] = "open" /\ ocnt'[g] = 0 =>
            \E u \in Threads : tf'[u] = g /\ pc'[u] \in {"newfd", "close"}
      <4> SUFFICES ASSUME NEW g \in Files, life'[g] = "open", ocnt'[g] = 0
                   PROVE  \E u \in Threads : tf'[u] = g /\ pc'[u] \in {"newfd", "close"}
        OBVIOUS
      <4>1. g # f
        BY <1>kept DEF IInv, TypeOK
      <4>2. PICK u \in Threads : tf[u] = g /\ pc[u] \in {"newfd", "close"}
        BY <4>1, <1>kept DEF IInv, LifeTold
      <4>3. u # t
        BY <4>2, <1>kept
      <4> QED
        BY <4>2, <4>3, <3>3
    <3> QED
      BY <3>4, <3>5, <3>6, <3>7, <3>8, <3>9 DEF LifeTold
  <2> QED
    BY <2>1, <2>2
<1> QED
  BY <1>type, <1>counts, <1>used, <1>closed, <1>life DEF IInv

\* One step of Next.
LEMMA NextIInv == IInv /\ [Next]_vars => IInv'
<1> SUFFICES ASSUME IInv, [Next]_vars PROVE IInv'
  OBVIOUS
<1>1. CASE UNCHANGED vars
  <2>1. \A f : SlotsOf(f)' = SlotsOf(f)
    BY <1>1, SlotsKept DEF vars
  <2>2. \A S, f : ThreadsAt(S, f)' = ThreadsAt(S, f)
    BY <1>1, ThreadsKept DEF vars
  <2>3. TypeOK' /\ NoUseAfterFree'
    BY <1>1 DEF vars, IInv, TypeOK, NoUseAfterFree
  <2>4. CountsExact'
    BY <1>1, <2>1, <2>2 DEF vars, IInv, CountsExact
  <2>5. ClosedOnce'
    BY <1>1, <2>1 DEF vars, IInv, ClosedOnce
  <2>6. LifeTold'
    BY <1>1 DEF vars, IInv, LifeTold
  <2> QED
    BY <2>3, <2>4, <2>5, <2>6 DEF IInv
<1>2. ASSUME NEW t \in Threads, CallStart(t)
      PROVE  IInv'
  <2>1. CASE \E d \in FDs, ty \in Types : BadFd(t, d, ty)
    BY <2>1, <1>1 DEF BadFd
  <2> QED
    BY <1>2, <2>1, OpenStep, GetFdStep, RemoveFdStep, DupStep, Dup2Step DEF CallStart
<1>3. ASSUME NEW t \in Threads, CallStep(t)
      PROVE  IInv'
  BY <1>3, NewFdFullStep, EndUseStep, PutStep, FreeStep, DropOpenStep, CloseStep,
     NewFdStep DEF CallStep
<1>4. ASSUME NEW t \in Threads, ReaddirFails(t)
      PROVE  IInv'
  BY <1>4, ReaddirFailsStep
<1> QED
  BY <1>1, <1>2, <1>3, <1>4 DEF Next

-----------------------------------------------------------------------------
(***************************************************************************)
(* The descriptor table and the ofiles keep IInv whatever the threads of a *)
(* process open, use, duplicate and close.                                 *)
(***************************************************************************)
THEOREM FdInvariant == Spec => []IInv
<1>1. Init => IInv
  BY InitIInv
<1>2. IInv /\ [Next]_vars => IInv'
  BY NextIInv
<1> QED
  BY <1>1, <1>2, PTL DEF Spec

\* new_fd's bitmap agrees with the table, and ocnt and rcnt count the
\* descriptors and the calls in progress, although atomic_add changes them
\* outside fds->lock.
THEOREM FdCountsExact == Spec => []CountsExact
<1>1. IInv => CountsExact
  BY DEF IInv
<1> QED
  BY <1>1, FdInvariant, PTL

\* No ofile is freed under a descriptor or a call (put_fd, remove_fd).
THEOREM FdNoUseAfterFree == Spec => []NoUseAfterFree
<1>1. IInv => NoUseAfterFree
  BY DEF IInv
<1> QED
  BY <1>1, FdInvariant, PTL

\* invoke_close is reached once, by the thread that removed the last
\* descriptor, and before invoke_free.
THEOREM FdClosedOnce == Spec => []ClosedOnce
<1>1. IInv => ClosedOnce
  BY DEF IInv
<1> QED
  BY <1>1, FdInvariant, PTL
=============================================================================
