------------------------------- MODULE Mutex -------------------------------
(***************************************************************************)
(* What a lock promises to the code between LOCK(l) and UNLOCK(l): at any  *)
(* time it belongs to one thread or to nobody, it is taken only while it   *)
(* belongs to nobody, and only its owner gives it back.                    *)
(***************************************************************************)
CONSTANTS Threads, NoThread

VARIABLE holder

Init == holder = NoThread

Take(t) ==
    /\ holder = NoThread
    /\ holder' = t

Give(t) ==
    /\ holder = t
    /\ holder' = NoThread

Next == \E t \in Threads : Take(t) \/ Give(t)

Spec == Init /\ [][Next]_holder
=============================================================================
