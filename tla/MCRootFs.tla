------------------------------ MODULE MCRootFs ------------------------------
(***************************************************************************)
(* rootfs for TLC, and beside it the other skip list of the kernel, the    *)
(* one of the vnode layer: vnodes enter it by number in any order          *)
(* (sort_vnode) and leave it in any order (clear_vnode), where the numbers *)
(* of rootfs only rise.  RandomLevelSL may draw any level.  The two lists  *)
(* share nothing: vnodes come and go while rootfs is empty, and rootfs is  *)
(* at work while the list is.                                              *)
(***************************************************************************)
EXTENDS RootFs

CONSTANTS Vnodes,      \* the numbers of the vnodes
          ListLevels   \* MaxNumberOfLevels for their list

VARIABLES list,      \* the vnode layer's skip list
          present    \* history: the vnodes that are in it

listVars == <<list, present>>

SL == INSTANCE SkipList WITH Keys <- Vnodes, MaxNumberOfLevels <- ListLevels

ListInit == list = SL!NewSL /\ present = {}

sort_vnode(key, level) ==
    /\ list' = SL!InsertSL(list, key, level)
    /\ present' = present \cup {key}

clear_vnode(key) ==
    /\ list' = SL!DeleteSL(list, key)
    /\ present' = present \ {key}

ListNext == \E key \in Vnodes :
    clear_vnode(key) \/ \E level \in 0 .. SL!MaxLevel : sort_vnode(key, level)

MCNext ==
    \/ present = {} /\ Next /\ UNCHANGED listVars
    \/ nxvnid = root /\ ListNext /\ UNCHANGED vars

MCInit == Init /\ ListInit

MCSpec == MCInit /\ [][MCNext]_<<vars, listVars>>
-----------------------------------------------------------------------------
\* The keys that the pointers of level k lead to.
OnLevel(k) ==
    {key \in Vnodes : \E p \in Vnodes \cup {SL!header} : list.forward[p][k] = key}

\* SearchSL finds exactly the keys that were inserted and not deleted since,
\* whatever levels they drew and in whatever order they came and went: the
\* pointers of every level lead upwards, through keys that are also on the
\* level below, and the list's level counts the levels in use.
SearchExact ==
    /\ {key \in Vnodes : SL!SearchSL(list, key) = key} = present
    /\ OnLevel(0) = present /\ list.count = Cardinality(present)
    /\ \A k \in 0 .. SL!MaxLevel :
         /\ k > 0 => OnLevel(k) \subseteq OnLevel(k - 1)
         /\ k > 0 => (k < list.level <=> OnLevel(k) # {})
         /\ \A p \in Vnodes : list.forward[p][k] # NIL => p < list.forward[p][k]
=============================================================================
