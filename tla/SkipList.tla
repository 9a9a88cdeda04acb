------------------------------ MODULE SkipList ------------------------------
(***************************************************************************)
(* The skip list of sl.c: operators on a list, a record of its level, its  *)
(* count and the forward pointers of its nodes.  Keys are positive numbers *)
(* and stand for their nodes; 0 is the header as a node and NULL as a      *)
(* pointer.  Duplicates are not allowed, as in both uses of the list.      *)
(***************************************************************************)
EXTENDS Integers, FiniteSetsExt

CONSTANTS Keys,                \* what can be inserted
          MaxNumberOfLevels

ASSUME SkipListAssumption ==
    Keys \subseteq Nat \ {0} /\ MaxNumberOfLevels \in Nat \ {0}

NIL == 0
header == 0
MaxLevel == MaxNumberOfLevels - 1
NoForward == [k \in 0 .. MaxLevel |-> NIL]

NewSL == [level |-> 1, count |-> 0,
          forward |-> [p \in Keys \cup {header} |-> NoForward]]

\* Along one level, to the last node before the key.
RECURSIVE Along(_, _, _, _)
Along(l, p, k, key) ==
    LET q == l.forward[p][k] IN
    IF q # NIL /\ q < key THEN Along(l, q, k, key) ELSE p

\* The update array: where the search turns down on every level.
update(l, key) ==
    LET upd[k \in 0 .. l.level - 1] ==
          Along(l, IF k = l.level - 1 THEN header ELSE upd[k + 1], k, key)
    IN  upd

\* The node after the last turn, the only candidate for the key.
Candidate(l, key) == l.forward[update(l, key)[0]][0]

SearchSL(l, key) == IF Candidate(l, key) = key THEN key ELSE NIL

\* What RandomLevelSL draws, cut to one level more than there are.
NewLevel(l, drawn) == IF drawn >= l.level THEN l.level ELSE drawn

InsertSL(l, key, drawn) ==
    LET k == NewLevel(l, drawn)
        at(j) == IF j = l.level THEN header ELSE update(l, key)[j]
        node == [j \in 0 .. MaxLevel |-> IF j <= k THEN l.forward[at(j)][j] ELSE NIL]
    IN  IF Candidate(l, key) = key THEN l
        ELSE [level |-> IF k = l.level THEN l.level + 1 ELSE l.level,
              count |-> l.count + 1,
              forward |-> [p \in Keys \cup {header} |->
                             IF p = key THEN node
                             ELSE [j \in 0 .. MaxLevel |->
                                     IF j <= k /\ at(j) = p THEN key
                                                            ELSE l.forward[p][j]]]]

\* A mistake: the node is left alone on every level but the lowest.
DeleteSLMut(l, key) ==
    LET p == update(l, key)[0] IN
    IF Candidate(l, key) # key THEN l
    ELSE [l EXCEPT !.count = @ - 1, !.forward[p][0] = l.forward[key][0]]

\* The node is taken out of its levels from the bottom up; the list's level
\* then falls as far as the header has nothing to point at.
DeleteSL(l, key) ==
    LET upd == update(l, key)
        linked(j) == \A i \in 0 .. j : l.forward[upd[i]][i] = key
        forward == [p \in Keys \cup {header} |->
                      IF p = key THEN NoForward
                      ELSE [j \in 0 .. MaxLevel |->
                              IF j < l.level /\ upd[j] = p /\ linked(j)
                              THEN l.forward[key][j] ELSE l.forward[p][j]]]
        used == {m \in 1 .. l.level - 1 : forward[header][m] # NIL} \cup {0}
    IN  IF Candidate(l, key) # key THEN l
        ELSE [level |-> Max(used) + 1, count |-> l.count - 1, forward |-> forward]
=============================================================================
