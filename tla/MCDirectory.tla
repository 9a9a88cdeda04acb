---------------------------- MODULE MCDirectory ----------------------------
(***************************************************************************)
(* Directory for TLC: inodes but the root's, short names, other names and  *)
(* cookies are interchangeable.                                            *)
(***************************************************************************)
EXTENDS Directory, TLC

Symmetry == Permutations(Inums \ {root}) \cup Permutations(ShortNames)
            \cup Permutations(Names \ ShortNames) \cup Permutations(Cookies)
=============================================================================
