---------------------------- MODULE MCNameSpace ----------------------------
(***************************************************************************)
(* NameSpace for TLC: a directory, a link and a step up to walk, and links *)
(* to the root's directory and to themselves.                              *)
(***************************************************************************)
EXTENDS NameSpace

ThePaths == {<<"d">>, <<"l">>, <<"..">>}
TheTargets == {<<TRUE, <<"d">>>>, <<FALSE, <<"l">>>>}
=============================================================================
