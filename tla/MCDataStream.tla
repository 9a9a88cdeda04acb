---------------------------- MODULE MCDataStream ----------------------------
(***************************************************************************)
(* The data streams for TLC.  A file that was cut where shrink_dstream is  *)
(* wrong frees some of its blocks again and again, and the count of used   *)
(* blocks falls without end: those states are checked but not followed.    *)
(***************************************************************************)
EXTENDS DataStream

BeforeMiscut == ~miscut
=============================================================================
