---------------------------- MODULE MCBlockCache ----------------------------
(***************************************************************************)
(* BlockCache for TLC: threads and entries are interchangeable, and the    *)
(* operations come in groups.                                              *)
(***************************************************************************)
EXTENDS BlockCache, TLC

Symmetry == Permutations(Threads) \cup Permutations(Ents)

AllOps == Readers \cup Writers \cup Flushers \cup Others

\* A file system without a log, as myfs is.
PlainOps == {"get_block", "get_empty_block", "cached_write", "modify",
             "flush_device", "remove_cached_device_blocks"}
=============================================================================
