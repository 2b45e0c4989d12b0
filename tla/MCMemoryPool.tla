---------------------------- MODULE MCMemoryPool ----------------------------
(* A heap small enough for TLC that still splits, leaves rests too small to *)
(* split, merges on both sides, and holds a pool of two blocks beside two   *)
(* application blocks.                                                      *)
EXTENDS MemoryPool

MCSizes == {0, 3, 8}
MCBlockSizes == {0, 2}
MCBlockCounts == {0, 1, 2}
=============================================================================
