---------------------------- MODULE MCDataBuffer ----------------------------
(* DataBuffer with three frames and four blocks: the clock wraps, a sweep   *)
(* clears every bit or stops half way, and each fetch can evict.            *)
EXTENDS DataBuffer, TLC

CONSTANTS b1, b2, b3, b4, v0, v1

MCBlocks == {b1, b2, b3, b4}
MCValues == {v0, v1}
Symmetry == Permutations(MCBlocks)
=============================================================================
