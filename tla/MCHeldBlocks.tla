---------------------------- MODULE MCHeldBlocks ----------------------------
(* Two frames, and record blocks enough to take both of them from a call. *)
EXTENDS HeldBlocks, TLC

CONSTANTS control, map1, map2, b1, b2, b3, v0

MCRecordBlocks == {b1, b2, b3}
MCBlocks == {control, map1, map2} \cup MCRecordBlocks
MCMapOf  == [b \in MCBlocks |-> map1]
MCValues == {v0}
Symmetry == Permutations(MCRecordBlocks)
=============================================================================
