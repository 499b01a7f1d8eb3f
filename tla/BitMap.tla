------------------------------- MODULE BitMap -------------------------------
(***************************************************************************)
(* dbio/bit_map.go: which bit stands for which position.                   *)
(*                                                                         *)
(* A map block describes DATABLOCK_SIZE positions, a multiple of 8, so the *)
(* bitmaps of the two map blocks together are one: the byte of block `id`  *)
(* is id \div 8.  Inside a byte positions 0 and 1 both have bit 0, and     *)
(* position r > 1 has bit r - 1; bit 7 is never used.                      *)
(***************************************************************************)
EXTENDS Naturals

CONSTANT Positions   \* DATA_BLOCK_MAP_BLOCKS_COUNT * DATABLOCK_SIZE

ASSUME PositionsAssumption == Positions \in Nat /\ Positions >= 8 /\ Positions % 8 = 0

Ids == 0 .. Positions - 1

BitOf(id) == <<id \div 8, IF id % 8 = 0 THEN 0 ELSE (id % 8) - 1>>
=============================================================================
