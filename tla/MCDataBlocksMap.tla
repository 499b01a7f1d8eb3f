-------------------------- MODULE MCDataBlocksMap --------------------------
(* Two bytes of bitmap, the first shared with the formatted blocks: both    *)
(* pairs (8k, 8k + 1), exhaustion, and frees in any order.                  *)
EXTENDS DataBlocksMap
=============================================================================
