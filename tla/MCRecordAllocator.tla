-------------------------- MODULE MCRecordAllocator --------------------------
(* Blocks of 7 bytes hold two records of one byte or four bytes of a      *)
(* longer one: a record of 8 takes two whole blocks, and three when it     *)
(* starts behind a record of 1.  The map has one byte: record and index    *)
(* blocks 3 to 7.                                                          *)
EXTENDS RecordAllocator
=============================================================================
