----------------------------- MODULE MCDatabase -----------------------------
(* Blocks of 7 bytes, as in MCRecordAllocator; a record of 5 takes a block  *)
(* and one byte of the next, where it leaves one for the other record.      *)
EXTENDS Database
=============================================================================
