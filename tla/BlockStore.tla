----------------------------- MODULE BlockStore -----------------------------
(***************************************************************************)
(* What dbio's block buffer promises its clients, without frames, clock    *)
(* or eviction order: `mem` is the content a client reads, `disk` what the *)
(* data file holds and `dirty` the blocks flagged for write back.  A write *)
(* that nobody flagged may be dropped (the frame is recycled); a flagged   *)
(* one only leaves `dirty` by reaching the file, and only a crash of the   *)
(* process discards it.  DataBuffer implements this specification.         *)
(***************************************************************************)
CONSTANTS
    Blocks,   \* block ids
    Values    \* contents a block can have

VARIABLES mem, disk, dirty

vars == <<mem, disk, dirty>>

Init ==
    /\ disk \in [Blocks -> Values]
    /\ mem = disk
    /\ dirty = {}

\* A client changes the bytes of a block it fetched.
Write(b, v) ==
    /\ mem' = [mem EXCEPT ![b] = v]
    /\ UNCHANGED <<disk, dirty>>

\* A client flags a block for write back.
Mark(b) ==
    /\ dirty' = dirty \cup {b}
    /\ UNCHANGED <<mem, disk>>

\* A flagged block reaches the data file.
Flush(b) ==
    /\ b \in dirty
    /\ disk' = [disk EXCEPT ![b] = mem[b]]
    /\ dirty' = dirty \ {b}
    /\ UNCHANGED mem

\* The write is reported as failed: the file may hold the old bytes, the new
\* ones or part of each, and the block stays flagged.
FlushFails(b, v) ==
    /\ b \in dirty
    /\ disk' = [disk EXCEPT ![b] = v]
    /\ UNCHANGED <<mem, dirty>>

\* A block that is not flagged is recycled: what was not flagged is lost.
Drop(b) ==
    /\ b \notin dirty
    /\ mem' = [mem EXCEPT ![b] = disk[b]]
    /\ UNCHANGED <<disk, dirty>>

\* The process dies and the file is opened again.
Crash ==
    /\ mem' = disk
    /\ dirty' = {}
    /\ UNCHANGED disk

Next ==
    \/ \E b \in Blocks :
          \/ \E v \in Values : Write(b, v) \/ FlushFails(b, v)
          \/ Mark(b)
          \/ Flush(b)
          \/ Drop(b)
    \/ Crash

Spec == Init /\ [][Next]_vars
=============================================================================
