--------------------------- MODULE DataBlocksMap ---------------------------
(***************************************************************************)
(* core/data_blocks_map.go over dbio/bit_map.go: the bitmap of blocks in   *)
(* use, kept in blocks 1 and 2 of the file, and the blocks its clients     *)
(* (record allocator and index) hold.                                      *)
(***************************************************************************)
EXTENDS BitMap

VARIABLES
    bits,   \* the bits that are set, each as <<byte, bit>>
    held    \* blocks their client believes to own

vars == <<bits, held>>

IsInUse(id) == BitOf(id) \in bits

AllInUse == \A id \in Ids : IsInUse(id)

\* The lowest block that is not in use; 0 when there is none.
FirstFree(id) ==
    \/ id \in Ids /\ ~IsInUse(id) /\ \A j \in 0 .. id - 1 : IsInUse(j)
    \/ AllInUse /\ id = 0

-----------------------------------------------------------------------------
(* The clients                                                             *)

\* data_file_formatter.go marks the control block, the two map blocks and the
\* first record block.
Init ==
    /\ bits = {BitOf(id) : id \in 0 .. 3}
    /\ held = 0 .. 3

\* allocateNewBlock, allocateBlock: FirstFree, then MarkAsUsed.  Nobody asks
\* AllInUse first.
Allocate ==
    \E id \in Ids :
        /\ FirstFree(id)
        /\ bits' = bits \cup {BitOf(id)}
        /\ held' = held \cup {id}

\* MarkAsFree; the control block and the map blocks are never freed.
Free(id) ==
    /\ id \in held \ (0 .. 2)
    /\ bits' = bits \ {BitOf(id)}
    /\ held' = held \ {id}

Next == Allocate \/ \E id \in Ids : Free(id)

Spec == Init /\ [][Next]_vars

-----------------------------------------------------------------------------
(* Properties                                                              *)

\* Type invariant of the map and its clients.
TypeOK ==
    /\ bits \subseteq (0 .. (Positions \div 8) - 1) \X (0 .. 6)
    /\ held \subseteq Ids

\* Although two positions share a bit (bit_map.go:51-58), no block a client holds
\* is ever shown as free, so a held block is never handed out again: the freed
\* one of a pair is never the partner of a held one.
HeldIsInUse == \A id \in held : IsInUse(id)

\* Freed blocks come back: the map shows as used only blocks that are held, or
\* the partner (bit_map.go:51-58) of one that is.
NothingLeaks == \A id \in Ids : IsInUse(id) => \E h \in held : BitOf(h) = BitOf(id)

\* Why the shared bit does no harm: of the two positions that have it only the
\* first is ever handed out (data_blocks_map.go:33-40).
PartnersStayFree == \A id \in held : id % 8 = 1 => id = 1

\* The next allocation returns a block nobody holds.  When none is left it
\* returns the control block (data_blocks_map.go:42), and no caller checks.
AllocationsAreFresh ==
    \A id \in Ids : FirstFree(id) => id \notin held \/ (id = 0 /\ AllInUse)

\* What the test of the map expects of every position (data_blocks_map_test.go:
\* 54-58): when 0 .. i are in use, and no other, the first free block is i + 1.
NextPositionIsFree ==
    \A i \in Ids : held = 0 .. i /\ i + 1 \in Ids => FirstFree(i + 1)
=============================================================================
