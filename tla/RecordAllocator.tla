--------------------------- MODULE RecordAllocator ---------------------------
(***************************************************************************)
(* core/record_allocator.go and core/record_loader.go: records spread over *)
(* a doubly linked list of record blocks.  `first` and `avail` are fields  *)
(* of the control block; the map of blocks in use is DataBlocksMap's.      *)
(*                                                                         *)
(* The code is sequential.  A call is a sequence of steps, one per round   *)
(* of its loops or level of its recursion, so that what a loop meets half  *)
(* way, and a loop that never ends, can be seen.  `rows` is the index      *)
(* (record id to row id), the last step of actions/insert.go and delete.go;*)
(* the blocks its nodes take and give back come from the same map.         *)
(***************************************************************************)
EXTENDS RecordBlock

CONSTANTS
    Positions,   \* positions of the blocks map: the bound on block ids
    MaxIndex     \* bound on the blocks the index holds

ASSUME AllocatorAssumption ==
    /\ Positions \in Nat /\ Positions >= 8 /\ Positions % 8 = 0
    /\ MaxIndex \in Nat

VARIABLES
    pages,       \* the record blocks
    first,       \* FirstRecordDataBlock
    avail,       \* NextAvailableRecordsDataBlockID
    bits, held,  \* the blocks map and who holds what
    rows,        \* the row id the index has for a record, or NoRow
    content,     \* the data the record was given by the last call that returned
    dirty,       \* blocks marked as dirty
    index,       \* blocks the index holds
    op           \* the call being executed

map == <<bits, held, index>>
list == <<first, avail, map>>
vars == <<pages, list, rows, content, dirty, op>>

Lib == INSTANCE SequencesExt

Map == INSTANCE DataBlocksMap

Blocks == 3 .. Positions - 1

\* The control block; the map (its two blocks are one here).
ControlBlock == 0
MapBlock == 1

Idle == [pc |-> "idle"]

Panicked == [pc |-> "panicked"]

Present(id) == content[id] # Absent

Init ==
    /\ pages = [b \in Blocks |-> EmptyPage]
    /\ first = 3
    /\ avail = 3
    /\ Map!Init
    /\ rows = [id \in RecordIDs |-> NoRow]
    /\ content = [id \in RecordIDs |-> Absent]
    /\ dirty = {}
    /\ index = {}
    /\ op = Idle

\* The step changes the pages to `new` and marks the blocks in `marked`.
ChangePages(new, marked) == pages' = new /\ dirty' = dirty \cup marked

\* The call returns without error: the index and the caller know the result.
Return(id, row, data) ==
    /\ op' = Idle
    /\ rows' = [rows EXCEPT ![id] = row]
    /\ content' = [content EXCEPT ![id] = data]

Continue(o) == op' = o /\ UNCHANGED <<rows, content>>

\* All bytes of the record are placed: an insert goes on to the index, an update
\* returns.
Placed(row) ==
    IF Present(op.id) THEN Return(op.id, row, op.data)
    ELSE Continue([pc |-> "index", id |-> op.id, data |-> op.data, row |-> row])

-----------------------------------------------------------------------------
(* Placing the bytes of a record: the loops of Add and of allocateRecord.  *)
(* op.rest are the bytes left, op.at the block they may go to, op.row the  *)
(* record's first chunk and op.prev its latest one (NoRow: none yet).      *)

\* An insert starts at the block that was allocated last, after it marked the
\* control block.
Insert(id, n) ==
    /\ op = Idle
    /\ ~Present(id)
    /\ op' = [pc |-> "place", id |-> id, stack |-> <<>>, data |-> Data(id, n), rest |-> Data(id, n),
              at |-> avail, row |-> NoRow, prev |-> NoRow]
    /\ dirty' = dirty \cup {ControlBlock}
    /\ UNCHANGED <<pages, list, rows, content>>

\* Mutant: every chunk is wired to the record's first one.
WroteChunk_WiresFirst(page, row, n) ==
    /\ LET put == [pages EXCEPT ![row.block] = page] IN
       IF op.prev = NoRow THEN ChangePages(put, {row.block})
       ELSE ChangePages([put EXCEPT ![op.row.block] = SetChainedRowID(@, op.row.local, row)],
                        {row.block, op.row.block})
    /\ LET start == IF op.row = NoRow THEN row ELSE op.row IN
       IF n = Len(op.rest) THEN Placed(start)
       ELSE Continue([op EXCEPT !.rest = SubSeq(@, n + 1, Len(@)), !.at = row.block,
                                !.row = start, !.prev = row, !.pc = "place"])
    /\ UNCHANGED list

\* Mutant: the block of the previous chunk is not marked.
WroteChunk_MarksOne(page, row, n) ==
    /\ LET put == [pages EXCEPT ![row.block] = page] IN
       IF op.prev = NoRow THEN ChangePages(put, {row.block})
       ELSE ChangePages([put EXCEPT ![op.prev.block] = SetChainedRowID(@, op.prev.local, row)],
                        {row.block})
    /\ LET start == IF op.row = NoRow THEN row ELSE op.row IN
       IF n = Len(op.rest) THEN Placed(start)
       ELSE Continue([op EXCEPT !.rest = SubSeq(@, n + 1, Len(@)), !.at = row.block,
                                !.row = start, !.prev = row, !.pc = "place"])
    /\ UNCHANGED list

\* The block's page became `page` by adding the first n of op.rest as chunk
\* `row`; the previous chunk is wired to it.
WroteChunk(page, row, n) ==
    /\ LET put == [pages EXCEPT ![row.block] = page] IN
       IF op.prev = NoRow THEN ChangePages(put, {row.block})
       ELSE ChangePages([put EXCEPT ![op.prev.block] = SetChainedRowID(@, op.prev.local, row)],
                        {row.block, op.prev.block})
    /\ LET start == IF op.row = NoRow THEN row ELSE op.row IN
       IF n = Len(op.rest) THEN Placed(start)
       ELSE Continue([op EXCEPT !.rest = SubSeq(@, n + 1, Len(@)), !.at = row.block,
                                !.row = start, !.prev = row, !.pc = "place"])
    /\ UNCHANGED list

\* The block has space: write as much as fits.
Place ==
    /\ op.pc = "place"
    /\ FreeSpaceForInsert(pages[op.at]) > 0
    /\ LET n == Shorter(Len(op.rest), FreeSpaceForInsert(pages[op.at])) IN
       \E r \in Add(pages[op.at], op.id, SubSeq(op.rest, 1, n)) :
          WroteChunk(Forget(r.page), [block |-> op.at, local |-> r.local], n)

\* Mutant: the search starts again at the head of the list.
MoveOn_ToFirst ==
    /\ op.pc = "place"
    /\ FreeSpaceForInsert(pages[op.at]) = 0
    /\ pages[op.at].next # 0
    /\ Continue([op EXCEPT !.at = first])
    /\ UNCHANGED <<pages, list, dirty>>

\* It has none: go to the next block of the list.
MoveOn ==
    /\ op.pc = "place"
    /\ FreeSpaceForInsert(pages[op.at]) = 0
    /\ pages[op.at].next # 0
    /\ Continue([op EXCEPT !.at = pages[op.at].next])
    /\ UNCHANGED <<pages, list, dirty>>

\* Mutant: the new block is not marked as used.
Extend_Unmarked ==
    /\ op.pc = "place"
    /\ FreeSpaceForInsert(pages[op.at]) = 0
    /\ pages[op.at].next = 0
    /\ \E b \in Blocks :
          /\ Map!FirstFree(b)
          /\ held' = held \cup {b}
          /\ ChangePages([pages EXCEPT ![b].prev = op.at, ![op.at].next = b],
                         {b, op.at, ControlBlock, MapBlock})
          /\ avail' = b
          /\ Continue([op EXCEPT !.at = b])
    /\ UNCHANGED <<first, bits, index>>

\* There is no next block: allocateNewBlock.
Extend ==
    /\ op.pc = "place"
    /\ FreeSpaceForInsert(pages[op.at]) = 0
    /\ pages[op.at].next = 0
    /\ \E b \in Blocks :
          /\ Map!FirstFree(b)
          /\ bits' = bits \cup {Map!BitOf(b)}
          /\ held' = held \cup {b}
          /\ ChangePages([pages EXCEPT ![b].prev = op.at, ![op.at].next = b],
                         {b, op.at, ControlBlock, MapBlock})
          /\ avail' = b
          /\ Continue([op EXCEPT !.at = b])
    /\ UNCHANGED <<first, index>>

-----------------------------------------------------------------------------
(* Removing.  op.stack are the chunks of the recursion, the deepest last.  *)

Delete(id) ==
    /\ op = Idle
    /\ Present(id)
    /\ op' = [pc |-> "descend", id |-> id, stack |-> <<rows[id]>>, data |-> Absent, rest |-> <<>>,
              at |-> 0, row |-> NoRow, prev |-> NoRow]
    /\ UNCHANGED <<pages, list, rows, content, dirty>>

\* Mutant: the old chunks behind the first one are forgotten.
Update_KeepsChain(id, n) ==
    /\ op = Idle
    /\ Present(id)
    /\ LET row == rows[id] IN
       /\ ValidLocalID(pages[row.block], row.local)
       /\ op' = [pc |-> "rewrite", id |-> id, stack |-> <<>>,
                 data |-> Data(id, n), rest |-> Data(id, n),
                 at |-> row.block, row |-> row, prev |-> NoRow]
    /\ UNCHANGED <<pages, list, rows, content, dirty>>

\* Update removes the chunks behind the first one, if there are any; a row id
\* that names no record is an error that changes nothing.
Update(id, n) ==
    /\ op = Idle
    /\ Present(id)
    /\ LET row == rows[id]
           page == pages[row.block]
           chained == ChainedRowID(page, row.local)
       IN /\ ValidLocalID(page, row.local)
          /\ op' = [pc |-> IF chained.block # 0 THEN "descend" ELSE "rewrite",
                    id |-> id, stack |-> IF chained.block # 0 THEN <<chained>> ELSE <<>>,
                    data |-> Data(id, n), rest |-> Data(id, n),
                    at |-> row.block, row |-> row, prev |-> NoRow]
    /\ UNCHANGED <<pages, list, rows, content, dirty>>

\* Remove is done, or failed: a delete goes on to the index (or returns its error
\* and leaves the index as it is), an update goes on either way.
Removed(ok) ==
    IF op.data # Absent THEN Continue([op EXCEPT !.pc = "rewrite", !.stack = <<>>])
    ELSE IF ok THEN Continue([pc |-> "unindex", id |-> op.id])
    ELSE Continue(Idle)

\* Look at the chunk on top: chunks behind it are removed first.
Descend ==
    /\ op.pc = "descend"
    /\ LET row == Lib!Last(op.stack)
           page == pages[row.block]
           chained == ChainedRowID(page, row.local)
       IN IF ~ValidLocalID(page, row.local) THEN Removed(FALSE)
          ELSE IF chained.block # 0 THEN Continue([op EXCEPT !.stack = Append(@, chained)])
          ELSE Continue([op EXCEPT !.pc = "remove"])
    /\ UNCHANGED <<pages, list, dirty>>

\* Mutant: the next block keeps pointing back to the freed one.
RemoveFromList_KeepsBackLink(b, page) ==
    /\ pages' = [c \in Blocks |->
                    LET p == IF c = b THEN Forget(Clear(page)) ELSE pages[c] IN
                    [p EXCEPT !.next = IF c = page.prev THEN page.next ELSE @]]
    /\ first' = IF page.prev = 0 THEN page.next ELSE first
    /\ bits' = bits \ {Map!BitOf(b)}
    /\ held' = held \ {b}
    /\ dirty' = dirty \cup {page.prev, page.next, MapBlock}
    /\ UNCHANGED <<avail, index>>

\* Mutant: the next block is not marked.
RemoveFromList_MarksOne(b, page) ==
    /\ pages' = [c \in Blocks |->
                    LET p == IF c = b THEN Forget(Clear(page)) ELSE pages[c] IN
                    [p EXCEPT !.next = IF c = page.prev THEN page.next ELSE @,
                              !.prev = IF c = page.next THEN page.prev ELSE @]]
    /\ first' = IF page.prev = 0 THEN page.next ELSE first
    /\ bits' = bits \ {Map!BitOf(b)}
    /\ held' = held \ {b}
    /\ dirty' = dirty \cup {page.prev, MapBlock}
    /\ UNCHANGED <<avail, index>>

\* removeFromList: the last block of the list stays.  The links of the block
\* itself stay too, and nobody marks it.  Without a previous block the code
\* writes a next link into block 0, where nothing is, and marks that.
RemoveFromList(b, page) ==
    /\ pages' = [c \in Blocks |->
                    LET p == IF c = b THEN Forget(Clear(page)) ELSE pages[c] IN
                    [p EXCEPT !.next = IF c = page.prev THEN page.next ELSE @,
                              !.prev = IF c = page.next THEN page.prev ELSE @]]
    /\ first' = IF page.prev = 0 THEN page.next ELSE first
    /\ bits' = bits \ {Map!BitOf(b)}
    /\ held' = held \ {b}
    /\ dirty' = dirty \cup {page.prev, page.next, MapBlock}
    /\ UNCHANGED <<avail, index>>

\* Mutant: the first block of the list is never given back.
RemoveChunk_KeepsFirst ==
    /\ op.pc = "remove"
    /\ LET row == Lib!Last(op.stack)
           page == Remove(pages[row.block], row.local)
       IN /\ IF TotalRecords(page) = 0 /\ page.next # 0 /\ page.prev # 0
               THEN RemoveFromList(row.block, page)
               ELSE ChangePages([pages EXCEPT ![row.block] = Forget(page)], {}) /\ UNCHANGED list
          /\ IF Len(op.stack) = 1 THEN Removed(TRUE)
             ELSE Continue([op EXCEPT !.stack = Lib!Front(@)])

\* Remove the chunk on top, and its block from the list if that was its last.
RemoveChunk ==
    /\ op.pc = "remove"
    /\ LET row == Lib!Last(op.stack)
           page == Remove(pages[row.block], row.local)
       IN /\ IF TotalRecords(page) = 0 /\ page.next # 0
               THEN RemoveFromList(row.block, page)
               ELSE ChangePages([pages EXCEPT ![row.block] = Forget(page)], {}) /\ UNCHANGED list
          /\ IF Len(op.stack) = 1 THEN Removed(TRUE)
             ELSE Continue([op EXCEPT !.stack = Lib!Front(@)])

\* Update: soft remove the first chunk and add as much of the new data as its
\* block takes, maybe nothing; a changed localID is a panic.
Rewrite ==
    /\ op.pc = "rewrite"
    /\ LET soft == SoftRemove(pages[op.at], op.row.local)
           n == Shorter(Len(op.rest), FreeSpaceForInsert(soft))
       IN \E r \in Add(soft, op.id, SubSeq(op.rest, 1, n)) :
             IF r.local = op.row.local THEN WroteChunk(Forget(r.page), op.row, n)
             ELSE Continue(Panicked) /\ UNCHANGED <<pages, list, dirty>>

-----------------------------------------------------------------------------
(* The index.  A tree of nodes; here a function, and the blocks they take. *)

\* allocateBlock: a node is created.
IndexTakes(b) ==
    /\ op.pc = "index"
    /\ Cardinality(index) < MaxIndex
    /\ Map!FirstFree(b)
    /\ bits' = bits \cup {Map!BitOf(b)}
    /\ held' = held \cup {b}
    /\ index' = index \cup {b}
    /\ dirty' = dirty \cup {b, ControlBlock, MapBlock}
    /\ UNCHANGED <<pages, first, avail, rows, content, op>>

\* Free: a node is merged into another.
IndexFrees(b) ==
    /\ op.pc = "unindex"
    /\ b \in index
    /\ bits' = bits \ {Map!BitOf(b)}
    /\ held' = held \ {b}
    /\ index' = index \ {b}
    /\ dirty' = dirty \cup {MapBlock}
    /\ UNCHANGED <<pages, first, avail, rows, content, op>>

IndexInsert ==
    /\ op.pc = "index"
    /\ Return(op.id, op.row, op.data)
    /\ dirty' = dirty \cup index
    /\ UNCHANGED <<pages, list>>

IndexDelete ==
    /\ op.pc = "unindex"
    /\ Return(op.id, NoRow, Absent)
    /\ dirty' = dirty \cup index
    /\ UNCHANGED <<pages, list>>

-----------------------------------------------------------------------------

Call ==
    \E id \in RecordIDs :
        \/ \E n \in Sizes : Insert(id, n) \/ Update(id, n)
        \/ Delete(id)

Step ==
    \/ Place \/ MoveOn \/ Extend
    \/ Descend \/ RemoveChunk \/ Rewrite
    \/ IndexInsert \/ IndexDelete

IndexBlocks == \E b \in Blocks : IndexTakes(b) \/ IndexFrees(b)

Next == Call \/ Step \/ IndexBlocks

Spec == Init /\ [][Next]_vars

\* One thread executes a call from its start to its return.
FairSpec == Spec /\ WF_vars(Step)

-----------------------------------------------------------------------------
(* Where the code goes wrong.  Each state below is one step before a       *)
(* defect; a run of its own shows what it leads to.  SafeSpec stops there, *)
(* and its runs show that nothing else goes wrong.                         *)

\* An update writes none of the record to its first block: the header will be
\* taken for a gap.
EmptyChunk ==
    op.pc = "rewrite" /\ FreeSpaceForInsert(SoftRemove(pages[op.at], op.row.local)) = 0

\* A soft remove at localID 0 zeroes the prev block field.
PrevLost == op.pc = "rewrite" /\ op.row.local = 0 /\ pages[op.at].prev # 0

\* A soft remove cuts the id of the record whose header is next to it.
IdCut == op.pc = "rewrite" /\ CutsID(pages[op.at], op.row.local)

AtTheEnd ==
    op.pc = "place" /\ FreeSpaceForInsert(pages[op.at]) = 0 /\ pages[op.at].next = 0

\* The next block to allocate has been on the list: its old next block is still
\* there and closes a cycle.
Reuse == AtTheEnd /\ \E b \in Blocks : Map!FirstFree(b) /\ pages[b].next # 0

\* No block is left: FirstFree returns the control block.
Exhausted == AtTheEnd /\ Map!FirstFree(0)

Defect == EmptyChunk \/ PrevLost \/ IdCut \/ Reuse \/ Exhausted

SafeSpec == Init /\ [][~Defect /\ Next]_vars /\ WF_vars(~Defect /\ Step)

-----------------------------------------------------------------------------
(* Loading                                                                 *)

\* One chunk of Load: its row, the bytes so far and the rows they came from.
LoadChunk(loaded) ==
    LET row == loaded.row IN
    IF row.block = 0 THEN loaded
    ELSE IF row.block \in Blocks /\ ValidLocalID(pages[row.block], row.local)
      THEN [row |-> ChainedRowID(pages[row.block], row.local),
            data |-> loaded.data \o ReadRecordData(pages[row.block], row.local),
            from |-> loaded.from \cup {row}]
      ELSE [loaded EXCEPT !.row = NoRow, !.data = Absent]

\* Load, for chains that are no longer than there are blocks.
Load(row) ==
    LET loaded[k \in 0 .. Positions] ==
            IF k = 0 THEN [row |-> row, data |-> <<>>, from |-> {}] ELSE LoadChunk(loaded[k - 1])
    IN loaded[Positions]

-----------------------------------------------------------------------------
(* Properties                                                              *)

\* Type invariant; no call panics.
TypeOK ==
    /\ first \in Blocks /\ avail \in Blocks
    /\ index \subseteq held /\ held \subseteq 0 .. Positions - 1
    /\ dirty \subseteq {ControlBlock, MapBlock} \cup Blocks
    /\ \A b \in Blocks : pages[b].used \in 0 .. PageSize
    /\ op.pc \in {"idle", "place", "descend", "remove", "rewrite", "index", "unindex"}

\* FindRecord returns what the last insert or update stored, however often the
\* record was cut into chunks and whatever the calls for other records are doing
\* half way (record_loader.go:21-54, record_allocator.go:72-129).
ReadBack ==
    \A id \in RecordIDs :
        Present(id) /\ (op = Idle \/ op.id # id) => Load(rows[id]).data = content[id]

ListBlocks == held \ (0 .. 2 \cup index)

\* The record blocks are one list from `first` to `avail`, linked both ways
\* (record_allocator.go:131-149, 181-225).
ListIsLinked ==
    op = Idle =>
        /\ {first, avail} \subseteq ListBlocks
        /\ \A b \in ListBlocks :
              /\ IF b = avail THEN pages[b].next = 0
                 ELSE pages[b].next \in ListBlocks /\ pages[pages[b].next].prev = b
              /\ IF b = first THEN pages[b].prev = 0
                 ELSE pages[b].prev \in ListBlocks /\ pages[pages[b].prev].next = b

\* Blocks without records are given back, but for the last of the list
\* (record_allocator.go:171-176).
NoEmptyBlock == op = Idle => \A b \in ListBlocks : b # avail => TotalRecords(pages[b]) > 0

\* On every block, half way through a call too, chunks share no byte and none lies
\* under the headers (record_block.go:109, 117): the free space a block reports to
\* the loops of Add and allocateRecord is really free.
Layout == \A b \in Blocks : LaidOut(pages[b])

\* The running utilization of every block (record_block.go:103, 134, 167, 197) is
\* the sum of the chunks on it, over soft removes and removes of neighbours,
\* defragmentations and blocks given back.
UtilizationIsExact == \A b \in Blocks : Counts(pages[b])

\* Every chunk that lives on a block is part of a record of the index, and lives
\* on a block of the list: deletes and updates leave nothing behind and no record
\* is on a block that the map would give to somebody else
\* (record_allocator.go:151-179, 227-250).
NoOrphans ==
    op = Idle =>
        LET chunks == UNION {Load(rows[id]).from : id \in RecordIDs} IN
        /\ chunks = UNION {{[block |-> b, local |-> i - 1] : i \in Live(pages[b])} : b \in Blocks}
        /\ \A row \in chunks : row.block \in ListBlocks

\* The allocator uses the map of blocks as its specification allows: it frees only
\* blocks it holds, once.
UsesMap == Map!Spec

\* Every call returns.
CallsReturn == op # Idle ~> op = Idle \/ Exhausted

\* Every call returns or comes to one of the states above.
SafeCallsReturn == op # Idle ~> op = Idle \/ Defect
=============================================================================
