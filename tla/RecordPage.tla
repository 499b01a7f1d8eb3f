----------------------------- MODULE RecordPage -----------------------------
(***************************************************************************)
(* One record block under the calls core/record_allocator.go makes on it:  *)
(* chunks of records are inserted, updated and deleted in any order, each  *)
(* cut to the space the block says it has.  What does not fit goes to      *)
(* other blocks and is not seen here.                                      *)
(***************************************************************************)
EXTENDS RecordBlock

CONSTANT Links   \* values of the next and prev block fields

VARIABLES
    page,
    chunk,     \* what this block should hold of each record, or Absent
    local      \* the localID its row id names

vars == <<page, chunk, local>>

Present(id) == chunk[id] # Absent

Init ==
    \E next, prev \in Links :
        /\ page = [EmptyPage EXCEPT !.next = next, !.prev = prev]
        /\ chunk = [id \in RecordIDs |-> Absent]
        /\ local = [id \in RecordIDs |-> 0]

\* allocateRecord on a block that has space, for a record new to it.
Insert(id, n) ==
    /\ ~Present(id)
    /\ FreeSpaceForInsert(page) > 0
    /\ LET m == Shorter(n, FreeSpaceForInsert(page)) IN
       \E r \in Add(page, id, Data(id, m)) :
          /\ page' = Forget(r.page)
          /\ local' = [local EXCEPT ![id] = r.local]
          /\ chunk' = [chunk EXCEPT ![id] = Data(id, m)]

\* Update: soft remove, then add what fits, which may be nothing.
Update(id, n) ==
    /\ Present(id)
    /\ ValidLocalID(page, local[id])
    /\ LET soft == SoftRemove(page, local[id])
           m == Shorter(n, FreeSpaceForInsert(soft))
       IN \E r \in Add(soft, id, Data(id, m)) :
             /\ page' = Forget(r.page)
             /\ local' = [local EXCEPT ![id] = r.local]
             /\ chunk' = [chunk EXCEPT ![id] = Data(id, m)]

\* Remove; a block left without records is cleared when removeFromList unlinks
\* it, which it does when there is a next block.
Delete(id) ==
    /\ Present(id)
    /\ ValidLocalID(page, local[id])
    /\ LET p == Remove(page, local[id]) IN
       page' = IF TotalRecords(p) = 0 /\ p.next # 0 THEN Forget(Clear(p)) ELSE Forget(p)
    /\ chunk' = [chunk EXCEPT ![id] = Absent]
    /\ UNCHANGED local

Next ==
    \E id \in RecordIDs :
        \/ \E n \in Sizes : Insert(id, n) \/ Update(id, n)
        \/ Delete(id)

Spec == Init /\ [][Next]_vars

-----------------------------------------------------------------------------
(* Where the code goes wrong; a run of its own shows what each leads to.   *)
(* SafeSpec leaves these two steps out, and nothing else.                  *)

\* An update leaves a record with no byte on the block: its header will be taken
\* for a gap.
NoEmptyChunk == \A id \in RecordIDs : chunk[id] # <<>>

\* An update cuts the id of the record whose header is next to its own.
IdCut(id) == Present(id) /\ CutsID(page, local[id])

SafeNext ==
    \E id \in RecordIDs :
        \/ \E n \in Sizes : Insert(id, n) \/ (~IdCut(id) /\ Update(id, n))
        \/ Delete(id)

SafeSpec == Init /\ [][SafeNext /\ NoEmptyChunk']_vars

-----------------------------------------------------------------------------
(* Properties                                                              *)

\* Type invariant: the page's fields stay in their widths.
TypeOK ==
    /\ page.used \in 0 .. PageSize
    /\ DOMAIN page.bytes = 0 .. PageSize - 1
    /\ \A i \in DOMAIN page.headers :
          /\ page.headers[i].id \in Nat
          /\ page.headers[i].start \in 0 .. PageSize - 1
          /\ page.headers[i].size \in 0 .. PageSize
    /\ \A id \in RecordIDs : Present(id) => local[id] \in 0 .. Len(page.headers) - 1

\* A record reads back as last written, whatever inserts, updates, deletes and
\* defragmentations of its neighbours came after (record_block.go:283-302,
\* 327-364).
ReadBack ==
    \A id \in RecordIDs : Present(id) =>
        /\ ValidLocalID(page, local[id])
        /\ page.headers[local[id] + 1].id = id
        /\ ReadRecordData(page, local[id]) = chunk[id]

\* Records share no byte and none lies under the headers (record_block.go:109,
\* 117): the free space the block reports is really free.
Layout == LaidOut(page)

\* The running utilization (record_block.go:103, 134, 167, 197) is the sum of
\* what the block holds, so no space is lost or handed out twice.
UtilizationIsExact == Counts(page)

\* "Something weird happened while updating the record, its local ID changed"
\* (record_allocator.go:245-247): the assertion after an update's Add.
LocalIDStays ==
    [][\A id \in RecordIDs : Present(id) /\ Present(id)' => local'[id] = local[id]]_vars
=============================================================================
