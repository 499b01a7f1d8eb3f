---------------------------- MODULE RecordBlock ----------------------------
(***************************************************************************)
(* core/record_block.go: a block as a slotted page.  Record bytes grow     *)
(* from the start of the block, 12-byte headers from its end, below the    *)
(* four 16-bit fields (utilization, headers, next and prev block).         *)
(*                                                                         *)
(* A page is a value: the operators take one and return the changed one.   *)
(* Headers are a sequence (header of localID l at position l + 1), which   *)
(* keeps what the code computes from header addresses; bytes are a         *)
(* function on the page's addresses.  A record id is a natural number      *)
(* whose low half is id % LowIDs (2^16 in the code).                       *)
(***************************************************************************)
EXTENDS Integers, Sequences, FiniteSets

CONSTANTS
    PageSize,      \* DATABLOCK_SIZE
    HeaderSize,    \* RECORD_HEADER_SIZE
    MinUsed,       \* MIN_UTILIZATION
    LowIDs,        \* 2^16: values of the low half of a record id
    ZeroByte,      \* a byte of a new file
    RecordIDs,     \* ids of the records (0 marks a removed one)
    Sizes          \* lengths of record data

ASSUME PageAssumption ==
    /\ HeaderSize \in Nat \ {0} /\ MinUsed \in Nat \ {0} /\ LowIDs \in Nat \ {0}
    /\ PageSize \in Nat /\ PageSize > HeaderSize + MinUsed

ASSUME RecordsAssumption == RecordIDs \subseteq Nat \ {0} /\ Sizes \subseteq Nat \ {0}

\* RowID: where a chunk of a record is; the zero one ends a chain.
NoRow == [block |-> 0, local |-> 0]

EmptyPage == [bytes |-> [a \in 0 .. PageSize - 1 |-> ZeroByte],
              headers |-> <<>>, used |-> 0, next |-> 0, prev |-> 0]

Header(id, start, size) == [id |-> id, start |-> start, size |-> size, chain |-> NoRow]

Shorter(a, b) == IF a < b THEN a ELSE b

-----------------------------------------------------------------------------
(* Reading                                                                 *)

Utilization(p) == IF p.used = 0 THEN MinUsed ELSE p.used

TotalRecords(p) == Cardinality({i \in DOMAIN p.headers : p.headers[i].id # 0})

\* The checks of ChainedRowID, SetChainedRowID and ReadRecordData.
ValidLocalID(p, l) == l < Len(p.headers) /\ p.headers[l + 1].id # 0

ReadRecordData(p, l) ==
    LET h == p.headers[l + 1] IN [k \in 1 .. h.size |-> p.bytes[h.start + k - 1]]

ChainedRowID(p, l) == p.headers[l + 1].chain

\* Mutant: the space of a new header is not set aside.
FreeSpaceForInsert_IgnoresHeader(p) == PageSize - Utilization(p)

\* A header that a removed record left can be taken over; otherwise a new one
\* must fit too.
FreeSpaceForInsert(p) ==
    LET free == PageSize - Utilization(p) IN
    IF \E i \in DOMAIN p.headers : p.headers[i].id = 0 THEN free
    ELSE IF free > HeaderSize THEN free - HeaderSize ELSE 0

-----------------------------------------------------------------------------
(* Add                                                                     *)

\* The orders sort.Sort may give the headers: by start, ties in any order
\* (the sort is not stable).
Orders(headers) ==
    {o \in [DOMAIN headers -> DOMAIN headers] :
        /\ \A i, j \in DOMAIN headers : o[i] = o[j] => i = j
        /\ \A i, j \in DOMAIN headers : i < j => headers[o[i]].start <= headers[o[j]].start}

\* The loop that copies n bytes upwards one by one: bytes that the loop itself
\* has already written are read again when the target is inside the source.
CopyBytes(bytes, from, to, n) ==
    [a \in DOMAIN bytes |->
        IF a \in to .. to + n - 1
          THEN bytes[from + IF from < to THEN (a - to) % (to - from) ELSE a - to]
          ELSE bytes[a]]

\* Mutant: the record moves, its header does not follow.
ShiftDown_KeepsStart(acc, m) ==
    LET h == acc.page.headers[m] IN
    [page |-> [acc.page EXCEPT !.bytes = CopyBytes(@, h.start, acc.ptr, h.size)],
     ptr |-> acc.ptr + h.size]

\* Move the record of header m down to ptr.
ShiftDown(acc, m) ==
    LET h == acc.page.headers[m] IN
    [page |-> [acc.page EXCEPT !.bytes = CopyBytes(@, h.start, acc.ptr, h.size),
                               !.headers[m].start = acc.ptr],
     ptr |-> acc.ptr + h.size]

\* What lies behind the gap, moved down record by record.
ShiftAll(p, order, i) ==
    LET moved[j \in i .. Len(p.headers)] ==
            IF j = i THEN [page |-> p, ptr |-> p.headers[order[i]].start]
            ELSE ShiftDown(moved[j - 1], order[j])
    IN moved[Len(p.headers)]

\* One round of defragment: the bytes of a removed record (id 0, size left) or
\* of a soft removed one (size 0, id left) are closed up.
CloseGap(p, order, i) ==
    LET g == p.headers[order[i]]
        end == ShiftAll(p, order, i)
    IN IF (g.id = 0) = (g.size = 0) THEN p
       ELSE [end.page EXCEPT !.headers[order[i]].size = 0,
                             !.headers[order[i]].start = end.ptr]

Defragment(p, order) ==
    LET rounds[i \in 0 .. Len(p.headers)] ==
            IF i = 0 THEN p ELSE CloseGap(rounds[i - 1], order, i)
    IN rounds[Len(p.headers)]

Least(S) == CHOOSE x \in S : \A y \in S : x <= y

\* Mutant: a removed header is preferred to the record's own.
HeaderFor_DeadFirst(p, order, id) ==
    LET own  == {i \in DOMAIN order : p.headers[order[i]].id = id}
        dead == {i \in DOMAIN order : p.headers[order[i]].id = 0}
    IN IF dead # {} THEN order[Least(dead)] ELSE IF own # {} THEN order[Least(own)] ELSE 0

\* The header Add writes: the record's own, else the first removed one in
\* order, else (0) a new one.
HeaderFor(p, order, id) ==
    LET own  == {i \in DOMAIN order : p.headers[order[i]].id = id}
        dead == {i \in DOMAIN order : p.headers[order[i]].id = 0}
    IN IF own # {} THEN order[Least(own)] ELSE IF dead # {} THEN order[Least(dead)] ELSE 0

\* Put data behind the records of a page with `count` headers, in that at position h.
WriteRecord(p, used, count, h, id, data) ==
    LET start == used - MinUsed - count * HeaderSize IN
    [p EXCEPT !.headers[h] = Header(id, start, Len(data)),
              !.bytes = [a \in DOMAIN @ |->
                            IF a \in start .. start + Len(data) - 1
                              THEN data[a - start + 1] ELSE @[a]],
              !.used = used + Len(data)]

\* Add: the page and the localID it returns.
AddResult(p, order, id, data) ==
    LET h == HeaderFor(p, order, id)
        n == Len(p.headers)
    IN IF h # 0
         THEN [page |-> WriteRecord(Defragment(p, order), Utilization(p), n, h, id, data),
               local |-> h - 1]
         ELSE [page |-> WriteRecord([p EXCEPT !.headers = Append(@, Header(id, 0, 0))],
                                    Utilization(p) + HeaderSize, n + 1, n + 1, id, data),
               local |-> n]

Add(p, id, data) == {AddResult(p, order, id, data) : order \in Orders(p.headers)}

-----------------------------------------------------------------------------
(* Removing                                                                *)

\* Mutant: the header's space is given back as well.
Remove_FreesHeader(p, l) ==
    [p EXCEPT !.headers[l + 1].id = 0,
              !.used = Utilization(p) - p.headers[l + 1].size - HeaderSize]

\* Remove: the header stays, and with it the size of the gap.
Remove(p, l) ==
    [p EXCEPT !.headers[l + 1].id = 0,
              !.used = Utilization(p) - p.headers[l + 1].size]

\* The three 32-bit zeros SoftRemove writes over 16-bit fields end two bytes
\* behind the header: on the high half of the id of the header above it, or on
\* the prev block field when there is none.
OverrunSoftRemove(p, l) ==
    IF l = 0 THEN [p EXCEPT !.prev = 0]
    ELSE [p EXCEPT !.headers[l].id = @ % LowIDs]

\* The id above is one that has a high half.
CutsID(p, l) == l # 0 /\ p.headers[l].id >= LowIDs

\* SoftRemove: the id stays, size and chain go.
SoftRemove(p, l) ==
    OverrunSoftRemove(
        [p EXCEPT !.headers[l + 1].size = 0,
                  !.headers[l + 1].chain = NoRow,
                  !.used = Utilization(p) - p.headers[l + 1].size], l)

Clear(p) == [p EXCEPT !.headers = <<>>, !.used = 0]

SetChainedRowID(p, l, row) ==
    IF ValidLocalID(p, l) THEN [p EXCEPT !.headers[l + 1].chain = row] ELSE p

-----------------------------------------------------------------------------
(* What a model of pages needs besides                                     *)

\* n bytes that no other record or length shares.
Data(id, n) == [k \in 1 .. n |-> <<id, n, k>>]

\* The data of a record that is not there: 0 is no record's id.
Absent == Data(0, 1)

Live(p) == {i \in DOMAIN p.headers : p.headers[i].id # 0}

Extent(p, i) == p.headers[i].start .. p.headers[i].start + p.headers[i].size - 1

\* No two records share a byte and none lies under the headers.
LaidOut(p) ==
    /\ Utilization(p) <= PageSize
    /\ \A i \in Live(p) : Extent(p, i) \subseteq 0 .. PageSize - MinUsed - Len(p.headers) * HeaderSize - 1
    /\ \A i, j \in Live(p) : i # j => Extent(p, i) \cap Extent(p, j) = {}

\* The utilization is the sum of what the block holds.
Counts(p) ==
    Utilization(p) = MinUsed + Len(p.headers) * HeaderSize
                       + Cardinality(UNION {Extent(p, i) : i \in Live(p)})

\* Bytes that belong to no record are forgotten: the code keeps whatever was
\* there, and nothing may depend on it.
Forget(p) ==
    [p EXCEPT !.bytes = [a \in DOMAIN @ |->
        IF \E i \in Live(p) : a \in Extent(p, i) THEN @[a] ELSE ZeroByte]]
=============================================================================
