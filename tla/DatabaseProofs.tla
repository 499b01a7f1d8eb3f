--------------------------- MODULE DatabaseProofs ---------------------------
(***************************************************************************)
(* The map of blocks in use, across evictions, closing and opening, and    *)
(* formatting cut short: every block somebody owns is in use in it, for    *)
(* files, blocks and records of any size, any number of records and calls. *)
(*                                                                         *)
(* Two positions of the map share a bit, so that freeing the wrong block   *)
(* would free one that is owned.  A block is freed where a row id says,    *)
(* and a row id may come from a page that was read again from the file,    *)
(* which Remove did not mark: what has to be shown is that a row id in any *)
(* copy of any page names a block that the map hands out (Fine).           *)
(***************************************************************************)
EXTENDS Database, RecordBlockProofs

-----------------------------------------------------------------------------
(* Pages                                                                   *)

\* The blocks for records and the index, without the second of each pair that shares a bit.
FineBlocks == {b \in Blocks : b % 8 # 1}

FineLink(b) == b \in FineBlocks \cup {0}

\* A chunk's row id; NoRow ends a chain.
ChunkRows == [block : FineBlocks, local : Nat]
FineRows == [block : FineBlocks \cup {0}, local : Nat]

FineRow(row) == row \in FineRows

FineHeader(e) ==
    /\ e = [id |-> e.id, start |-> e.start, size |-> e.size, chain |-> e.chain]
    /\ FineRow(e.chain)

FineHeaders(hs) == \E S : hs \in Seq(S) /\ \A e \in S : FineHeader(e)

\* A page whose links name fine blocks, whatever else it holds.
FinePage(p) ==
    /\ p = [bytes |-> p.bytes, headers |-> p.headers, used |-> p.used, next |-> p.next, prev |-> p.prev]
    /\ FineHeaders(p.headers)
    /\ FineLink(p.next)

\* The page has as many headers as before.
FineLike(q, p) == FinePage(q) /\ Len(q.headers) = Len(p.headers)

\* A row id ends a chain when it is not set.
LEMMA NoRowIsFine == FineRow(NoRow)
BY DEF FineRow, FineRows, NoRow

\* A new page has no headers.
LEMMA EmptyPageIsFine == FinePage(EmptyPage)
<1>1. FineHeaders(<<>>)
  <2> PICK S : S = {}
    OBVIOUS
  <2>1. <<>> \in Seq(S) /\ \A e \in S : FineHeader(e)
    OBVIOUS
  <2>. QED
    BY <2>1, Zenon DEF FineHeaders
<1>. QED
  BY <1>1 DEF FinePage, EmptyPage, FineLink

\* The headers of a page are fine.
LEMMA HeaderAt ==
    ASSUME NEW hs, FineHeaders(hs)
    PROVE  /\ Len(hs) \in Nat /\ DOMAIN hs = 1 .. Len(hs)
           /\ \A m \in 1 .. Len(hs) : FineHeader(hs[m])
<1>1. PICK S : hs \in Seq(S) /\ \A e \in S : FineHeader(e)
  BY Zenon DEF FineHeaders
<1>2. \A m \in 1 .. Len(hs) : hs[m] \in S
  BY <1>1
<1>. QED
  BY <1>1, <1>2

HeaderSet(hs, m, e) == [hs EXCEPT ![m] = e]

\* One header is written (record_block.go:117-130, 351-360).
LEMMA HeaderPut ==
    ASSUME NEW hs, FineHeaders(hs), NEW m, NEW e, m \in 1 .. Len(hs) => FineHeader(e)
    PROVE  FineHeaders(HeaderSet(hs, m, e)) /\ Len(HeaderSet(hs, m, e)) = Len(hs)
<1>1. PICK S : hs \in Seq(S) /\ \A h \in S : FineHeader(h)
  BY Zenon DEF FineHeaders
<1> PICK t : t = HeaderSet(hs, m, e)
  OBVIOUS
<1>2. CASE m \in 1 .. Len(hs)
  <2>1. t \in Seq(S \cup {e}) /\ Len(t) = Len(hs)
    BY <1>1, <1>2 DEF HeaderSet
  <2>2. \A h \in S \cup {e} : FineHeader(h)
    BY <1>1, <1>2
  <2>. QED
    BY <2>1, <2>2, Zenon DEF FineHeaders
<1>3. CASE m \notin 1 .. Len(hs)
  <2>1. t = hs
    BY <1>1, <1>3 DEF HeaderSet
  <2>. QED
    BY <2>1
<1>. QED
  BY <1>2, <1>3

\* A header is appended (record_block.go:96-103).
LEMMA HeaderAppended ==
    ASSUME NEW hs, FineHeaders(hs), NEW e, FineHeader(e)
    PROVE  FineHeaders(Append(hs, e)) /\ Len(Append(hs, e)) = Len(hs) + 1
<1>1. PICK S : hs \in Seq(S) /\ \A h \in S : FineHeader(h)
  BY Zenon DEF FineHeaders
<1>2. Append(hs, e) \in Seq(S \cup {e}) /\ Len(Append(hs, e)) = Len(hs) + 1
  BY <1>1
<1>3. \A h \in S \cup {e} : FineHeader(h)
  BY <1>1
<1>. QED
  BY <1>2, <1>3, Zenon DEF FineHeaders

\* A header of Add.
LEMMA NewHeaderIsFine ==
    ASSUME NEW id, NEW start, NEW size
    PROVE  FineHeader(Header(id, start, size))
BY NoRowIsFine DEF FineHeader, Header

WithBytes(p, v) == [p EXCEPT !.bytes = v]
WithUsed(p, v) == [p EXCEPT !.used = v]
WithNext(p, v) == [p EXCEPT !.next = v]
WithPrev(p, v) == [p EXCEPT !.prev = v]
WithHeaders(p, v) == [p EXCEPT !.headers = v]
WithHeader(p, m, e) == [p EXCEPT !.headers[m] = e]
WithId(p, m, v) == [p EXCEPT !.headers[m].id = v]
WithStart(p, m, v) == [p EXCEPT !.headers[m].start = v]
WithSize(p, m, v) == [p EXCEPT !.headers[m].size = v]
WithChain(p, m, v) == [p EXCEPT !.headers[m].chain = v]

\* A field of a page changes that is no link.
LEMMA PageFieldPut ==
    ASSUME NEW p, FinePage(p), NEW v
    PROVE  /\ FineLike(WithBytes(p, v), p) /\ FineLike(WithUsed(p, v), p)
           /\ FineLike(WithPrev(p, v), p)
BY DEF FineLike, FinePage, WithBytes, WithUsed, WithPrev

\* The link to the next block does.
LEMMA PageNextPut ==
    ASSUME NEW p, FinePage(p), NEW v, FineLink(v)
    PROVE  FineLike(WithNext(p, v), p)
BY DEF FineLike, FinePage, WithNext

\* The headers do.
LEMMA PageHeadersPut ==
    ASSUME NEW p, FinePage(p), NEW v, FineHeaders(v)
    PROVE  FinePage(WithHeaders(p, v)) /\ WithHeaders(p, v).headers = v
BY DEF FinePage, WithHeaders

\* One header is written.
LEMMA PageHeaderPut ==
    ASSUME NEW p, FinePage(p), NEW m, NEW e, m \in 1 .. Len(p.headers) => FineHeader(e)
    PROVE  FineLike(WithHeader(p, m, e), p)
<1> PICK hs : hs = p.headers
  OBVIOUS
<1> PICK t : t = HeaderSet(hs, m, e)
  OBVIOUS
<1>1. FineHeaders(t) /\ Len(t) = Len(hs)
  <2>1. FineHeaders(hs) /\ (m \in 1 .. Len(hs) => FineHeader(e))
    BY DEF FinePage
  <2>. QED
    BY <2>1, HeaderPut
<1>2. WithHeader(p, m, e) = WithHeaders(p, t)
  BY Zenon DEF WithHeader, WithHeaders, HeaderSet
<1>3. FinePage(WithHeaders(p, t)) /\ WithHeaders(p, t).headers = t
  BY <1>1, PageHeadersPut
<1>. QED
  BY <1>1, <1>2, <1>3 DEF FineLike

\* One field of a header is written that is no link.
LEMMA PageHeaderFieldPut ==
    ASSUME NEW p, FinePage(p), NEW m, NEW v
    PROVE  /\ FineLike(WithId(p, m, v), p) /\ FineLike(WithStart(p, m, v), p)
           /\ FineLike(WithSize(p, m, v), p)
<1> PICK h : h = p.headers[m]
  OBVIOUS
<1> PICK d : d = [h EXCEPT !.id = v]
  OBVIOUS
<1> PICK e : e = [h EXCEPT !.start = v]
  OBVIOUS
<1> PICK f : f = [h EXCEPT !.size = v]
  OBVIOUS
<1>1. m \in 1 .. Len(p.headers) => FineHeader(h)
  BY HeaderAt DEF FinePage
<1>2. m \in 1 .. Len(p.headers) => FineHeader(d) /\ FineHeader(e) /\ FineHeader(f)
  BY <1>1 DEF FineHeader
<1>3. /\ FineLike(WithHeader(p, m, d), p) /\ FineLike(WithHeader(p, m, e), p)
      /\ FineLike(WithHeader(p, m, f), p)
  BY <1>2, PageHeaderPut
<1>4. /\ WithId(p, m, v) = WithHeader(p, m, d) /\ WithStart(p, m, v) = WithHeader(p, m, e)
      /\ WithSize(p, m, v) = WithHeader(p, m, f)
  BY Zenon DEF WithId, WithStart, WithSize, WithHeader
<1>. QED
  BY <1>3, <1>4

\* A header's link is.
LEMMA PageChainPut ==
    ASSUME NEW p, FinePage(p), NEW m, NEW v, FineRow(v)
    PROVE  FineLike(WithChain(p, m, v), p)
<1> PICK h : h = p.headers[m]
  OBVIOUS
<1> PICK e : e = [h EXCEPT !.chain = v]
  OBVIOUS
<1>1. m \in 1 .. Len(p.headers) => FineHeader(h)
  BY HeaderAt DEF FinePage
<1>2. m \in 1 .. Len(p.headers) => FineHeader(e)
  BY <1>1 DEF FineHeader
<1>3. FineLike(WithHeader(p, m, e), p)
  BY <1>2, PageHeaderPut
<1>4. WithChain(p, m, v) = WithHeader(p, m, e)
  BY Zenon DEF WithChain, WithHeader
<1>. QED
  BY <1>3, <1>4

\* One change after the other.
LEMMA FineLikeTwice ==
    ASSUME NEW p, NEW q, FineLike(q, p), NEW r, FineLike(r, q)
    PROVE  FineLike(r, p)
BY DEF FineLike

-----------------------------------------------------------------------------
(* The operations of a page keep its links fine                            *)

\* The bytes of a record are moved (record_block.go:347-353).
LEMMA ShiftDownFine ==
    ASSUME NEW acc, FinePage(acc.page), NEW m
    PROVE  FineLike(ShiftDown(acc, m).page, acc.page)
<1> PICK p : p = acc.page
  OBVIOUS
<1> PICK bs : bs = CopyBytes(p.bytes, p.headers[m].start, acc.ptr, p.headers[m].size)
  OBVIOUS
<1> PICK to : to = acc.ptr
  OBVIOUS
<1> PICK q : q = WithBytes(p, bs)
  OBVIOUS
<1>1. FineLike(q, p)
  BY PageFieldPut
<1>2. FineLike(WithStart(q, m, to), q)
  BY <1>1, PageHeaderFieldPut DEF FineLike
<1>3. ShiftDown(acc, m).page = WithStart(q, m, to)
  <2>1. [p EXCEPT !.bytes = bs, !.headers[m].start = to] = WithStart(q, m, to)
    BY Zenon DEF WithStart, WithBytes
  <2>. QED
    BY <2>1 DEF ShiftDown
<1>. QED
  BY <1>1, <1>2, <1>3, FineLikeTwice

\* So are those of all records behind a gap.
LEMMA ShiftAllFine ==
    ASSUME NEW p, FinePage(p), NEW order, NEW i \in 1 .. Len(p.headers)
    PROVE  FineLike(ShiftAll(p, order, i).page, p)
<1> PICK n : n = Len(p.headers)
  OBVIOUS
<1>1. n \in Nat
  BY HeaderAt DEF FinePage
<1>2. PICK moved : ShiftLoop(moved, p, order, i, n)
  BY <1>1, ShiftAllIs
<1> DEFINE Good(j) == FineLike(moved[j].page, p)
           bad == {j \in i .. n : ~Good(j)}
<1>3. Good(i)
  <2>1. moved[i].page = p
    BY <1>2 DEF ShiftLoop
  <2>. QED
    BY <2>1 DEF FineLike
<1>4. ASSUME NEW j \in i .. n, j # i, Good(j - 1) PROVE Good(j)
  <2>1. j \in i + 1 .. n
    BY <1>1, <1>4
  <2>2. moved[j] = ShiftDown(moved[j - 1], order[j])
    BY <2>1, <1>2 DEF ShiftLoop
  <2>3. FineLike(ShiftDown(moved[j - 1], order[j]).page, moved[j - 1].page)
    BY <1>4, ShiftDownFine DEF FineLike
  <2>. QED
    BY <1>4, <2>2, <2>3, FineLikeTwice
<1> HIDE DEF Good
<1>5. bad = {}
  <2> SUFFICES ASSUME bad # {} PROVE FALSE
    OBVIOUS
  <2>1. PICK m \in bad : \A k \in bad : m <= k
    <3>1. bad \in SUBSET Nat
      BY <1>1
    <3> HIDE DEF bad
    <3>. QED
      BY <3>1, LeastNatural, Zenon
  <2>2. m # i
    BY <1>3
  <2>3. m - 1 \in i .. n /\ m - 1 \notin bad
    BY <1>1, <2>1, <2>2
  <2>. QED
    BY <1>4, <2>2, <2>3
<1>6. Good(n)
  BY <1>1, <1>5
<1>. QED
  BY <1>2, <1>6 DEF Good, ShiftLoop

\* A gap is closed (record_block.go:343-360).
LEMMA CloseGapFine ==
    ASSUME NEW p, FinePage(p), NEW order, NEW i \in 1 .. Len(p.headers)
    PROVE  FineLike(CloseGap(p, order, i), p)
<1> PICK end : end = ShiftAll(p, order, i)
  OBVIOUS
<1> PICK m : m = order[i]
  OBVIOUS
<1> PICK to : to = end.ptr
  OBVIOUS
<1> PICK q : q = WithSize(end.page, m, 0)
  OBVIOUS
<1>1. FineLike(end.page, p)
  BY ShiftAllFine
<1>2. FineLike(q, end.page)
  BY <1>1, PageHeaderFieldPut DEF FineLike
<1>3. FineLike(WithStart(q, m, to), q)
  BY <1>2, PageHeaderFieldPut DEF FineLike
<1>4. FineLike(WithStart(q, m, to), p)
  BY <1>1, <1>2, <1>3, FineLikeTwice
<1>5. CloseGap(p, order, i) = p \/ CloseGap(p, order, i) = WithStart(q, m, to)
  BY Zenon DEF CloseGap, WithStart, WithSize
<1>. QED
  BY <1>4, <1>5 DEF FineLike

\* All gaps are (record_block.go:330-361).
LEMMA DefragmentFine ==
    ASSUME NEW p, FinePage(p), NEW order
    PROVE  FineLike(Defragment(p, order), p)
<1> PICK n : n = Len(p.headers)
  OBVIOUS
<1>1. n \in Nat
  BY HeaderAt DEF FinePage
<1>2. PICK rounds : DefragmentLoop(rounds, p, order, n)
  BY <1>1, DefragmentIs
<1> DEFINE Good(i) == FineLike(rounds[i], p)
           bad == {i \in 0 .. n : ~Good(i)}
<1>3. Good(0)
  BY <1>2 DEF DefragmentLoop, FineLike
<1>4. ASSUME NEW i \in 0 .. n, i # 0, Good(i - 1) PROVE Good(i)
  <2>1. i \in 1 .. n
    BY <1>1, <1>4
  <2>2. rounds[i] = CloseGap(rounds[i - 1], order, i)
    BY <2>1, <1>2 DEF DefragmentLoop
  <2>3. FineLike(CloseGap(rounds[i - 1], order, i), rounds[i - 1])
    <3>1. FinePage(rounds[i - 1]) /\ i \in 1 .. Len(rounds[i - 1].headers)
      BY <1>4, <2>1 DEF FineLike
    <3>. QED
      BY <3>1, CloseGapFine
  <2>. QED
    BY <1>4, <2>2, <2>3, FineLikeTwice
<1> HIDE DEF Good
<1>5. bad = {}
  <2> SUFFICES ASSUME bad # {} PROVE FALSE
    OBVIOUS
  <2>1. PICK m \in bad : \A k \in bad : m <= k
    <3>1. bad \in SUBSET Nat
      BY <1>1
    <3> HIDE DEF bad
    <3>. QED
      BY <3>1, LeastNatural, Zenon
  <2>2. m # 0
    BY <1>3
  <2>3. m - 1 \in 0 .. n /\ m - 1 \notin bad
    BY <1>1, <2>1, <2>2
  <2>. QED
    BY <1>4, <2>2, <2>3
<1>6. Good(n)
  BY <1>1, <1>5
<1>. QED
  BY <1>2, <1>6 DEF Good, DefragmentLoop

\* The header Add writes to is one of the page, or a new one (record_block.go:79-103).
LEMMA HeaderForFine ==
    ASSUME NEW p, FinePage(p), NEW order \in Orders(p.headers), NEW id
    PROVE  HeaderFor(p, order, id) \in Nat
<1>1. DOMAIN p.headers = 1 .. Len(p.headers) /\ Len(p.headers) \in Nat
  BY HeaderAt DEF FinePage
<1>2. order \in [1 .. Len(p.headers) -> 1 .. Len(p.headers)]
  BY <1>1 DEF Orders
<1>3. DOMAIN order = 1 .. Len(p.headers) /\ \A k \in DOMAIN order : order[k] \in Nat
  BY <1>1, <1>2
<1>4. ASSUME NEW T \in SUBSET DOMAIN order, T # {} PROVE order[Least(T)] \in Nat
  <2>1. T \in SUBSET Nat
    BY <1>1, <1>3, <1>4
  <2>2. \E x \in T : \A y \in T : x <= y
    BY <2>1, <1>4, LeastNatural
  <2>3. Least(T) \in T
    BY <2>2, Zenon DEF Least
  <2>. QED
    BY <2>3, <1>3, <1>4
<1> DEFINE own == {i \in DOMAIN order : p.headers[order[i]].id = id}
           dead == {i \in DOMAIN order : p.headers[order[i]].id = 0}
<1>5. own # {} => order[Least(own)] \in Nat
  <2>1. own \in SUBSET DOMAIN order
    OBVIOUS
  <2> HIDE DEF own
  <2>. QED
    BY <2>1, <1>4
<1>6. dead # {} => order[Least(dead)] \in Nat
  <2>1. dead \in SUBSET DOMAIN order
    OBVIOUS
  <2> HIDE DEF dead
  <2>. QED
    BY <2>1, <1>4
<1>7. HeaderFor(p, order, id) =
        IF own # {} THEN order[Least(own)] ELSE IF dead # {} THEN order[Least(dead)] ELSE 0
  BY Zenon DEF HeaderFor
<1>. QED
  BY <1>5, <1>6, <1>7

\* A record is written (record_block.go:109-141).
LEMMA WriteRecordFine ==
    ASSUME NEW p, FinePage(p), NEW used, NEW count, NEW h, NEW id, NEW data
    PROVE  FinePage(WriteRecord(p, used, count, h, id, data))
<1> PICK e : e = Header(id, used - MinUsed - count * HeaderSize, Len(data))
  OBVIOUS
<1> PICK u : u = used + Len(data)
  OBVIOUS
<1> PICK q : q = WithHeader(p, h, e)
  OBVIOUS
<1>1. FineHeader(e)
  BY NewHeaderIsFine
<1>2. FineLike(q, p)
  BY <1>1, PageHeaderPut
<1>3. PICK bs : WriteRecord(p, used, count, h, id, data) = WithUsed(WithBytes(q, bs), u)
  <2> DEFINE start == used - MinUsed - count * HeaderSize
             new == [a \in DOMAIN q.bytes |-> IF a \in start .. start + Len(data) - 1
                              THEN data[a - start + 1] ELSE q.bytes[a]]
  <2>1. WriteRecord(p, used, count, h, id, data) = WithUsed(WithBytes(q, new), u)
    BY Zenon DEF WriteRecord, WithUsed, WithBytes, WithHeader
  <2>. QED
    BY <2>1, Zenon
<1>4. FinePage(WithBytes(q, bs))
  BY <1>2, PageFieldPut DEF FineLike
<1>5. FinePage(WithUsed(WithBytes(q, bs), u))
  BY <1>4, PageFieldPut DEF FineLike
<1>. QED
  BY <1>3, <1>5

\* Add leaves a page whose links are fine, and returns a local id (record_block.go:72-146).
LEMMA AddFine ==
    ASSUME NEW p, FinePage(p), NEW id, NEW data, NEW r \in Add(p, id, data)
    PROVE  FinePage(r.page) /\ r.local \in Nat
<1>1. PICK order \in Orders(p.headers) : r = AddResult(p, order, id, data)
  BY Zenon DEF Add
<1> PICK h : h = HeaderFor(p, order, id)
  OBVIOUS
<1> PICK n : n = Len(p.headers)
  OBVIOUS
<1>2. h \in Nat /\ n \in Nat
  BY HeaderForFine, HeaderAt DEF FinePage
<1>3. CASE h # 0
  <2> PICK d : d = Defragment(p, order)
    OBVIOUS
  <2>1. FinePage(d)
    BY DefragmentFine DEF FineLike
  <2> PICK q : q = WriteRecord(d, Utilization(p), n, h, id, data)
    OBVIOUS
  <2>2. FinePage(q)
    BY <2>1, WriteRecordFine
  <2>3. r = [page |-> q, local |-> h - 1]
    BY <1>1, <1>3, Zenon DEF AddResult
  <2>. QED
    BY <2>2, <2>3, <1>2, <1>3
<1>4. CASE h = 0
  <2> PICK hs : hs = Append(p.headers, Header(id, 0, 0))
    OBVIOUS
  <2>1. FineHeaders(hs)
    BY NewHeaderIsFine, HeaderAppended DEF FinePage
  <2> PICK d : d = WithHeaders(p, hs)
    OBVIOUS
  <2>2. FinePage(d)
    BY <2>1, PageHeadersPut
  <2> PICK q : q = WriteRecord(d, Utilization(p) + HeaderSize, n + 1, n + 1, id, data)
    OBVIOUS
  <2>3. FinePage(q)
    BY <2>2, WriteRecordFine
  <2>4. r = [page |-> q, local |-> n]
    BY <1>1, <1>4, Zenon DEF AddResult, WithHeaders
  <2>. QED
    BY <2>3, <2>4, <1>2
<1>. QED
  BY <1>3, <1>4

\* Remove (record_block.go:148-173).
LEMMA RemoveFine ==
    ASSUME NEW p, FinePage(p), NEW l
    PROVE  FinePage(Remove(p, l))
<1> PICK u : u = Utilization(p) - p.headers[l + 1].size
  OBVIOUS
<1> PICK q : q = WithId(p, l + 1, 0)
  OBVIOUS
<1>1. FinePage(q)
  BY PageHeaderFieldPut DEF FineLike
<1>2. FinePage(WithUsed(q, u))
  BY <1>1, PageFieldPut DEF FineLike
<1>3. Remove(p, l) = WithUsed(q, u)
  BY Zenon DEF Remove, WithUsed, WithId
<1>. QED
  BY <1>2, <1>3

\* SoftRemove, with what it writes behind its header (record_block.go:175-203).
LEMMA SoftRemoveFine ==
    ASSUME NEW p, FinePage(p), NEW l
    PROVE  FinePage(SoftRemove(p, l))
<1> PICK u : u = Utilization(p) - p.headers[l + 1].size
  OBVIOUS
<1> PICK q : q = WithSize(p, l + 1, 0)
  OBVIOUS
<1> PICK r : r = WithChain(q, l + 1, NoRow)
  OBVIOUS
<1> PICK s : s = WithUsed(r, u)
  OBVIOUS
<1> PICK id : id = s.headers[l].id % LowIDs
  OBVIOUS
<1>1. FinePage(q)
  BY PageHeaderFieldPut DEF FineLike
<1>2. FinePage(r)
  BY <1>1, PageChainPut, NoRowIsFine DEF FineLike
<1>3. FinePage(s)
  BY <1>2, PageFieldPut DEF FineLike
<1>4. FinePage(WithPrev(s, 0))
  BY <1>3, PageFieldPut DEF FineLike
<1>5. FinePage(WithId(s, l, id))
  BY <1>3, PageHeaderFieldPut DEF FineLike
<1>6. SoftRemove(p, l) = OverrunSoftRemove(s, l)
  BY Zenon DEF SoftRemove, WithSize, WithChain, WithUsed
<1>7. OverrunSoftRemove(s, l) = WithPrev(s, 0) \/ OverrunSoftRemove(s, l) = WithId(s, l, id)
  BY Zenon DEF OverrunSoftRemove, WithPrev, WithId
<1>. QED
  BY <1>4, <1>5, <1>6, <1>7

\* Clear (record_block.go:205-208).
LEMMA ClearFine ==
    ASSUME NEW p, FinePage(p)
    PROVE  FinePage(Clear(p))
<1> PICK q : q = WithHeaders(p, <<>>)
  OBVIOUS
<1>1. FinePage(q)
  <2>1. FineHeaders(<<>>)
    BY EmptyPageIsFine DEF FinePage, EmptyPage
  <2>. QED
    BY <2>1, PageHeadersPut
<1>2. FinePage(WithUsed(q, 0))
  BY <1>1, PageFieldPut DEF FineLike
<1>3. Clear(p) = WithUsed(q, 0)
  BY Zenon DEF Clear, WithHeaders, WithUsed
<1>. QED
  BY <1>2, <1>3

\* Bytes of no record are not looked at.
LEMMA ForgetFine ==
    ASSUME NEW p, FinePage(p)
    PROVE  FinePage(Forget(p))
<1> DEFINE bs == [a \in DOMAIN p.bytes |->
                     IF \E i \in Live(p) : a \in Extent(p, i) THEN p.bytes[a] ELSE ZeroByte]
<1>1. Forget(p) = WithBytes(p, bs)
  BY Zenon DEF Forget, WithBytes
<1> HIDE DEF bs
<1>2. FinePage(WithBytes(p, bs))
  BY PageFieldPut DEF FineLike
<1>. QED
  BY <1>1, <1>2

\* A chunk is wired to the next one (record_block.go:264-281).
LEMMA SetChainedFine ==
    ASSUME NEW p, FinePage(p), NEW l, NEW row, FineRow(row)
    PROVE  FinePage(SetChainedRowID(p, l, row))
<1>1. FinePage(WithChain(p, l + 1, row))
  BY PageChainPut DEF FineLike
<1>2. SetChainedRowID(p, l, row) = p \/ SetChainedRowID(p, l, row) = WithChain(p, l + 1, row)
  BY Zenon DEF SetChainedRowID, WithChain
<1>. QED
  BY <1>1, <1>2

\* The row id of the next chunk (record_block.go:246-262).
LEMMA ChainedFine ==
    ASSUME NEW p, FinePage(p), NEW l \in Nat, ValidLocalID(p, l)
    PROVE  FineRow(ChainedRowID(p, l))
<1>1. l + 1 \in 1 .. Len(p.headers)
  BY HeaderAt DEF FinePage, ValidLocalID
<1>2. FineHeader(p.headers[l + 1])
  BY <1>1, HeaderAt DEF FinePage
<1>. QED
  BY <1>2 DEF FineHeader, ChainedRowID

\* The row id of a next chunk, if there is one, names a fine block.
LEMMA ChunkIs ==
    ASSUME NEW row
    PROVE  /\ FineRow(row) /\ row.block # 0 => row \in ChunkRows
           /\ row \in ChunkRows =>
                FineRow(row) /\ row.block \in FineBlocks /\ row.local \in Nat /\ row # NoRow
<1>1. 0 \notin FineBlocks
  BY DEF FineBlocks, Blocks
<1>. QED
  BY <1>1 DEF FineRow, FineRows, ChunkRows, NoRow

-----------------------------------------------------------------------------
(* The invariant                                                           *)

MapProofs == INSTANCE DataBlocksMapProofs

\* Of a pair only the first is owned, and what is owned is in use.
MapHeld == held \subseteq Map!Ids /\ Map!HeldIsInUse /\ Map!PartnersStayFree

PagesFine(ps) == ps = [b \in Blocks |-> ps[b]] /\ \A b \in Blocks : FinePage(ps[b])

ByRecord(f) == f = [id \in RecordIDs |-> f[id]]

\* Any copy of any page names fine blocks.
DiskIs(d) ==
    /\ d = [pages |-> d.pages, first |-> d.first, avail |-> d.avail, index |-> d.index,
            bits |-> d.bits, rows |-> d.rows]
    /\ PagesFine(d.pages) /\ ByRecord(d.rows)

CallIs(o) ==
    /\ o = [pc |-> o.pc, id |-> o.id, stack |-> o.stack, data |-> o.data, rest |-> o.rest,
            at |-> o.at, row |-> o.row, prev |-> o.prev]
    /\ o.id \in RecordIDs

\* An update goes back to the row the index has.
Kept(o, rw) == o.row \in ChunkRows /\ o.row = rw[o.id] /\ o.at = o.row.block

PlacingFine(o, rw, ct) ==
    /\ CallIs(o) /\ o.at \in FineBlocks /\ o.row \in ChunkRows \cup {NoRow}
    /\ ct[o.id] # Absent => o.row = rw[o.id]

\* The chunks on the way down a chain, at least one.
ChunkStack(s) == s \in Seq(ChunkRows) /\ Len(s) # 0

RemovingFine(o, rw, ct) ==
    /\ CallIs(o) /\ ChunkStack(o.stack)
    /\ ct[o.id] # Absent
    /\ o.data # Absent => Kept(o, rw)

RewritingFine(o, rw) == CallIs(o) /\ Kept(o, rw)

\* What a call goes by, half way.
OpFine(o, rw, ct, ix) ==
    /\ o.pc \notin {"closed", "format", "crashed"}
    /\ o.pc = "place" => PlacingFine(o, rw, ct)
    /\ o.pc \in {"descend", "remove"} => RemovingFine(o, rw, ct)
    /\ o.pc = "rewrite" => RewritingFine(o, rw)
    /\ o.pc = "index" => o.id \in RecordIDs /\ o.row \in ChunkRows
    /\ o.pc = "unindex" => o.id \in RecordIDs /\ ix # {}

\* A record's row is in an index that has a leaf.
RecordsFine(rw, ct, ix) ==
    \A id \in RecordIDs : ct[id] # Absent => rw[id] \in ChunkRows /\ ix # {}

\* What is not marked is in the file as it is in memory.
InFile(d, drt, bts, av, ix, rw) ==
    /\ MapBlock \notin drt => d.bits = bts
    /\ ControlBlock \notin drt => d.avail = av /\ d.index = ix
    /\ ix \cap drt = {} => d.rows = rw

OpenInv ==
    /\ MapHeld /\ avail \in FineBlocks /\ index \subseteq Blocks
    /\ RecordsFine(rows, content, index) /\ OpFine(op, rows, content, index)
    /\ InFile(disk, dirty, bits, avail, index, rows)

FormattedBits == {Map!BitOf(b) : b \in 0 .. 3}

\* Nothing was stored yet; formatting may have been cut short.
NewFile(d) ==
    /\ held = 0 .. 3 /\ \A id \in RecordIDs : content[id] = Absent
    /\ d.bits \in {{}, FormattedBits} /\ d.avail \in {0, 3} /\ d.index = {}

FormattingInv ==
    /\ bits = FormattedBits /\ avail = 3 /\ index = {} /\ dirty \subseteq {ControlBlock, MapBlock}
    /\ MapBlock \notin dirty => disk.bits = bits
    /\ ControlBlock \notin dirty => disk.avail = avail

DBInv ==
    /\ DiskIs(disk) /\ PagesFine(pages) /\ ByRecord(rows) /\ ByRecord(content)
    /\ op \in {Closed, Formatting} => NewFile(disk)
    /\ op = Closed => dirty = {}
    /\ op = Formatting => FormattingInv
    /\ op \notin {Closed, Formatting, Crashed} => OpenInv

-----------------------------------------------------------------------------
(* The map                                                                 *)

\* The positions of the map are numbers, the blocks are among them.
LEMMA PositionsAre ==
    /\ Map!Ids \subseteq Nat /\ Blocks \subseteq Map!Ids /\ 0 .. 3 \subseteq Map!Ids
    /\ \A b \in Blocks : b >= 3 /\ b # ControlBlock /\ b # MapBlock
BY AllocatorAssumption DEF Map!Ids, Blocks, ControlBlock, MapBlock

\* A block is taken from the map: the first that is free, which is never the second of a
\* pair (data_blocks_map.go:24-59, bit_map.go:51-58).
LEMMA MapTaken ==
    ASSUME MapHeld, NEW b \in Blocks, Map!FirstFree(b),
           bits' = bits \cup {Map!BitOf(b)}, held' = held \cup {b}
    PROVE  MapHeld' /\ b \in FineBlocks
<1>1. b \in Map!Ids /\ b >= 3 /\ b \in Nat
  BY PositionsAre
<1>2. ~Map!AllInUse
  BY <1>1 DEF Map!FirstFree, Map!AllInUse
<1>3. b % 8 # 1
  <2>1. MapProofs!FirstFree(b) /\ ~MapProofs!AllInUse /\ b \in MapProofs!Ids
    BY <1>1, <1>2 DEF MapProofs!FirstFree, Map!FirstFree, MapProofs!Ids, Map!Ids, MapProofs!AllInUse,
                      Map!AllInUse, MapProofs!IsInUse, Map!IsInUse, MapProofs!BitOf, Map!BitOf
  <2>. QED
    BY <2>1, AllocatorAssumption, MapProofs!FirstFreeIsFirstOfPair
<1>4. held' \subseteq Map!Ids /\ Map!PartnersStayFree'
  BY <1>1, <1>3 DEF MapHeld, Map!PartnersStayFree
<1>5. Map!HeldIsInUse'
  BY DEF MapHeld, Map!HeldIsInUse, Map!IsInUse
<1>. QED
  BY <1>3, <1>4, <1>5 DEF MapHeld, FineBlocks

\* A block is given back, maybe by one who does not own it: if it is the first of a pair,
\* nobody owned the second (data_blocks_map.go:45-51, bit_map.go:51-58).
LEMMA MapFreed ==
    ASSUME MapHeld, NEW b \in FineBlocks,
           bits' = bits \ {Map!BitOf(b)}, held' = held \ {b}
    PROVE  MapHeld'
<1>1. b \in Map!Ids /\ b >= 3 /\ b \in Nat /\ b % 8 # 1
  BY PositionsAre DEF FineBlocks
<1>2. held' \subseteq Map!Ids /\ Map!PartnersStayFree'
  BY DEF MapHeld, Map!PartnersStayFree
<1>3. ASSUME NEW h \in held, h # b PROVE Map!BitOf(h) # Map!BitOf(b)
  <2>1. h \in Map!Ids /\ h \in Nat /\ (h % 8 = 1 => h = 1)
    BY PositionsAre DEF MapHeld, Map!PartnersStayFree
  <2>2. h < b /\ Map!BitOf(h) = Map!BitOf(b) => b % 8 = 1
    <3>1. h < b /\ Map!BitOf(h) = Map!BitOf(b) => h % 8 = 0 /\ b = h + 1
      BY <1>1, <2>1, MapProofs!SharedBit DEF MapProofs!Ids, Map!Ids, MapProofs!BitOf, Map!BitOf
    <3>. QED
      BY <3>1, <2>1
  <2>3. b < h /\ Map!BitOf(h) = Map!BitOf(b) => h % 8 = 1
    <3>1. b < h /\ Map!BitOf(h) = Map!BitOf(b) => b % 8 = 0 /\ h = b + 1
      BY <1>1, <2>1, MapProofs!SharedBit DEF MapProofs!Ids, Map!Ids, MapProofs!BitOf, Map!BitOf
    <3>. QED
      BY <3>1, <1>1
  <2>. QED
    BY <1>1, <1>3, <2>1, <2>2, <2>3
<1>4. Map!HeldIsInUse'
  BY <1>3 DEF MapHeld, Map!HeldIsInUse, Map!IsInUse
<1>. QED
  BY <1>2, <1>4 DEF MapHeld

\* The map as it was.
LEMMA MapSame ==
    ASSUME MapHeld, bits' = bits, held' = held
    PROVE  MapHeld'
BY DEF MapHeld, Map!HeldIsInUse, Map!PartnersStayFree, Map!IsInUse

\* The map of a formatted file (data_file_formatter.go:17-31).
LEMMA MapFormatted ==
    ASSUME bits' = FormattedBits, held' = 0 .. 3
    PROVE  MapHeld'
<1>1. Map!HeldIsInUse'
  BY DEF FormattedBits, Map!HeldIsInUse, Map!IsInUse
<1>2. Map!PartnersStayFree'
  BY DEF Map!PartnersStayFree
<1>. QED
  BY <1>1, <1>2, PositionsAre DEF MapHeld

-----------------------------------------------------------------------------
(* Pages in memory                                                         *)

PutPage(ps, b, q) == [ps EXCEPT ![b] = q]

\* One page changes.
LEMMA PagePut ==
    ASSUME NEW ps, PagesFine(ps), NEW b, NEW q, b \in Blocks => FinePage(q)
    PROVE  PagesFine(PutPage(ps, b, q))
<1> PICK new : new = PutPage(ps, b, q)
  OBVIOUS
<1>1. DOMAIN ps = Blocks
  BY DEF PagesFine
<1>2. new = [c \in Blocks |-> IF c = b THEN q ELSE ps[c]]
  BY <1>1 DEF PutPage
<1>3. \A c \in Blocks : FinePage(new[c])
  BY <1>2 DEF PagesFine
<1>4. new = [c \in Blocks |-> new[c]]
  BY <1>2
<1>. QED
  BY <1>3, <1>4 DEF PagesFine

\* A chunk is written and the one before is wired to it (record_allocator.go:111-119).
WroteOn(ps, prev, page, row) ==
    LET put == [ps EXCEPT ![row.block] = page] IN
    IF prev = NoRow THEN put
    ELSE [put EXCEPT ![prev.block] = SetChainedRowID(@, prev.local, row)]

\* Links stay fine.
LEMMA WroteOnFine ==
    ASSUME NEW ps, PagesFine(ps), NEW prev, NEW page, FinePage(page), NEW row \in ChunkRows
    PROVE  PagesFine(WroteOn(ps, prev, page, row))
<1> PICK put : put = PutPage(ps, row.block, page)
  OBVIOUS
<1> PICK q : q = SetChainedRowID(put[prev.block], prev.local, row)
  OBVIOUS
<1>1. PagesFine(put)
  BY PagePut
<1>2. prev.block \in Blocks => FinePage(q)
  <2>1. prev.block \in Blocks => FinePage(put[prev.block])
    BY <1>1 DEF PagesFine
  <2>2. FineRow(row)
    BY ChunkIs
  <2>. QED
    BY <2>1, <2>2, SetChainedFine
<1>3. PagesFine(PutPage(put, prev.block, q))
  BY <1>1, <1>2, PagePut
<1>4. WroteOn(ps, prev, page, row) = put \/ WroteOn(ps, prev, page, row) = PutPage(put, prev.block, q)
  BY Zenon DEF WroteOn, PutPage
<1>. QED
  BY <1>1, <1>3, <1>4

\* A block is appended (record_allocator.go:131-149).
Appended(ps, b, at) == [ps EXCEPT ![b].prev = at, ![at].next = b]

\* Links stay fine.
LEMMA AppendedFine ==
    ASSUME NEW ps, PagesFine(ps), NEW b \in FineBlocks, NEW at \in Blocks
    PROVE  PagesFine(Appended(ps, b, at))
<1> PICK q : q = WithPrev(ps[b], at)
  OBVIOUS
<1> PICK put : put = PutPage(ps, b, q)
  OBVIOUS
<1> PICK r : r = WithNext(put[at], b)
  OBVIOUS
<1>1. FinePage(q)
  <2>1. FinePage(ps[b])
    BY DEF PagesFine, FineBlocks
  <2>. QED
    BY <2>1, PageFieldPut DEF FineLike
<1>2. PagesFine(put)
  BY <1>1, PagePut
<1>3. FinePage(r)
  <2>1. FinePage(put[at])
    BY <1>2 DEF PagesFine
  <2>. QED
    BY <2>1, PageNextPut DEF FineLike, FineLink
<1>4. PagesFine(PutPage(put, at, r))
  BY <1>2, <1>3, PagePut
<1>5. Appended(ps, b, at) = PutPage(put, at, r)
  BY Zenon DEF Appended, PutPage, WithPrev, WithNext
<1>. QED
  BY <1>4, <1>5

\* A block is cut out of the list (record_allocator.go:181-225).
CutOut(ps, b, page) ==
    [c \in Blocks |->
        LET p == IF c = b THEN Forget(Clear(page)) ELSE ps[c] IN
        [p EXCEPT !.next = IF c = page.prev THEN page.next ELSE @,
                  !.prev = IF c = page.next THEN page.prev ELSE @]]

\* Links stay fine.
LEMMA CutOutFine ==
    ASSUME NEW ps, PagesFine(ps), NEW b, NEW page, FinePage(page)
    PROVE  PagesFine(CutOut(ps, b, page))
<1> PICK new : new = CutOut(ps, b, page)
  OBVIOUS
<1>1. ASSUME NEW c \in Blocks PROVE FinePage(new[c])
  <2> PICK p : p = IF c = b THEN Forget(Clear(page)) ELSE ps[c]
    OBVIOUS
  <2> PICK next : next = IF c = page.prev THEN page.next ELSE p.next
    OBVIOUS
  <2> PICK prev : prev = IF c = page.next THEN page.prev ELSE p.prev
    OBVIOUS
  <2>1. FinePage(p)
    <3>1. FinePage(Forget(Clear(page)))
      BY ClearFine, ForgetFine
    <3>2. FinePage(ps[c])
      BY DEF PagesFine
    <3>. QED
      BY <3>1, <3>2
  <2>2. FineLink(next)
    BY <2>1 DEF FinePage
  <2>3. FinePage(WithNext(p, next))
    BY <2>1, <2>2, PageNextPut DEF FineLike
  <2>4. FinePage(WithPrev(WithNext(p, next), prev))
    BY <2>3, PageFieldPut DEF FineLike
  <2>5. new[c] = WithPrev(WithNext(p, next), prev)
    <3>1. new[c] = [p EXCEPT !.next = IF c = page.prev THEN page.next ELSE @,
                             !.prev = IF c = page.next THEN page.prev ELSE @]
      BY Zenon DEF CutOut
    <3>. QED
      BY <3>1, Zenon DEF WithPrev, WithNext
  <2>. QED
    BY <2>4, <2>5
<1>2. new = [c \in Blocks |-> new[c]]
  BY DEF CutOut
<1>. QED
  BY <1>1, <1>2 DEF PagesFine

-----------------------------------------------------------------------------
(* An open database                                                        *)

\* Marking more blocks loses nothing.
LEMMA InFileMarked ==
    ASSUME NEW d, NEW drt, NEW bts, NEW av, NEW ix, NEW rw, InFile(d, drt, bts, av, ix, rw), NEW m
    PROVE  InFile(d, drt \cup m, bts, av, ix, rw)
<1>1. ix \cap (drt \cup m) = {} => ix \cap drt = {}
  OBVIOUS
<1>. QED
  BY <1>1 DEF InFile

\* Between opening and closing the invariant is OpenInv.
LEMMA OpenIs ==
    ASSUME DBInv, op.pc \notin {"closed", "format", "crashed"}
    PROVE  /\ OpenInv /\ DiskIs(disk) /\ PagesFine(pages) /\ ByRecord(rows) /\ ByRecord(content)
           /\ \A id \in RecordIDs : Present(id) => rows[id] \in ChunkRows /\ index # {}
<1>1. op \notin {Closed, Formatting, Crashed}
  BY DEF Closed, Formatting, Crashed
<1>. QED
  BY <1>1 DEF DBInv, OpenInv, RecordsFine, Present

\* It is after a step that keeps its parts.
LEMMA StaysOpen ==
    ASSUME DiskIs(disk'), PagesFine(pages'), ByRecord(rows'), ByRecord(content'),
           MapHeld', avail' \in FineBlocks, index' \subseteq Blocks,
           RecordsFine(rows', content', index'), OpFine(op', rows', content', index'),
           InFile(disk', dirty', bits', avail', index', rows')
    PROVE  DBInv'
<1>1. op' \notin {Closed, Formatting, Crashed}
  BY DEF OpFine, Closed, Formatting, Crashed
<1>2. OpenInv'
  BY Zenon DEF OpenInv
<1>. QED
  BY <1>1, <1>2, Zenon DEF DBInv

\* A step that changes pages, the call and maybe what is known of a record, and marks
\* what it likes.
LEMMA CallReturns ==
    ASSUME DBInv, op.pc \notin {"closed", "format", "crashed"}, UNCHANGED <<list, disk>>, rows' = rows,
           NEW m, dirty' = dirty \cup m, PagesFine(pages'), ByRecord(content'),
           RecordsFine(rows, content', index), OpFine(op', rows, content', index)
    PROVE  DBInv'
<1>1. /\ OpenInv /\ DiskIs(disk) /\ ByRecord(rows)
  BY OpenIs
<1>2. /\ avail' = avail /\ index' = index /\ bits' = bits /\ held' = held
      /\ disk' = disk /\ rows' = rows
  BY DEF list, map
<1>3. MapHeld'
  BY <1>1, <1>2, MapSame DEF OpenInv
<1>4. InFile(disk, dirty \cup m, bits, avail, index, rows)
  BY <1>1, InFileMarked DEF OpenInv
<1>5. InFile(disk', dirty', bits', avail', index', rows')
  BY <1>2, <1>4, Zenon
<1>6. /\ DiskIs(disk') /\ ByRecord(rows') /\ avail' \in FineBlocks /\ index' \subseteq Blocks
      /\ RecordsFine(rows', content', index') /\ OpFine(op', rows', content', index')
  BY <1>1, <1>2, Zenon DEF OpenInv
<1>. QED
  BY <1>3, <1>5, <1>6, StaysOpen

\* A step in which the call goes on.
LEMMA CallGoesOn ==
    ASSUME DBInv, op.pc \notin {"closed", "format", "crashed"}, UNCHANGED <<list, disk, rows, content>>,
           NEW m, dirty' = dirty \cup m,
           PagesFine(pages'), OpFine(op', rows, content, index)
    PROVE  DBInv'
<1>1. OpenInv /\ ByRecord(content)
  BY OpenIs
<1>2. UNCHANGED <<list, disk>> /\ rows' = rows /\ content' = content
  OBVIOUS
<1>3. /\ ByRecord(content') /\ RecordsFine(rows, content', index) /\ OpFine(op', rows, content', index)
  BY <1>1, <1>2, Zenon DEF OpenInv
<1>. QED
  BY <1>2, <1>3, CallReturns

\* A call begins to place bytes (record_allocator.go:26-47).
LEMMA InsertFine ==
    ASSUME NEW o, NEW id \in RecordIDs, NEW data, NEW at \in FineBlocks,
           NEW rw, NEW ct, ct[id] = Absent, NEW ix,
           o = [pc |-> "place", id |-> id, stack |-> <<>>, data |-> data, rest |-> data,
                at |-> at, row |-> NoRow, prev |-> NoRow]
    PROVE  OpFine(o, rw, ct, ix)
BY DEF OpFine, PlacingFine, CallIs

\* A call begins to remove the chunks from a row on (record_allocator.go:151-160, 227-238).
LEMMA RemoveFirstFine ==
    ASSUME NEW o, NEW id \in RecordIDs, NEW data, NEW at, NEW row, NEW rw, NEW ct, ct[id] # Absent, NEW ix,
           NEW top \in ChunkRows,
           data # Absent => row \in ChunkRows /\ row = rw[id] /\ at = row.block,
           NEW rest,
           o = [pc |-> "descend", id |-> id, stack |-> <<top>>, data |-> data, rest |-> rest,
                at |-> at, row |-> row, prev |-> NoRow]
    PROVE  OpFine(o, rw, ct, ix)
<1>1. ChunkStack(<<top>>)
  BY DEF ChunkStack
<1>2. /\ o.pc = "descend" /\ o.id = id /\ o.stack = <<top>> /\ o.data = data /\ o.at = at /\ o.row = row
      /\ CallIs(o)
  BY DEF CallIs
<1>3. RemovingFine(o, rw, ct)
  BY <1>1, <1>2 DEF RemovingFine, Kept
<1>. QED
  BY <1>2, <1>3 DEF OpFine

\* An update with one chunk begins to rewrite it (record_allocator.go:240).
LEMMA RewriteFirstFine ==
    ASSUME NEW o, NEW id \in RecordIDs, NEW data, NEW row \in ChunkRows, NEW rw, row = rw[id], NEW ct, NEW ix,
           o = [pc |-> "rewrite", id |-> id, stack |-> <<>>, data |-> data, rest |-> data,
                at |-> row.block, row |-> row, prev |-> NoRow]
    PROVE  OpFine(o, rw, ct, ix)
BY DEF OpFine, RewritingFine, CallIs, Kept

\* Every call begins like this (record_allocator.go:36-47, 151-160, 227-240).
LEMMA DBCallStep ==
    ASSUME DBInv, DBCall
    PROVE  DBInv'
<1>1. PICK id \in RecordIDs : (\E n \in Sizes : Insert(id, n) \/ Update(id, n)) \/ Delete(id)
  BY Zenon DEF DBCall
<1>2. disk' = disk
  BY Zenon DEF DBCall
<1>3. op = Idle
  BY <1>1 DEF Insert, Update, Delete
<1>4. op.pc \notin {"closed", "format", "crashed"}
  BY <1>3 DEF Idle
<1>5. /\ OpenInv /\ PagesFine(pages)
      /\ Present(id) => rows[id] \in ChunkRows /\ index # {}
  BY <1>4, OpenIs
<1>6. ASSUME NEW n \in Sizes, Insert(id, n) PROVE DBInv'
  <2>1. OpFine(op', rows, content, index)
    <3>1. avail \in FineBlocks /\ content[id] = Absent
      BY <1>5, <1>6 DEF OpenInv, Insert, Present
    <3>. QED
      BY <1>6, <3>1, InsertFine, Zenon DEF Insert
  <2>2. dirty' = dirty \cup {ControlBlock} /\ UNCHANGED <<list, disk, rows, content>> /\ pages' = pages
    BY <1>2, <1>6 DEF Insert
  <2>3. PagesFine(pages')
    BY <1>5, <2>2
  <2>. QED
    BY <1>4, <2>1, <2>2, <2>3, CallGoesOn
<1>7. ASSUME NEW n \in Sizes, Update(id, n) PROVE DBInv'
  <2> PICK row : row = rows[id]
    OBVIOUS
  <2> PICK data : data = Data(id, n)
    OBVIOUS
  <2> PICK chained : chained = ChainedRowID(pages[row.block], row.local)
    OBVIOUS
  <2>1. row \in ChunkRows /\ content[id] # Absent
    BY <1>5, <1>7 DEF Update, Present
  <2>2. FinePage(pages[row.block]) /\ row.local \in Nat
    BY <1>5, <2>1 DEF PagesFine, ChunkRows, FineBlocks
  <2>3. FineRow(chained)
    BY <2>2, <1>7, ChainedFine DEF Update
  <2>4. op' = [pc |-> IF chained.block # 0 THEN "descend" ELSE "rewrite",
               id |-> id, stack |-> IF chained.block # 0 THEN <<chained>> ELSE <<>>,
               data |-> data, rest |-> data, at |-> row.block, row |-> row, prev |-> NoRow]
    BY <1>7, Zenon DEF Update
  <2>5. OpFine(op', rows, content, index)
    <3>1. CASE chained.block # 0
      <4>1. chained \in ChunkRows
        BY <2>3, <3>1, ChunkIs
      <4>2. op' = [pc |-> "descend", id |-> id, stack |-> <<chained>>,
                   data |-> data, rest |-> data, at |-> row.block, row |-> row, prev |-> NoRow]
        BY <2>4, <3>1
      <4>. QED
        BY <2>1, <4>1, <4>2, RemoveFirstFine
    <3>2. CASE chained.block = 0
      <4>1. op' = [pc |-> "rewrite", id |-> id, stack |-> <<>>,
                   data |-> data, rest |-> data, at |-> row.block, row |-> row, prev |-> NoRow]
        BY <2>4, <3>2
      <4>. QED
        BY <2>1, <4>1, RewriteFirstFine
    <3>. QED
      BY <3>1, <3>2
  <2>6. dirty' = dirty \cup {} /\ UNCHANGED <<list, disk, rows, content>> /\ pages' = pages
    BY <1>2, <1>7 DEF Update
  <2>7. PagesFine(pages')
    BY <1>5, <2>6
  <2>. QED
    BY <1>4, <2>5, <2>6, <2>7, CallGoesOn
<1>8. ASSUME Delete(id) PROVE DBInv'
  <2> PICK row : row = rows[id]
    OBVIOUS
  <2>1. row \in ChunkRows /\ content[id] # Absent
    BY <1>5, <1>8 DEF Delete, Present
  <2>2. op' = [pc |-> "descend", id |-> id, stack |-> <<row>>, data |-> Absent, rest |-> <<>>,
               at |-> 0, row |-> NoRow, prev |-> NoRow]
    BY <1>8 DEF Delete
  <2>3. OpFine(op', rows, content, index)
    BY <2>1, <2>2, RemoveFirstFine
  <2>4. dirty' = dirty \cup {} /\ UNCHANGED <<list, disk, rows, content>> /\ pages' = pages
    BY <1>2, <1>8 DEF Delete
  <2>5. PagesFine(pages')
    BY <1>5, <2>4
  <2>. QED
    BY <1>4, <2>3, <2>4, <2>5, CallGoesOn
<1>. QED
  BY <1>1, <1>6, <1>7, <1>8

\* The block to be tried next.
TriesNext(q, o, b) == q = [o EXCEPT !.at = b]

\* It is a fine one.
LEMMA TriesNextFine ==
    ASSUME NEW o, o.pc = "place", NEW rw, NEW ct, NEW ix, PlacingFine(o, rw, ct),
           NEW b \in FineBlocks, NEW q, TriesNext(q, o, b)
    PROVE  OpFine(q, rw, ct, ix)
<1>1. /\ q.pc = "place" /\ q.id = o.id /\ q.row = o.row /\ q.at = b /\ CallIs(q)
  BY DEF PlacingFine, CallIs, TriesNext
<1>2. PlacingFine(q, rw, ct)
  BY <1>1 DEF PlacingFine
<1>. QED
  BY <1>1, <1>2 DEF OpFine

\* What a call that places bytes goes by.
LEMMA PlacingIs ==
    ASSUME DBInv, op.pc = "place"
    PROVE  /\ OpenInv /\ PagesFine(pages) /\ PlacingFine(op, rows, content)
           /\ op.at \in FineBlocks /\ FinePage(pages[op.at])
<1>1. OpenInv /\ PagesFine(pages)
  BY OpenIs
<1>2. PlacingFine(op, rows, content)
  BY <1>1 DEF OpenInv, OpFine
<1>3. op.at \in FineBlocks /\ FinePage(pages[op.at])
  BY <1>1, <1>2 DEF PlacingFine, PagesFine, FineBlocks
<1>. QED
  BY <1>1, <1>2, <1>3

\* The search goes on at the next block (record_allocator.go:92-104).
LEMMA MoveOnStep ==
    ASSUME DBInv, MoveOn, UNCHANGED disk
    PROVE  DBInv'
<1> PICK b : b = pages[op.at].next
  OBVIOUS
<1>1. op.pc = "place" /\ b # 0
  BY DEF MoveOn
<1>2. b \in FineBlocks
  BY <1>1, PlacingIs DEF FinePage, FineLink
<1>3. TriesNext(op', op, b)
  BY DEF MoveOn, Continue, TriesNext
<1>4. OpFine(op', rows, content, index)
  BY <1>1, <1>2, <1>3, PlacingIs, TriesNextFine
<1>5. dirty' = dirty \cup {} /\ UNCHANGED <<list, disk, rows, content>> /\ pages' = pages
  BY DEF MoveOn, Continue
<1>6. PagesFine(pages')
  BY <1>1, <1>5, PlacingIs
<1>. QED
  BY <1>1, <1>4, <1>5, <1>6, CallGoesOn

\* Or at a block that is appended (record_allocator.go:131-149).
LEMMA ExtendStep ==
    ASSUME DBInv, Extend, UNCHANGED disk
    PROVE  DBInv'
<1>1. PICK b \in Blocks :
          /\ Map!FirstFree(b) /\ bits' = bits \cup {Map!BitOf(b)} /\ held' = held \cup {b}
          /\ ChangePages([pages EXCEPT ![b].prev = op.at, ![op.at].next = b],
                         {b, op.at, ControlBlock, MapBlock})
          /\ avail' = b /\ Continue([op EXCEPT !.at = b])
  BY Zenon DEF Extend
<1>2. op.pc = "place" /\ index' = index /\ disk' = disk
  BY DEF Extend
<1>3. /\ OpenInv /\ PagesFine(pages) /\ PlacingFine(op, rows, content) /\ op.at \in Blocks
  BY <1>2, PlacingIs DEF FineBlocks
<1>4. MapHeld' /\ b \in FineBlocks
  BY <1>1, <1>3, MapTaken DEF OpenInv
<1>5. rows' = rows /\ content' = content /\ dirty' = dirty \cup {b, op.at, ControlBlock, MapBlock}
  BY <1>1 DEF Continue, ChangePages
<1>6. PagesFine(pages')
  <2>1. pages' = Appended(pages, b, op.at)
    BY <1>1, Zenon DEF ChangePages, Appended
  <2>. QED
    BY <2>1, <1>3, <1>4, AppendedFine
<1>7. OpFine(op', rows, content, index)
  <2>1. TriesNext(op', op, b)
    BY <1>1 DEF Continue, TriesNext
  <2>. QED
    BY <1>2, <1>3, <1>4, <2>1, TriesNextFine
<1>8. InFile(disk, dirty', bits', avail', index, rows)
  <2>1. MapBlock \in dirty' /\ ControlBlock \in dirty' /\ dirty \subseteq dirty'
    BY <1>5
  <2>. QED
    BY <2>1, <1>3 DEF OpenInv, InFile
<1>9. /\ DiskIs(disk) /\ ByRecord(rows) /\ ByRecord(content)
  BY <1>2, OpenIs
<1>10. RecordsFine(rows, content, index) /\ index \subseteq Blocks
  BY <1>3 DEF OpenInv
<1>11. /\ DiskIs(disk') /\ ByRecord(rows') /\ ByRecord(content') /\ avail' \in FineBlocks
       /\ index' \subseteq Blocks /\ RecordsFine(rows', content', index')
  BY <1>1, <1>2, <1>4, <1>5, <1>9, <1>10, Zenon
<1>12. OpFine(op', rows', content', index') /\ InFile(disk', dirty', bits', avail', index', rows')
  BY <1>2, <1>5, <1>7, <1>8, Zenon
<1>. QED
  BY <1>4, <1>6, <1>11, <1>12, StaysOpen

\* The rest is to be placed behind the chunk just written.
WritesOn(q, o, rest, at, start, prev) ==
    q = [o EXCEPT !.rest = rest, !.at = at, !.row = start, !.prev = prev, !.pc = "place"]

\* The first chunk stays the one the index has, if it has one.
LEMMA WritesOnFine ==
    ASSUME NEW o, CallIs(o), NEW rw, NEW ct, NEW ix,
           NEW rest, NEW at \in FineBlocks, NEW start \in ChunkRows, NEW prev,
           ct[o.id] # Absent => start = rw[o.id], NEW q, WritesOn(q, o, rest, at, start, prev)
    PROVE  OpFine(q, rw, ct, ix)
<1>1. q.pc = "place" /\ q.id = o.id /\ q.row = start /\ q.at = at /\ CallIs(q)
  BY DEF CallIs, WritesOn
<1>2. PlacingFine(q, rw, ct)
  BY <1>1 DEF PlacingFine
<1>. QED
  BY <1>1, <1>2 DEF OpFine

\* A call that is done is idle.
LEMMA IdleFine ==
    ASSUME NEW rw, NEW ct, NEW ix
    PROVE  OpFine(Idle, rw, ct, ix)
BY DEF OpFine, Idle

\* A record gets its content.
LEMMA ContentPut ==
    ASSUME NEW rw, NEW ct, NEW ix, RecordsFine(rw, ct, ix), ByRecord(ct), NEW id, NEW data,
           data # Absent /\ id \in RecordIDs => rw[id] \in ChunkRows /\ ix # {},
           NEW new, new = [ct EXCEPT ![id] = data]
    PROVE  ByRecord(new) /\ RecordsFine(rw, new, ix)
<1>1. DOMAIN ct = RecordIDs
  BY DEF ByRecord
<1>2. new = [i \in RecordIDs |-> IF i = id THEN data ELSE ct[i]]
  BY <1>1
<1>3. ByRecord(new) /\ \A i \in RecordIDs : new[i] = IF i = id THEN data ELSE ct[i]
  BY <1>2 DEF ByRecord
<1>. QED
  BY <1>3 DEF RecordsFine

\* A row the index has anyway.
LEMMA RowPut ==
    ASSUME NEW rw, ByRecord(rw), NEW id, NEW row, id \in RecordIDs => row = rw[id]
    PROVE  [rw EXCEPT ![id] = row] = rw
<1>1. DOMAIN rw = RecordIDs
  BY DEF ByRecord
<1>. QED
  BY <1>1 DEF ByRecord

\* A chunk is written, and with the last one the call returns or goes on to the index
\* (record_allocator.go:80-127).
LEMMA WroteStep ==
    ASSUME DBInv, op.pc \in {"place", "rewrite"}, CallIs(op), op.row \in ChunkRows \cup {NoRow},
           Present(op.id) => op.row = rows[op.id],
           NEW page, FinePage(page), NEW row \in ChunkRows, NEW n, WroteChunk(page, row, n),
           UNCHANGED disk
    PROVE  DBInv'
<1> PICK start : start = IF op.row = NoRow THEN row ELSE op.row
  OBVIOUS
<1>1. /\ OpenInv /\ PagesFine(pages) /\ ByRecord(rows) /\ ByRecord(content)
      /\ \A id \in RecordIDs : Present(id) => rows[id] \in ChunkRows /\ index # {}
  BY OpenIs
<1>2. op.pc \notin {"closed", "format", "crashed"} /\ op.id \in RecordIDs
  BY DEF CallIs
<1>3. start \in ChunkRows /\ (Present(op.id) => start = rows[op.id])
  BY <1>1, <1>2, ChunkIs
<1>4. pages' = WroteOn(pages, op.prev, page, row) /\ \E m : dirty' = dirty \cup m
  <2>1. CASE op.prev = NoRow
    BY <2>1, Zenon DEF WroteChunk, ChangePages, WroteOn
  <2>2. CASE op.prev # NoRow
    BY <2>2, Zenon DEF WroteChunk, ChangePages, WroteOn
  <2>. QED
    BY <2>1, <2>2
<1>5. PICK m : dirty' = dirty \cup m
  BY <1>4
<1>6. PagesFine(pages')
  BY <1>1, <1>4, WroteOnFine
<1>7. UNCHANGED <<list, disk>>
  BY DEF WroteChunk
<1>8. IF n = Len(op.rest) THEN Placed(start)
      ELSE Continue([op EXCEPT !.rest = SubSeq(@, n + 1, Len(@)), !.at = row.block,
                               !.row = start, !.prev = row, !.pc = "place"])
  BY Zenon DEF WroteChunk
<1>9. CASE n = Len(op.rest) /\ Present(op.id)
  <2>1. op' = Idle /\ rows' = [rows EXCEPT ![op.id] = start] /\ content' = [content EXCEPT ![op.id] = op.data]
    BY <1>8, <1>9 DEF Placed, Return
  <2>2. rows' = rows
    BY <1>1, <1>3, <1>9, <2>1, RowPut
  <2>3. rows[op.id] \in ChunkRows /\ index # {} /\ RecordsFine(rows, content, index)
    BY <1>1, <1>2, <1>9 DEF OpenInv
  <2>4. ByRecord(content') /\ RecordsFine(rows, content', index)
    BY <1>1, <2>1, <2>3, ContentPut
  <2>5. OpFine(op', rows, content', index)
    BY <2>1, IdleFine
  <2>. QED
    BY <1>2, <1>5, <1>6, <1>7, <2>2, <2>4, <2>5, CallReturns
<1>10. CASE n = Len(op.rest) /\ ~Present(op.id)
  <2>1. Continue([pc |-> "index", id |-> op.id, data |-> op.data, row |-> start])
    BY <1>8, <1>10 DEF Placed
  <2>2. op'.pc = "index" /\ op'.id = op.id /\ op'.row = start /\ UNCHANGED <<rows, content>>
    BY <2>1 DEF Continue
  <2>3. OpFine(op', rows, content, index)
    BY <1>2, <1>3, <2>2 DEF OpFine
  <2>. QED
    BY <1>2, <1>5, <1>6, <1>7, <2>2, <2>3, CallGoesOn
<1>11. CASE n # Len(op.rest)
  <2>1. Continue([op EXCEPT !.rest = SubSeq(@, n + 1, Len(@)), !.at = row.block,
                            !.row = start, !.prev = row, !.pc = "place"])
    BY <1>8, <1>11
  <2>2. WritesOn(op', op, SubSeq(op.rest, n + 1, Len(op.rest)), row.block, start, row)
    BY <2>1, Zenon DEF Continue, WritesOn
  <2>3. row.block \in FineBlocks /\ (content[op.id] # Absent => start = rows[op.id])
    BY <1>3, ChunkIs DEF Present
  <2>4. OpFine(op', rows, content, index)
    BY <1>3, <2>2, <2>3, WritesOnFine
  <2>5. UNCHANGED <<rows, content>>
    BY <2>1 DEF Continue
  <2>. QED
    BY <1>2, <1>5, <1>6, <1>7, <2>4, <2>5, CallGoesOn
<1>. QED
  BY <1>9, <1>10, <1>11

\* On the block that is tried (record_allocator.go:80-83, 106-119).
LEMMA PlaceStep ==
    ASSUME DBInv, Place, UNCHANGED disk
    PROVE  DBInv'
<1> PICK n : n = Shorter(Len(op.rest), FreeSpaceForInsert(pages[op.at]))
  OBVIOUS
<1>1. PICK r \in Add(pages[op.at], op.id, SubSeq(op.rest, 1, n)) :
          WroteChunk(Forget(r.page), [block |-> op.at, local |-> r.local], n)
  BY Zenon DEF Place
<1>2. op.pc = "place"
  BY DEF Place
<1>3. /\ op.at \in FineBlocks /\ FinePage(pages[op.at])
      /\ CallIs(op) /\ op.row \in ChunkRows \cup {NoRow} /\ (Present(op.id) => op.row = rows[op.id])
  BY <1>2, PlacingIs DEF PlacingFine, Present
<1>4. FinePage(r.page) /\ r.local \in Nat
  BY <1>3, AddFine
<1>5. FinePage(Forget(r.page)) /\ [block |-> op.at, local |-> r.local] \in ChunkRows
  BY <1>3, <1>4, ForgetFine DEF ChunkRows
<1>. QED
  BY <1>1, <1>2, <1>3, <1>5, WroteStep

\* On the first block, in place of what was there (record_allocator.go:240-247).
LEMMA RewriteStep ==
    ASSUME DBInv, Rewrite, UNCHANGED disk
    PROVE  DBInv'
<1> PICK soft : soft = SoftRemove(pages[op.at], op.row.local)
  OBVIOUS
<1> PICK n : n = Shorter(Len(op.rest), FreeSpaceForInsert(soft))
  OBVIOUS
<1>1. PICK r \in Add(soft, op.id, SubSeq(op.rest, 1, n)) :
          IF r.local = op.row.local THEN WroteChunk(Forget(r.page), op.row, n)
          ELSE Continue(Panicked) /\ UNCHANGED <<pages, list, dirty>>
  BY Zenon DEF Rewrite
<1>2. op.pc = "rewrite"
  BY DEF Rewrite
<1>3. OpenInv /\ PagesFine(pages) /\ RewritingFine(op, rows)
  BY <1>2, OpenIs DEF OpenInv, OpFine
<1>4. CallIs(op) /\ op.row \in ChunkRows /\ op.row = rows[op.id] /\ op.at \in FineBlocks
  BY <1>3, ChunkIs DEF RewritingFine, Kept
<1>5. FinePage(soft)
  BY <1>3, <1>4, SoftRemoveFine DEF PagesFine, FineBlocks
<1>6. FinePage(Forget(r.page))
  BY <1>5, AddFine, ForgetFine
<1>7. CASE r.local = op.row.local
  BY <1>1, <1>2, <1>4, <1>6, <1>7, WroteStep
<1>8. CASE r.local # op.row.local
  <2>1. op' = Panicked /\ dirty' = dirty \cup {} /\ UNCHANGED <<list, disk, rows, content>> /\ pages' = pages
    BY <1>1, <1>8 DEF Continue
  <2>2. OpFine(op', rows, content, index)
    BY <2>1 DEF OpFine, Panicked
  <2>. QED
    BY <1>2, <1>3, <2>1, <2>2, CallGoesOn
<1>. QED
  BY <1>7, <1>8

\* A chunk is put on the stack.
LEMMA ChunkPushed ==
    ASSUME NEW s, ChunkStack(s), NEW row \in ChunkRows
    PROVE  ChunkStack(Append(s, row))
<1>1. s \in Seq(ChunkRows)
  BY DEF ChunkStack
<1>2. Append(s, row) \in Seq(ChunkRows) /\ Len(Append(s, row)) = Len(s) + 1 /\ Len(s) \in Nat
  BY <1>1
<1>. QED
  BY <1>2 DEF ChunkStack

\* A chunk is taken from it that is not the last.
LEMMA ChunkPopped ==
    ASSUME NEW s, ChunkStack(s), Len(s) # 1
    PROVE  ChunkStack(Lib!Front(s))
<1>1. s \in Seq(ChunkRows) /\ Len(s) # 0
  BY DEF ChunkStack
<1> PICK n : n = Len(s) - 1
  OBVIOUS
<1>2. n \in Nat /\ n # 0 /\ n <= Len(s)
  BY <1>1
<1>3. SubSeq(s, 1, n) \in Seq(ChunkRows) /\ Len(SubSeq(s, 1, n)) = n
  BY <1>1, <1>2
<1>. QED
  BY <1>2, <1>3 DEF ChunkStack, Lib!Front

\* The removal has come to another chunk.
StackIs(q, o, stack) == q = [o EXCEPT !.stack = stack]

\* It goes by chunks as before.
LEMMA StackFine ==
    ASSUME NEW o, o.pc \in {"descend", "remove"}, NEW rw, NEW ct, NEW ix, RemovingFine(o, rw, ct),
           NEW stack, ChunkStack(stack), NEW q, StackIs(q, o, stack)
    PROVE  OpFine(q, rw, ct, ix)
<1>1. /\ q.pc = o.pc /\ q.id = o.id /\ q.row = o.row /\ q.at = o.at /\ q.data = o.data /\ q.stack = stack
      /\ CallIs(q)
  BY DEF RemovingFine, CallIs, StackIs
<1>2. RemovingFine(q, rw, ct)
  BY <1>1 DEF RemovingFine, Kept
<1>. QED
  BY <1>1, <1>2 DEF OpFine

\* The chunk on top is the last one: it is removed.
Removes(q, o) == q = [o EXCEPT !.pc = "remove"]

\* So are the ones before it.
LEMMA RemovesFine ==
    ASSUME NEW o, NEW rw, NEW ct, NEW ix, RemovingFine(o, rw, ct), NEW q, Removes(q, o)
    PROVE  OpFine(q, rw, ct, ix)
<1>1. /\ q.pc = "remove" /\ q.id = o.id /\ q.row = o.row /\ q.at = o.at /\ q.data = o.data
      /\ q.stack = o.stack /\ CallIs(q)
  BY DEF RemovingFine, CallIs, Removes
<1>2. RemovingFine(q, rw, ct)
  BY <1>1 DEF RemovingFine, Kept
<1>. QED
  BY <1>1, <1>2 DEF OpFine

\* All are removed: an update rewrites the first chunk.
Rewrites(q, o) == q = [o EXCEPT !.pc = "rewrite", !.stack = <<>>]

\* It is the one the index has.
LEMMA RewritesFine ==
    ASSUME NEW o, NEW rw, NEW ct, NEW ix, RemovingFine(o, rw, ct), o.data # Absent, NEW q, Rewrites(q, o)
    PROVE  OpFine(q, rw, ct, ix)
<1>1. q.pc = "rewrite" /\ q.id = o.id /\ q.row = o.row /\ q.at = o.at /\ CallIs(q)
  BY DEF RemovingFine, CallIs, Rewrites
<1>2. RewritingFine(q, rw)
  BY <1>1 DEF RemovingFine, RewritingFine, Kept
<1>. QED
  BY <1>1, <1>2 DEF OpFine

\* What a call that removes chunks goes by.
LEMMA RemovingIs ==
    ASSUME DBInv, op.pc \in {"descend", "remove"}
    PROVE  /\ OpenInv /\ DiskIs(disk) /\ PagesFine(pages) /\ ByRecord(rows) /\ ByRecord(content)
           /\ RemovingFine(op, rows, content) /\ index # {}
           /\ Lib!Last(op.stack) \in ChunkRows /\ FinePage(pages[Lib!Last(op.stack).block])
<1>1. /\ OpenInv /\ DiskIs(disk) /\ PagesFine(pages) /\ ByRecord(rows) /\ ByRecord(content)
      /\ \A id \in RecordIDs : Present(id) => rows[id] \in ChunkRows /\ index # {}
  BY OpenIs
<1>2. RemovingFine(op, rows, content)
  BY <1>1 DEF OpenInv, OpFine
<1>3. index # {}
  BY <1>1, <1>2 DEF RemovingFine, CallIs, Present
<1>4. Lib!Last(op.stack) \in ChunkRows
  <2> PICK s : s = op.stack
    OBVIOUS
  <2>1. s \in Seq(ChunkRows) /\ Len(s) # 0
    BY <1>2 DEF RemovingFine, ChunkStack
  <2>2. s[Len(s)] \in ChunkRows
    BY <2>1
  <2>. QED
    BY <2>2 DEF Lib!Last
<1>5. Lib!Last(op.stack).block \in Blocks
  <2> PICK top : top = Lib!Last(op.stack)
    OBVIOUS
  <2>1. top.block \in FineBlocks
    BY <1>4, ChunkIs
  <2>. QED
    BY <2>1 DEF FineBlocks
<1>. QED
  BY <1>1, <1>2, <1>3, <1>4, <1>5 DEF PagesFine

\* Remove returns (record_allocator.go:151-179, 227-240).
LEMMA RemovedFine ==
    ASSUME DBInv, op.pc \in {"descend", "remove"}, NEW ok, Removed(ok)
    PROVE  OpFine(op', rows, content, index) /\ rows' = rows /\ content' = content
<1>1. RemovingFine(op, rows, content) /\ index # {} /\ op.id \in RecordIDs
  BY RemovingIs DEF RemovingFine, CallIs
<1>2. CASE op.data # Absent
  <2>1. Rewrites(op', op) /\ rows' = rows /\ content' = content
    BY <1>2 DEF Removed, Continue, Rewrites
  <2>. QED
    BY <1>1, <1>2, <2>1, RewritesFine
<1>3. CASE op.data = Absent /\ ok
  <2>1. op' = [pc |-> "unindex", id |-> op.id] /\ rows' = rows /\ content' = content
    BY <1>3 DEF Removed, Continue
  <2>. QED
    BY <1>1, <2>1 DEF OpFine
<1>4. CASE op.data = Absent /\ ~ok
  <2>1. op' = Idle /\ rows' = rows /\ content' = content
    BY <1>4 DEF Removed, Continue
  <2>. QED
    BY <2>1, IdleFine
<1>. QED
  BY <1>2, <1>3, <1>4

\* The recursion of Remove goes down a chain (record_allocator.go:151-165).
LEMMA DescendStep ==
    ASSUME DBInv, Descend, UNCHANGED disk
    PROVE  DBInv'
<1> PICK row : row = Lib!Last(op.stack)
  OBVIOUS
<1> PICK page : page = pages[row.block]
  OBVIOUS
<1> PICK chained : chained = ChainedRowID(page, row.local)
  OBVIOUS
<1>1. op.pc = "descend"
  BY DEF Descend
<1>2. /\ IF ~ValidLocalID(page, row.local) THEN Removed(FALSE)
         ELSE IF chained.block # 0 THEN Continue([op EXCEPT !.stack = Append(@, chained)])
         ELSE Continue([op EXCEPT !.pc = "remove"])
      /\ UNCHANGED <<pages, list, dirty>>
  BY Zenon DEF Descend
<1>3. PagesFine(pages) /\ RemovingFine(op, rows, content) /\ row \in ChunkRows /\ FinePage(page)
  BY <1>1, RemovingIs
<1>4. OpFine(op', rows, content, index) /\ rows' = rows /\ content' = content
  <2>1. CASE ~ValidLocalID(page, row.local)
    <3>1. Removed(FALSE)
      BY <1>2, <2>1, Zenon
    <3>. QED
      BY <1>1, <3>1, RemovedFine
  <2>2. CASE ValidLocalID(page, row.local) /\ chained.block # 0
    <3>1. row.local \in Nat
      BY <1>3, ChunkIs
    <3>2. FineRow(chained)
      BY <1>3, <2>2, <3>1, ChainedFine
    <3>3. chained \in ChunkRows
      BY <2>2, <3>2, ChunkIs
    <3>4. Continue([op EXCEPT !.stack = Append(@, chained)])
      BY <1>2, <2>2, Zenon
    <3> PICK stack : stack = Append(op.stack, chained)
      OBVIOUS
    <3>5. StackIs(op', op, stack) /\ rows' = rows /\ content' = content
      BY <3>4, Zenon DEF Continue, StackIs
    <3>6. ChunkStack(stack)
      BY <1>3, <3>3, ChunkPushed DEF RemovingFine
    <3>7. OpFine(op', rows, content, index)
      BY <1>1, <1>3, <3>5, <3>6, StackFine
    <3>. QED
      BY <3>5, <3>7
  <2>3. CASE ValidLocalID(page, row.local) /\ chained.block = 0
    <3>1. Removes(op', op) /\ rows' = rows /\ content' = content
      BY <1>2, <2>3 DEF Continue, Removes
    <3>2. OpFine(op', rows, content, index)
      BY <1>3, <3>1, RemovesFine
    <3>. QED
      BY <3>1, <3>2
  <2>. QED
    BY <2>1, <2>2, <2>3
<1>5. dirty' = dirty \cup {} /\ pages' = pages /\ UNCHANGED <<list, disk, rows, content>>
  BY <1>2, <1>4
<1>6. PagesFine(pages')
  BY <1>3, <1>5
<1>. QED
  BY <1>1, <1>4, <1>5, <1>6, CallGoesOn

\* A chunk is removed, and its block from the list if that was its last record
\* (record_allocator.go:167-179).
LEMMA RemoveChunkStep ==
    ASSUME DBInv, RemoveChunk, UNCHANGED disk
    PROVE  DBInv'
<1> PICK row : row = Lib!Last(op.stack)
  OBVIOUS
<1> PICK page : page = Remove(pages[row.block], row.local)
  OBVIOUS
<1>1. op.pc = "remove"
  BY DEF RemoveChunk
<1>2. /\ IF TotalRecords(page) = 0 /\ page.next # 0 THEN RemoveFromList(row.block, page)
         ELSE ChangePages([pages EXCEPT ![row.block] = Forget(page)], {}) /\ UNCHANGED list
      /\ IF Len(op.stack) = 1 THEN Removed(TRUE) ELSE Continue([op EXCEPT !.stack = Lib!Front(@)])
  BY Zenon DEF RemoveChunk
<1>3. /\ OpenInv /\ DiskIs(disk) /\ PagesFine(pages) /\ ByRecord(rows) /\ ByRecord(content)
      /\ RemovingFine(op, rows, content) /\ row \in ChunkRows /\ FinePage(pages[row.block])
  BY <1>1, RemovingIs
<1>4. row.block \in FineBlocks /\ FinePage(page)
  BY <1>3, ChunkIs, RemoveFine
<1>5. OpFine(op', rows, content, index) /\ rows' = rows /\ content' = content
  <2>1. CASE Len(op.stack) = 1
    <3>1. Removed(TRUE)
      BY <1>2, <2>1, Zenon
    <3>. QED
      BY <1>1, <3>1, RemovedFine
  <2>2. CASE Len(op.stack) # 1
    <3> PICK stack : stack = Lib!Front(op.stack)
      OBVIOUS
    <3>1. Continue([op EXCEPT !.stack = Lib!Front(@)])
      BY <1>2, <2>2, Zenon
    <3>2. StackIs(op', op, stack) /\ rows' = rows /\ content' = content
      BY <3>1, Zenon DEF Continue, StackIs
    <3>3. ChunkStack(stack)
      BY <1>3, <2>2, ChunkPopped DEF RemovingFine
    <3>4. OpFine(op', rows, content, index)
      BY <1>1, <1>3, <3>2, <3>3, StackFine
    <3>. QED
      BY <3>2, <3>4
  <2>. QED
    BY <2>1, <2>2
<1>6. CASE ~(TotalRecords(page) = 0 /\ page.next # 0)
  <2>1. ChangePages(PutPage(pages, row.block, Forget(page)), {}) /\ UNCHANGED list
    BY <1>2, <1>6, Zenon DEF PutPage
  <2>2. dirty' = dirty \cup {} /\ UNCHANGED <<list, disk, rows, content>>
    BY <1>5, <2>1 DEF ChangePages
  <2>3. PagesFine(pages')
    <3>1. PagesFine(PutPage(pages, row.block, Forget(page)))
      BY <1>3, <1>4, ForgetFine, PagePut
    <3>. QED
      BY <2>1, <3>1 DEF ChangePages
  <2>. QED
    BY <1>1, <1>5, <2>2, <2>3, CallGoesOn
<1>7. CASE TotalRecords(page) = 0 /\ page.next # 0
  <2>1. RemoveFromList(row.block, page)
    BY <1>2, <1>7, Zenon
  <2>2. pages' = CutOut(pages, row.block, page)
    BY <2>1, Zenon DEF RemoveFromList, CutOut
  <2>3. PagesFine(pages')
    BY <1>3, <1>4, <2>2, CutOutFine
  <2>4. /\ bits' = bits \ {Map!BitOf(row.block)} /\ held' = held \ {row.block}
        /\ avail' = avail /\ index' = index
        /\ dirty \subseteq dirty' /\ MapBlock \in dirty'
    BY <2>1 DEF RemoveFromList
  <2>5. MapHeld'
    BY <1>3, <1>4, <2>4, MapFreed DEF OpenInv
  <2>6. InFile(disk, dirty', bits', avail, index, rows)
    BY <1>3, <2>4 DEF OpenInv, InFile
  <2>7. avail \in FineBlocks /\ index \subseteq Blocks /\ RecordsFine(rows, content, index)
    BY <1>3 DEF OpenInv
  <2>8. /\ DiskIs(disk') /\ ByRecord(rows') /\ ByRecord(content') /\ avail' \in FineBlocks
        /\ index' \subseteq Blocks /\ RecordsFine(rows', content', index')
    BY <1>3, <1>5, <2>4, <2>7, Zenon
  <2>9. OpFine(op', rows', content', index') /\ InFile(disk', dirty', bits', avail', index', rows')
    BY <1>5, <2>4, <2>6, Zenon
  <2>. QED
    BY <2>3, <2>5, <2>8, <2>9, StaysOpen
<1>. QED
  BY <1>6, <1>7

\* One record's entry changes.
Entry(new, f, id, v) == new = [f EXCEPT ![id] = v]

OthersStay(new, f, id, v) == \A i \in RecordIDs : new[i] = IF i = id THEN v ELSE f[i]

\* The others stay.
LEMMA EntryPut ==
    ASSUME NEW f, ByRecord(f), NEW id, NEW v, NEW new, Entry(new, f, id, v)
    PROVE  ByRecord(new) /\ OthersStay(new, f, id, v)
<1>1. DOMAIN f = RecordIDs
  BY DEF ByRecord
<1>2. new = [i \in RecordIDs |-> IF i = id THEN v ELSE f[i]]
  BY <1>1 DEF Entry
<1>. QED
  BY <1>2 DEF ByRecord, OthersStay

\* The index makes its first leaf (uint32_index_node_adapter.go:61-69, 123-136).
LEMMA TakesLeafStep ==
    ASSUME DBInv, TakesLeaf, UNCHANGED disk
    PROVE  DBInv'
<1>1. PICK b \in Blocks : IndexTakes(b)
  BY DEF TakesLeaf
<1>2. index = {} /\ op.pc = "index"
  BY <1>1 DEF TakesLeaf, IndexTakes
<1>3. /\ OpenInv /\ DiskIs(disk) /\ PagesFine(pages) /\ ByRecord(rows) /\ ByRecord(content)
  BY <1>2, OpenIs
<1>4. /\ Map!FirstFree(b) /\ bits' = bits \cup {Map!BitOf(b)} /\ held' = held \cup {b}
      /\ index' = {b} /\ avail' = avail /\ pages' = pages /\ rows' = rows /\ content' = content /\ op' = op
      /\ b \in dirty' /\ ControlBlock \in dirty' /\ MapBlock \in dirty'
  BY <1>1, <1>2 DEF IndexTakes
<1>5. MapHeld'
  BY <1>3, <1>4, MapTaken DEF OpenInv
<1>6. RecordsFine(rows, content, {b})
  BY <1>3 DEF OpenInv, RecordsFine
<1>7. OpFine(op, rows, content, {b})
  BY <1>2, <1>3 DEF OpenInv, OpFine
<1>8. InFile(disk, dirty', bits', avail, {b}, rows)
  BY <1>4 DEF InFile
<1>9. avail \in FineBlocks /\ {b} \subseteq Blocks
  BY <1>3 DEF OpenInv
<1>10. /\ DiskIs(disk') /\ PagesFine(pages') /\ ByRecord(rows') /\ ByRecord(content')
       /\ avail' \in FineBlocks /\ index' \subseteq Blocks
  BY <1>3, <1>4, <1>9, Zenon
<1>11. /\ RecordsFine(rows', content', index') /\ OpFine(op', rows', content', index')
       /\ InFile(disk', dirty', bits', avail', index', rows')
  BY <1>4, <1>6, <1>7, <1>8, Zenon
<1>. QED
  BY <1>5, <1>10, <1>11, StaysOpen

\* The call returns from the index, whose leaf is marked (insert.go, delete.go).
LEMMA IndexReturns ==
    ASSUME DBInv, op.pc \in {"index", "unindex"}, UNCHANGED <<pages, list, disk>>,
           NEW row, NEW data, Return(op.id, row, data), dirty' = dirty \cup index,
           index # {}, data # Absent => row \in ChunkRows
    PROVE  DBInv'
<1>1. /\ OpenInv /\ DiskIs(disk) /\ PagesFine(pages) /\ ByRecord(rows) /\ ByRecord(content)
  BY OpenIs
<1>2. op' = Idle /\ Entry(rows', rows, op.id, row) /\ Entry(content', content, op.id, data)
  BY DEF Return, Entry
<1>3. /\ avail' = avail /\ index' = index /\ bits' = bits /\ held' = held /\ pages' = pages /\ disk' = disk
  BY DEF list, map
<1>4. MapHeld'
  BY <1>1, <1>3, MapSame DEF OpenInv
<1>5. ByRecord(rows') /\ OthersStay(rows', rows, op.id, row)
  BY <1>1, <1>2, EntryPut
<1>6. ByRecord(content') /\ OthersStay(content', content, op.id, data)
  BY <1>1, <1>2, EntryPut
<1>7. RecordsFine(rows', content', index)
  BY <1>1, <1>5, <1>6 DEF OpenInv, RecordsFine, OthersStay
<1>8. InFile(disk, dirty', bits, avail, index, rows')
  <2>1. InFile(disk, dirty', bits, avail, index, rows)
    BY <1>1, InFileMarked DEF OpenInv
  <2>2. index \cap dirty' # {}
    OBVIOUS
  <2>. QED
    BY <2>1, <2>2 DEF InFile
<1>9. OpFine(op', rows', content', index')
  BY <1>2, IdleFine
<1>10. avail' \in FineBlocks /\ index' \subseteq Blocks /\ DiskIs(disk') /\ PagesFine(pages')
  BY <1>1, <1>3, Zenon DEF OpenInv
<1>11. RecordsFine(rows', content', index') /\ InFile(disk', dirty', bits', avail', index', rows')
  BY <1>3, <1>7, <1>8, Zenon
<1>. QED
  BY <1>4, <1>5, <1>6, <1>9, <1>10, <1>11, StaysOpen

\* An insert (actions/insert.go).
LEMMA IndexInsertStep ==
    ASSUME DBInv, index # {}, IndexInsert, UNCHANGED disk
    PROVE  DBInv'
<1>1. op.pc = "index"
  BY DEF IndexInsert
<1>2. op.row \in ChunkRows
  BY <1>1, OpenIs DEF OpenInv, OpFine
<1>3. Return(op.id, op.row, op.data) /\ dirty' = dirty \cup index /\ UNCHANGED <<pages, list, disk>>
  BY DEF IndexInsert
<1>. QED
  BY <1>1, <1>2, <1>3, IndexReturns

\* A delete (actions/delete.go).
LEMMA IndexDeleteStep ==
    ASSUME DBInv, IndexDelete, UNCHANGED disk
    PROVE  DBInv'
<1>1. op.pc = "unindex"
  BY DEF IndexDelete
<1>2. index # {}
  BY <1>1, OpenIs DEF OpenInv, OpFine
<1>3. Return(op.id, NoRow, Absent) /\ dirty' = dirty \cup index /\ UNCHANGED <<pages, list, disk>>
  BY DEF IndexDelete
<1>. QED
  BY <1>1, <1>2, <1>3, IndexReturns

\* A step of a call.
LEMMA DBStepStep ==
    ASSUME DBInv, DBStep
    PROVE  DBInv'
<1>1. UNCHANGED disk
  BY Zenon DEF DBStep
<1>2. \/ Place \/ MoveOn \/ Extend \/ Descend \/ RemoveChunk \/ Rewrite
      \/ TakesLeaf \/ (index # {} /\ IndexInsert) \/ IndexDelete
  BY Zenon DEF DBStep
<1>. QED
  BY <1>1, <1>2, PlaceStep, MoveOnStep, ExtendStep, DescendStep, RemoveChunkStep, RewriteStep,
     TakesLeafStep, IndexInsertStep, IndexDeleteStep, Zenon

-----------------------------------------------------------------------------
(* The file                                                                *)

\* What the file becomes when a block is written.
WrittenControl(d) == [d EXCEPT !.first = first, !.avail = avail, !.index = index]
WrittenMap(d) == [d EXCEPT !.bits = bits]
WrittenLeaf(d) == [d EXCEPT !.rows = rows]
WrittenPage(d, b) == [d EXCEPT !.pages[b] = pages[b]]

\* The control block.
LEMMA ControlWritten ==
    ASSUME NEW d, DiskIs(d), NEW e, e = WrittenControl(d)
    PROVE  /\ DiskIs(e) /\ e.avail = avail /\ e.index = index
           /\ e.bits = d.bits /\ e.rows = d.rows
BY DEF DiskIs, WrittenControl

\* The map.
LEMMA MapWritten ==
    ASSUME NEW d, DiskIs(d), NEW e, e = WrittenMap(d)
    PROVE  /\ DiskIs(e) /\ e.bits = bits
           /\ e.avail = d.avail /\ e.index = d.index /\ e.rows = d.rows
BY DEF DiskIs, WrittenMap

\* The leaf.
LEMMA LeafWritten ==
    ASSUME NEW d, DiskIs(d), ByRecord(rows), NEW e, e = WrittenLeaf(d)
    PROVE  /\ DiskIs(e) /\ e.rows = rows
           /\ e.bits = d.bits /\ e.avail = d.avail /\ e.index = d.index
BY DEF DiskIs, WrittenLeaf

\* A record block.
LEMMA PageWritten ==
    ASSUME NEW d, DiskIs(d), PagesFine(pages), NEW b, NEW e, e = WrittenPage(d, b)
    PROVE  /\ DiskIs(e)
           /\ e.bits = d.bits /\ e.avail = d.avail /\ e.index = d.index /\ e.rows = d.rows
<1> PICK ps : ps = PutPage(d.pages, b, pages[b])
  OBVIOUS
<1>1. b \in Blocks => FinePage(pages[b])
  BY DEF PagesFine
<1>2. PagesFine(d.pages)
  BY DEF DiskIs
<1>3. PagesFine(ps)
  BY <1>1, <1>2, PagePut
<1>4. e = [d EXCEPT !.pages = ps]
  BY Zenon DEF WrittenPage, PutPage
<1>. QED
  BY <1>3, <1>4 DEF DiskIs

\* A dirty block is written while the formatter's Sync runs (data_file_formatter.go:17-31,
\* data_buffer.go:100-113).
LEMMA FormattingFlush ==
    ASSUME DBInv, NEW b, Flush(b), op = Formatting
    PROVE  DBInv'
<1>1. /\ DiskIs(disk) /\ PagesFine(pages) /\ ByRecord(rows) /\ ByRecord(content)
      /\ NewFile(disk) /\ FormattingInv
  BY DEF DBInv
<1>2. /\ pages' = pages /\ avail' = avail /\ index' = index /\ bits' = bits /\ held' = held
      /\ rows' = rows /\ content' = content /\ op' = op /\ b \in dirty /\ dirty' = dirty \ {b}
  BY Zenon DEF Flush, list, map
<1>3. ControlBlock # MapBlock /\ (b = ControlBlock \/ b = MapBlock) /\ index = {}
  BY <1>1, <1>2 DEF FormattingInv, ControlBlock, MapBlock
<1>4. DiskIs(disk') /\ NewFile(disk') /\ FormattingInv'
  <2>1. CASE b = ControlBlock
    <3>1. disk' = WrittenControl(disk)
      BY <1>3, <2>1 DEF Flush, WrittenControl
    <3>2. /\ DiskIs(disk') /\ disk'.avail = avail /\ disk'.index = index /\ disk'.bits = disk.bits
      BY <1>1, <3>1, ControlWritten
    <3>. QED
      BY <1>1, <1>2, <1>3, <2>1, <3>2 DEF NewFile, FormattingInv
  <2>2. CASE b = MapBlock
    <3>1. disk' = WrittenMap(disk)
      BY <1>3, <2>2 DEF Flush, WrittenMap
    <3>2. /\ DiskIs(disk') /\ disk'.bits = bits /\ disk'.avail = disk.avail /\ disk'.index = disk.index
      BY <1>1, <3>1, MapWritten
    <3>. QED
      BY <1>1, <1>2, <1>3, <2>2, <3>2 DEF NewFile, FormattingInv
  <2>. QED
    BY <1>3, <2>1, <2>2
<1>5. NewFile(disk)' /\ op' = Formatting
  BY <1>1, <1>2, <1>4 DEF NewFile
<1>6. op' # Closed /\ PagesFine(pages') /\ ByRecord(rows') /\ ByRecord(content')
  BY <1>1, <1>2, <1>5 DEF Closed, Formatting
<1>. QED
  BY <1>4, <1>5, <1>6, Zenon DEF DBInv

\* A dirty block of an open database is written (data_buffer.go:100-113, 133-146).
LEMMA OpenFlush ==
    ASSUME DBInv, NEW b, Flush(b), op \notin {Closed, Formatting, Crashed}
    PROVE  DBInv'
<1>1. /\ DiskIs(disk) /\ PagesFine(pages) /\ ByRecord(rows) /\ ByRecord(content) /\ OpenInv
  BY DEF DBInv
<1>2. /\ pages' = pages /\ avail' = avail /\ index' = index /\ bits' = bits /\ held' = held
      /\ rows' = rows /\ content' = content /\ op' = op /\ dirty' = dirty \ {b}
  BY Zenon DEF Flush, list, map
<1>3. ControlBlock \notin index /\ MapBlock \notin index /\ ControlBlock # MapBlock
  BY <1>1, PositionsAre DEF OpenInv, ControlBlock, MapBlock
<1>4. /\ MapBlock \notin dirty => disk.bits = bits
      /\ ControlBlock \notin dirty => disk.avail = avail /\ disk.index = index
      /\ index \cap dirty = {} => disk.rows = rows
  BY <1>1 DEF OpenInv, InFile
<1>5. DiskIs(disk') /\ InFile(disk', dirty', bits, avail, index, rows)
  <2>1. CASE b = ControlBlock
    <3>1. disk' = WrittenControl(disk)
      BY <1>3, <2>1 DEF Flush, WrittenControl
    <3>2. /\ DiskIs(disk') /\ disk'.avail = avail /\ disk'.index = index
          /\ disk'.bits = disk.bits /\ disk'.rows = disk.rows
      BY <1>1, <3>1, ControlWritten
    <3>3. index \cap dirty' = {} => index \cap dirty = {}
      BY <1>2, <1>3, <2>1
    <3>. QED
      BY <1>2, <1>3, <1>4, <2>1, <3>2, <3>3 DEF InFile
  <2>2. CASE b = MapBlock
    <3>1. disk' = WrittenMap(disk)
      BY <1>3, <2>2 DEF Flush, WrittenMap
    <3>2. /\ DiskIs(disk') /\ disk'.bits = bits
          /\ disk'.avail = disk.avail /\ disk'.index = disk.index /\ disk'.rows = disk.rows
      BY <1>1, <3>1, MapWritten
    <3>3. index \cap dirty' = {} => index \cap dirty = {}
      BY <1>2, <1>3, <2>2
    <3>. QED
      BY <1>2, <1>3, <1>4, <2>2, <3>2, <3>3 DEF InFile
  <2>3. CASE b \notin {ControlBlock, MapBlock} /\ b \in index
    <3>1. disk' = WrittenLeaf(disk)
      BY <2>3 DEF Flush, WrittenLeaf
    <3>2. /\ DiskIs(disk') /\ disk'.rows = rows
          /\ disk'.bits = disk.bits /\ disk'.avail = disk.avail /\ disk'.index = disk.index
      BY <1>1, <3>1, LeafWritten
    <3>. QED
      BY <1>2, <1>4, <2>3, <3>2 DEF InFile
  <2>4. CASE b \notin {ControlBlock, MapBlock} /\ b \notin index
    <3>1. disk' = WrittenPage(disk, b)
      BY <2>4 DEF Flush, WrittenPage
    <3>2. /\ DiskIs(disk') /\ disk'.bits = disk.bits
          /\ disk'.avail = disk.avail /\ disk'.index = disk.index /\ disk'.rows = disk.rows
      BY <1>1, <3>1, PageWritten
    <3>3. index \cap dirty' = {} => index \cap dirty = {}
      BY <1>2, <2>4
    <3>. QED
      BY <1>2, <1>4, <2>4, <3>2, <3>3 DEF InFile
  <2>. QED
    BY <2>1, <2>2, <2>3, <2>4
<1>6. MapHeld'
  BY <1>1, <1>2, MapSame DEF OpenInv
<1>7. /\ avail \in FineBlocks /\ index \subseteq Blocks
      /\ RecordsFine(rows, content, index) /\ OpFine(op, rows, content, index)
  BY <1>1 DEF OpenInv
<1>8. /\ PagesFine(pages') /\ ByRecord(rows') /\ ByRecord(content')
      /\ avail' \in FineBlocks /\ index' \subseteq Blocks
      /\ RecordsFine(rows', content', index') /\ OpFine(op', rows', content', index')
      /\ InFile(disk', dirty', bits', avail', index', rows')
  BY <1>1, <1>2, <1>5, <1>7, Zenon
<1>. QED
  BY <1>5, <1>6, <1>8, StaysOpen

\* A formatted file that holds no records is opened.
LEMMA NewFileOpened ==
    ASSUME DiskIs(disk), NewFile(disk), disk.avail # 0, disk.bits = FormattedBits, ByRecord(content),
           LoadFile, op' = Idle, UNCHANGED <<held, content, disk>>
    PROVE  DBInv'
<1>1. /\ pages' = disk.pages /\ avail' = disk.avail /\ index' = disk.index /\ bits' = disk.bits
      /\ rows' = disk.rows /\ held' = held /\ content' = content /\ disk' = disk
  BY Zenon DEF LoadFile
<1>2. /\ held = 0 .. 3 /\ disk.avail = 3 /\ disk.index = {}
      /\ \A id \in RecordIDs : content[id] = Absent
  BY DEF NewFile
<1>3. MapHeld'
  BY <1>1, <1>2, MapFormatted
<1>4. avail' \in FineBlocks /\ index' \subseteq Blocks
  <2>1. 3 \in FineBlocks
    BY AllocatorAssumption DEF FineBlocks, Blocks
  <2>. QED
    BY <1>1, <1>2, <2>1
<1>5. DiskIs(disk') /\ PagesFine(pages') /\ ByRecord(rows') /\ ByRecord(content')
  BY <1>1 DEF DiskIs
<1>6. RecordsFine(rows', content', index')
  BY <1>1, <1>2 DEF RecordsFine
<1>7. OpFine(op', rows', content', index')
  BY IdleFine
<1>8. InFile(disk', dirty', bits', avail', index', rows')
  BY <1>1 DEF InFile
<1>. QED
  BY <1>3, <1>4, <1>5, <1>6, <1>7, <1>8, StaysOpen

\* A file is opened that was formatted, maybe by a process that died before it used it
\* (data_file_formatter.go:9-17).
LEMMA OpenStep ==
    ASSUME DBInv, Open, ~HalfFormatted
    PROVE  DBInv'
<1>1. op = Closed /\ disk.avail # 0 /\ LoadFile /\ op' = Idle /\ UNCHANGED <<held, content, disk>>
  BY Zenon DEF Open
<1>2. DiskIs(disk) /\ NewFile(disk) /\ ByRecord(content)
  BY <1>1 DEF DBInv
<1>3. disk.bits = FormattedBits
  BY <1>1, <1>2 DEF NewFile, HalfFormatted
<1>. QED
  BY <1>1, <1>2, <1>3, NewFileOpened

\* The formatter's Sync is done (simple_json_db.go:44-53).
LEMMA FormattedStep ==
    ASSUME DBInv, Formatted
    PROVE  DBInv'
<1>1. op = Formatting /\ dirty = {} /\ LoadFile /\ op' = Idle /\ UNCHANGED <<held, content, disk>>
  BY Zenon DEF Formatted
<1>2. DiskIs(disk) /\ NewFile(disk) /\ ByRecord(content) /\ FormattingInv
  BY <1>1 DEF DBInv
<1>3. disk.bits = FormattedBits /\ disk.avail # 0
  BY <1>1, <1>2 DEF FormattingInv
<1>. QED
  BY <1>1, <1>2, <1>3, NewFileOpened

\* A file is formatted, maybe again (data_file_formatter.go:19-31).
LEMMA FormatStep ==
    ASSUME DBInv, Format
    PROVE  DBInv'
<1>1. /\ op = Closed /\ op' = Formatting
      /\ avail' = 3 /\ index' = {} /\ bits' = disk.bits \cup FormattedBits
      /\ dirty' = {ControlBlock, MapBlock}
      /\ pages' = pages /\ held' = held /\ rows' = rows /\ content' = content /\ disk' = disk
  BY Zenon DEF Format, FormattedBits
<1>2. /\ DiskIs(disk) /\ PagesFine(pages) /\ ByRecord(rows) /\ ByRecord(content) /\ NewFile(disk)
  BY <1>1 DEF DBInv
<1>3. bits' = FormattedBits
  BY <1>1, <1>2 DEF NewFile
<1>4. FormattingInv'
  BY <1>1, <1>3 DEF FormattingInv
<1>5. NewFile(disk)'
  BY <1>1, <1>2 DEF NewFile
<1>6. op' # Closed
  BY <1>1 DEF Formatting, Closed
<1>7. /\ DiskIs(disk') /\ PagesFine(pages') /\ ByRecord(rows') /\ ByRecord(content')
  BY <1>1, <1>2, Zenon
<1>. QED
  BY <1>1, <1>4, <1>5, <1>6, <1>7, Zenon DEF DBInv

\* Sync is done and the file is closed and opened again: memory is what it was, but for
\* what was not marked (simple_json_db.go:55-60).
LEMMA CloseStep ==
    ASSUME DBInv, Close
    PROVE  DBInv'
<1>1. op = Idle /\ dirty = {} /\ LoadFile /\ UNCHANGED <<held, content, op, disk>>
  BY Zenon DEF Close
<1>2. op.pc \notin {"closed", "format", "crashed"}
  BY <1>1 DEF Idle
<1>3. OpenInv /\ DiskIs(disk) /\ ByRecord(rows) /\ ByRecord(content)
  BY <1>2, OpenIs
<1>4. disk.bits = bits /\ disk.avail = avail /\ disk.index = index /\ disk.rows = rows
  BY <1>1, <1>3 DEF OpenInv, InFile
<1>5. /\ pages' = disk.pages /\ avail' = avail /\ index' = index /\ bits' = bits
      /\ rows' = rows /\ held' = held /\ content' = content /\ disk' = disk /\ op' = Idle
  BY <1>1, <1>4, Zenon DEF LoadFile
<1>6. MapHeld'
  BY <1>3, <1>5, MapSame DEF OpenInv
<1>7. PagesFine(pages')
  BY <1>3, <1>5 DEF DiskIs
<1>8. OpFine(op', rows', content', index')
  BY <1>5, IdleFine
<1>9. InFile(disk', dirty', bits', avail', index', rows')
  BY <1>4, <1>5 DEF InFile
<1>10. avail \in FineBlocks /\ index \subseteq Blocks /\ RecordsFine(rows, content, index)
  BY <1>3 DEF OpenInv
<1>11. /\ DiskIs(disk') /\ ByRecord(rows') /\ ByRecord(content') /\ avail' \in FineBlocks
       /\ index' \subseteq Blocks /\ RecordsFine(rows', content', index')
  BY <1>3, <1>5, <1>10, Zenon
<1>. QED
  BY <1>6, <1>7, <1>8, <1>9, <1>11, StaysOpen

\* The process dies (simple_json_db.go:36-53).
LEMMA CrashStep ==
    ASSUME DBInv, Crash
    PROVE  DBInv'
<1>1. /\ pages' = disk.pages /\ rows' = disk.rows /\ dirty' = {}
      /\ held' = held /\ content' = content /\ disk' = disk
      /\ op' = IF op = Formatting THEN Closed ELSE Crashed
  BY Zenon DEF Crash, LoadFile
<1>2. DiskIs(disk) /\ ByRecord(content) /\ (op = Formatting => NewFile(disk))
  BY DEF DBInv
<1>3. DiskIs(disk') /\ PagesFine(pages') /\ ByRecord(rows') /\ ByRecord(content')
  BY <1>1, <1>2 DEF DiskIs
<1>4. op' \in {Closed, Crashed} /\ op' # Formatting /\ (op' = Closed => op = Formatting)
  BY <1>1 DEF Closed, Crashed, Formatting
<1>5. op = Formatting => NewFile(disk)'
  BY <1>1, <1>2 DEF NewFile
<1>6. /\ op' \in {Closed, Formatting} => NewFile(disk)'
      /\ op' = Closed => dirty' = {}
      /\ op' = Formatting => FormattingInv'
      /\ op' \notin {Closed, Formatting, Crashed} => OpenInv'
  BY <1>1, <1>4, <1>5
<1>. QED
  BY <1>3, <1>6, Zenon DEF DBInv

\* A block that is not dirty is evicted, and read again later (data_buffer.go:133-146).
LEMMA DropStep ==
    ASSUME DBInv, NEW b, Drop(b)
    PROVE  DBInv'
<1>1. op = Idle /\ UNCHANGED <<list, disk, rows, content>> /\ dirty' = dirty \cup {} /\ op' = op
  BY DEF Drop
<1>2. pages' = PutPage(pages, b, disk.pages[b])
  BY Zenon DEF Drop, PutPage
<1>3. op.pc \notin {"closed", "format", "crashed"}
  BY <1>1 DEF Idle
<1>4. PagesFine(pages) /\ PagesFine(disk.pages)
  BY <1>3, OpenIs DEF DiskIs
<1>5. PagesFine(pages')
  <2>1. b \in Blocks => FinePage(disk.pages[b])
    BY <1>4 DEF PagesFine
  <2>. QED
    BY <1>2, <1>4, <2>1, PagePut
<1>6. OpFine(op', rows, content, index)
  BY <1>1, IdleFine
<1>. QED
  BY <1>1, <1>3, <1>5, <1>6, CallGoesOn

-----------------------------------------------------------------------------
(* The theorems                                                            *)

\* A new file has nothing in it (simple_json_db.go:36-42).
LEMMA DBInvInit == DBInit => DBInv
<1> SUFFICES ASSUME DBInit PROVE DBInv
  OBVIOUS
<1>1. /\ disk = ZeroFile /\ pages = disk.pages /\ rows = disk.rows /\ held = 0 .. 3
      /\ content = [id \in RecordIDs |-> Absent] /\ dirty = {} /\ op = Closed
  BY Zenon DEF DBInit
<1>2. PagesFine(disk.pages)
  BY <1>1, EmptyPageIsFine DEF ZeroFile, PagesFine
<1>3. ByRecord(disk.rows) /\ ByRecord(content)
  BY <1>1 DEF ZeroFile, ByRecord
<1>4. DiskIs(disk)
  BY <1>1, <1>2, <1>3 DEF DiskIs, ZeroFile
<1>5. NewFile(disk)
  BY <1>1 DEF NewFile, ZeroFile
<1>6. op = Closed /\ op # Formatting
  BY <1>1 DEF Closed, Formatting
<1>. QED
  BY <1>1, <1>2, <1>3, <1>4, <1>5, <1>6 DEF DBInv

\* Nothing changes.
LEMMA DBStutters ==
    ASSUME DBInv, UNCHANGED dbVars
    PROVE  DBInv'
BY DEF DBInv, dbVars, vars, list, map, NewFile, FormattingInv, OpenInv, MapHeld, Map!HeldIsInUse,
       Map!IsInUse, Map!PartnersStayFree

\* Every step keeps the invariant.
LEMMA DBInvStep ==
    ASSUME DBInv, [~Defect /\ ~HalfFormatted /\ DBNext]_dbVars
    PROVE  DBInv'
<1>1. CASE UNCHANGED dbVars
  BY <1>1, DBStutters
<1>2. ASSUME NEW b \in Blocks \cup {ControlBlock, MapBlock}, Flush(b) PROVE DBInv'
  <2>1. CASE op = Formatting
    BY <1>2, <2>1, FormattingFlush
  <2>2. CASE op # Formatting
    <3>1. b \in dirty /\ op # Crashed
      BY <1>2 DEF Flush
    <3>2. op # Closed
      BY <3>1 DEF DBInv
    <3>. QED
      BY <1>2, <2>2, <3>1, <3>2, OpenFlush
  <2>. QED
    BY <2>1, <2>2
<1>3. ASSUME ~HalfFormatted, DBNext PROVE DBInv'
  <2>1. \/ Open \/ Format \/ Formatted \/ Close \/ Crash \/ DBCall \/ DBStep
        \/ \E b \in Blocks \cup {ControlBlock, MapBlock} : Flush(b)
        \/ \E b \in Blocks : Drop(b)
    BY <1>3, Zenon DEF DBNext
  <2>. QED
    BY <1>2, <1>3, <2>1, OpenStep, FormatStep, FormattedStep, CloseStep, CrashStep, DropStep,
       DBCallStep, DBStepStep, Zenon
<1>. QED
  BY <1>1, <1>3, Zenon

\* The inductive invariant holds in every state.
THEOREM DBInvariant == DBSafeSpec => []DBInv
<1>1. DBInv /\ [~Defect /\ ~HalfFormatted /\ DBNext]_dbVars => DBInv'
  BY DBInvStep
<1>. QED
  BY <1>1, DBInvInit, PTL DEF DBSafeSpec

\* In an open database every block somebody owns is in use in the map, also after
\* formatting was cut short before the control block was written, and after a reopen
\* (data_file_formatter.go:17-31, record_allocator.go:181-225).
THEOREM OwnedBlocksInUse == DBSafeSpec => []OwnedIsInUse
<1>1. DBInv => OwnedIsInUse
  <2> SUFFICES ASSUME DBInv, op.pc \notin {"closed", "format", "crashed"}
               PROVE  \A b \in held : Map!IsInUse(b)
    BY DEF OwnedIsInUse
  <2>. QED
    BY OpenIs DEF OpenInv, MapHeld, Map!HeldIsInUse
<1>. QED
  BY <1>1, DBInvariant, PTL
=============================================================================
