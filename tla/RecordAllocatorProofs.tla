------------------------ MODULE RecordAllocatorProofs ------------------------
(***************************************************************************)
(* The theorems about the record allocator: the record blocks stay one     *)
(* list, linked both ways, without empty blocks but the last; no call      *)
(* panics; blocks are taken from the map and given back as the map's       *)
(* specification allows; every record is read back with the data it was    *)
(* given; and no chunk stays that belongs to no record.  They are for      *)
(* blocks, files and records of any size and any number of records,        *)
(* outside the states Defect names.                                        *)
(*                                                                         *)
(* What makes it hard is that a block leaves the list in the middle of a   *)
(* call, while chunks elsewhere still name rows on it.  The invariant      *)
(* CoreInv therefore says for every record how its chunks follow each      *)
(* other, in the order of their blocks in the list.  TextInv adds what     *)
(* the chunks hold: the record's data, each byte once and in order, and    *)
(* half way in a call the bytes written so far.                            *)
(***************************************************************************)
EXTENDS RecordAllocator, RecordBlockProofs

-----------------------------------------------------------------------------
(* One block                                                               *)

\* Headers in use are those of records, one each, and have bytes.
Tidy(p) ==
    /\ \A m \in 1 .. Len(p.headers) :
          p.headers[m].id # 0 => p.headers[m].id \in RecordIDs /\ p.headers[m].size # 0
    /\ \A m, l \in 1 .. Len(p.headers) :
          p.headers[m].id # 0 /\ p.headers[m].id = p.headers[l].id => m = l

\* A block with headers has room for a byte besides.
Roomy(p) == Len(p.headers) # 0 => MinUsed + Len(p.headers) * HeaderSize < PageSize

PageOK(p) == Packed(p) /\ Tidy(p) /\ Roomy(p)

\* What a block holds of a record: the header and the bytes it names.
Entry(p, m) ==
    [id |-> p.headers[m].id, chain |-> p.headers[m].chain, data |-> ReadRecordData(p, m - 1)]

Entries(p) == [m \in Live(p) |-> Entry(p, m)]

With(g, x, e) == [y \in DOMAIN g \cup {x} |-> IF y = x THEN e ELSE g[y]]

Without(g, x) == [y \in DOMAIN g \ {x} |-> g[y]]

\* A function that differs from g at x alone (RowIDs and positions of headers).
LEMMA WithIs ==
    ASSUME NEW g, NEW x, NEW f, f = [y \in DOMAIN f |-> f[y]], x \in DOMAIN f,
           Without(f, x) = Without(g, x)
    PROVE  f = With(g, x, f[x])
<1>1. \A y : y \in DOMAIN f /\ y # x <=> y \in DOMAIN g /\ y # x
  <2>1. DOMAIN Without(f, x) = DOMAIN f \ {x} /\ DOMAIN Without(g, x) = DOMAIN g \ {x}
    BY Zenon DEF Without
  <2>. QED
    BY <2>1, Zenon
<1>2. DOMAIN f = DOMAIN g \cup {x}
  BY <1>1, Zenon
<1>3. ASSUME NEW y \in DOMAIN f, y # x PROVE f[y] = g[y]
  <2>1. Without(f, x)[y] = f[y] /\ Without(g, x)[y] = g[y]
    BY <1>1, <1>3, Zenon DEF Without
  <2>. QED
    BY <2>1, Zenon
<1>4. f = [y \in DOMAIN g \cup {x} |-> f[y]]
  BY <1>2, Zenon
<1>5. \A y \in DOMAIN g \cup {x} : f[y] = IF y = x THEN f[x] ELSE g[y]
  BY <1>2, <1>3, Zenon
<1>6. [y \in DOMAIN g \cup {x} |-> f[y]] = [y \in DOMAIN g \cup {x} |-> IF y = x THEN f[x] ELSE g[y]]
  BY <1>5, Zenon
<1>. QED
  BY <1>4, <1>6, Zenon DEF With

\* The headers in use of a block.
LEMMA LiveIs ==
    ASSUME NEW p, IsPage(p)
    PROVE  /\ Len(p.headers) \in Nat
           /\ \A m : m \in Live(p) <=> m \in 1 .. Len(p.headers) /\ p.headers[m].id # 0
<1>1. p.headers \in Seq(HeaderRec)
  BY DEF IsPage
<1>2. DOMAIN p.headers = 1 .. Len(p.headers) /\ Len(p.headers) \in Nat
  BY <1>1
<1>. QED
  BY <1>2, Zenon DEF Live

\* The records of q and p are the same, but for header h.
Agree(q, p, h) ==
    \A m : m # h =>
        /\ m \in Live(q) <=> m \in Live(p)
        /\ m \in Live(p) =>
              /\ q.headers[m].id = p.headers[m].id /\ q.headers[m].chain = p.headers[m].chain
              /\ q.headers[m].size = p.headers[m].size
              /\ \A o \in 0 .. p.headers[m].size - 1 :
                    q.bytes[q.headers[m].start + o] = p.bytes[p.headers[m].start + o]

\* Records that have only been moved are the same (record_block.go:283-302).
LEMMA EntriesAgree ==
    ASSUME NEW p, IsPage(p), NEW q, IsPage(q), NEW h, Agree(q, p, h)
    PROVE  Without(Entries(q), h) = Without(Entries(p), h)
<1>1. Live(q) \ {h} = Live(p) \ {h}
  BY Zenon DEF Agree
<1>2. ASSUME NEW m \in Live(p), m # h PROVE Entry(q, m) = Entry(p, m)
  <2> DEFINE n == p.headers[m].size
  <2>1. m \in Live(q)
    BY <1>2 DEF Agree
  <2>2. m \in 1 .. Len(p.headers) /\ m \in 1 .. Len(q.headers) /\ m \in Nat \ {0}
    <3>1. m \in 1 .. Len(p.headers) /\ Len(p.headers) \in Nat
      BY LiveIs
    <3>2. m \in 1 .. Len(q.headers)
      BY <2>1, LiveIs
    <3>. QED
      BY <3>1, <3>2
  <2>3. n \in Nat /\ p.headers[m].start \in Nat /\ q.headers[m].start \in Nat
    BY <2>2, HeaderNumbers DEF IsPage
  <2>4. /\ q.headers[m].id = p.headers[m].id /\ q.headers[m].chain = p.headers[m].chain
        /\ q.headers[m].size = n
        /\ \A o \in 0 .. n - 1 : q.bytes[q.headers[m].start + o] = p.bytes[p.headers[m].start + o]
    BY <1>2 DEF Agree
  <2>5. ReadRecordData(q, m - 1) = ReadRecordData(p, m - 1)
    <3>1. p.headers[m].size = n
      OBVIOUS
    <3> HIDE DEF n
    <3>. QED
      BY <3>1, <2>2, <2>3, <2>4, SameRead
  <2>. QED
    BY <2>4, <2>5, Zenon DEF Entry
<1>3. DOMAIN Entries(q) = Live(q) /\ DOMAIN Entries(p) = Live(p)
  BY Zenon DEF Entries
<1>4. \A m \in Live(p) \ {h} : Entries(q)[m] = Entries(p)[m]
  <2>1. \A m \in Live(p) \ {h} : Entries(q)[m] = Entry(q, m) /\ Entries(p)[m] = Entry(p, m)
    BY <1>1, Zenon DEF Entries
  <2>. QED
    BY <2>1, <1>2, Zenon
<1>5. [m \in Live(p) \ {h} |-> Entries(q)[m]] = [m \in Live(p) \ {h} |-> Entries(p)[m]]
  BY <1>4, Zenon
<1>. QED
  BY <1>1, <1>3, <1>5, Zenon DEF Without

\* A block all of whose records but that of header h are as they were.
LEMMA EntriesWith ==
    ASSUME NEW p, NEW q, NEW h \in Live(q), Without(Entries(q), h) = Without(Entries(p), h),
           NEW e, Entry(q, h) = e
    PROVE  Entries(q) = With(Entries(p), h, e)
<1> DEFINE f == Entries(q)
           g == Entries(p)
<1>1. DOMAIN f = Live(q) /\ f[h] = e
  BY Zenon DEF Entries
<1>2. f = [y \in DOMAIN f |-> f[y]]
  BY <1>1, Zenon DEF Entries
<1>3. h \in DOMAIN f
  BY <1>1
<1>4. Without(f, h) = Without(g, h)
  OBVIOUS
<1> HIDE DEF f, g
<1>5. f = With(g, h, f[h])
  BY <1>2, <1>3, <1>4, WithIs, Zenon
<1>. QED
  BY <1>1, <1>5, Zenon DEF f, g

\* A record that is gone.
LEMMA EntriesWithout ==
    ASSUME NEW p, NEW q, NEW h, h \notin Live(q), Without(Entries(q), h) = Without(Entries(p), h)
    PROVE  Entries(q) = Without(Entries(p), h)
<1>1. DOMAIN Entries(q) = Live(q) /\ Live(q) \ {h} = Live(q)
  BY Zenon DEF Entries
<1>2. Without(Entries(q), h) = [y \in Live(q) |-> Entries(q)[y]]
  BY <1>1, Zenon DEF Without
<1>3. Entries(q) = [y \in Live(q) |-> Entries(q)[y]]
  BY <1>1, Zenon DEF Entries
<1>. QED
  BY <1>2, <1>3, Zenon

\* What an operation leaves of a block: in order, with its links, and with the records g.
Became(q, p, g) == PageOK(q) /\ q.next = p.next /\ q.prev = p.prev /\ Entries(q) = g

\* What Add puts into a header.
Chunk(id, data) == [id |-> id, chain |-> NoRow, data |-> data]

\* Forgetting bytes of no record changes nothing (record_block.go:155-172).
LEMMA ForgetOnPage ==
    ASSUME NEW p, Packed(p)
    PROVE  /\ Entries(Forget(p)) = Entries(p)
           /\ PageOK(p) => PageOK(Forget(p))
           /\ FreeSpaceForInsert(Forget(p)) = FreeSpaceForInsert(p)
           /\ Forget(p).headers = p.headers /\ Forget(p).next = p.next /\ Forget(p).prev = p.prev
<1> DEFINE q == Forget(p)
<1>1. Forgotten(q, p)
  BY ForgetIs
<1>2. Packed(q)
  BY ForgetIs
<1> HIDE DEF q
<1>3. IsPage(p) /\ IsPage(q) /\ q.headers = p.headers /\ q.used = p.used /\ q.next = p.next /\ q.prev = p.prev
  BY <1>1 DEF Forgotten, Packed
<1>4. Live(q) = Live(p)
  BY <1>3, Zenon DEF Live
<1>5. Agree(q, p, 0)
  <2>1. \A m : m \in Live(p) => m \in 1 .. Len(p.headers) /\ p.headers[m].id # 0
    BY <1>3, LiveIs
  <2>. QED
    BY <1>1, <1>4, <2>1 DEF Agree, Forgotten
<1>6. Without(Entries(q), 0) = Without(Entries(p), 0)
  BY <1>3, <1>5, EntriesAgree
<1>7. 0 \notin Live(p) /\ 0 \notin Live(q)
  <2>1. 0 \notin Live(p)
    BY <1>3, LiveIs
  <2>. QED
    BY <2>1, <1>4
<1>8. Entries(q) = Without(Entries(p), 0) /\ Entries(p) = Without(Entries(p), 0)
  BY <1>6, <1>7, EntriesWithout
<1>9. PageOK(p) => PageOK(q)
  BY <1>2, <1>3 DEF PageOK, Tidy, Roomy
<1>10. FreeSpaceForInsert(q) = FreeSpaceForInsert(p)
  BY <1>3, Zenon DEF FreeSpaceForInsert, Utilization
<1>. QED
  BY <1>3, <1>8, <1>9, <1>10 DEF q

\* Add on a block from which record i is gone, or is gone but for its header: what was
\* ready is in order, and the others are as they were (record_block.go:72-146).
LEMMA AddOnPage ==
    ASSUME NEW p, NEW z, NEW E, NEW i \in RecordIDs, Ready(p, z, E, i), Roomy(p),
           \A m \in 1 .. Len(p.headers) : p.headers[m].id \notin {0, i} => p.headers[m].id \in RecordIDs,
           \A m, l \in 1 .. Len(p.headers) :
               p.headers[m].id # 0 /\ p.headers[m].id = p.headers[l].id => m = l,
           NEW data, IsBytes(data), Len(data) # 0, Len(data) <= FreeSpaceForInsert(p),
           NEW r \in Add(p, i, data)
    PROVE  /\ r.local \in Nat /\ Packed(r.page) /\ PageOK(r.page)
           /\ r.page.next = p.next /\ r.page.prev = p.prev
           /\ Agree(r.page, p, r.local + 1)
           /\ r.local + 1 \in Live(r.page) /\ Entry(r.page, r.local + 1) = Chunk(i, data)
           /\ \A m \in 1 .. Len(p.headers) : p.headers[m].id = i => r.local + 1 = m
           /\ r.local + 1 \in Live(p) => p.headers[r.local + 1].id = i
           /\ Len(data) = FreeSpaceForInsert(p) => FreeSpaceForInsert(r.page) = 0
<1> DEFINE q == r.page
           h == r.local + 1
<1>1. Added(r, p, i, data)
  <2>1. i \in Nat \ {0} /\ Len(data) \in Nat \ {0}
    BY RecordsAssumption DEF IsBytes
  <2>. QED
    BY <2>1, AddIs
<1>2. /\ r.local \in Nat /\ IsPlaced(q, h, p, i, data)
      /\ \A m \in 1 .. Len(p.headers) : p.headers[m].id = i => h = m
      /\ h <= Len(p.headers) => p.headers[h].id \in {0, i}
      /\ Len(data) = FreeSpaceForInsert(p) => FreeSpaceForInsert(q) = 0
  BY <1>1 DEF Added
<1> HIDE DEF q, h
<1>3. /\ Packed(q) /\ IsPage(q) /\ IsPage(p) /\ Len(p.headers) <= Len(q.headers)
      /\ q.next = p.next /\ q.prev = p.prev /\ OthersKept(q, h, p) /\ Holds(q, h, i, data)
  BY <1>2 DEF IsPlaced, Packed, Ready
<1>4. /\ Len(p.headers) \in Nat /\ Len(q.headers) \in Nat /\ h \in 1 .. Len(q.headers)
      /\ \A m : m \in Live(p) <=> m \in 1 .. Len(p.headers) /\ p.headers[m].id # 0
      /\ \A m : m \in Live(q) <=> m \in 1 .. Len(q.headers) /\ q.headers[m].id # 0
  BY <1>3, LiveIs DEF Holds
<1>5. \A m \in 1 .. Len(q.headers) : m # h =>
          /\ m \in 1 .. Len(p.headers)
          /\ q.headers[m].id = p.headers[m].id /\ q.headers[m].chain = p.headers[m].chain
          /\ p.headers[m].id # 0 => q.headers[m].size = p.headers[m].size
          /\ p.headers[m].id # 0 => \A o \in 0 .. p.headers[m].size - 1 :
                q.bytes[q.headers[m].start + o] = p.bytes[p.headers[m].start + o]
  BY <1>3, <1>4 DEF OthersKept
<1>6. \A m \in 1 .. Len(p.headers) : m \in 1 .. Len(q.headers)
  BY <1>3, <1>4
<1>7. Agree(q, p, h)
  <2>1. ASSUME NEW m, m # h PROVE m \in Live(q) <=> m \in Live(p)
    BY <2>1, <1>4, <1>5, <1>6
  <2>2. ASSUME NEW m, m # h, m \in Live(p)
        PROVE  /\ q.headers[m].id = p.headers[m].id /\ q.headers[m].chain = p.headers[m].chain
               /\ q.headers[m].size = p.headers[m].size
               /\ \A o \in 0 .. p.headers[m].size - 1 :
                     q.bytes[q.headers[m].start + o] = p.bytes[p.headers[m].start + o]
    BY <2>2, <1>4, <1>5, <1>6
  <2>. QED
    BY <2>1, <2>2, Zenon DEF Agree
<1>8. q.headers[h].id = i /\ q.headers[h].size = Len(data) /\ q.headers[h].chain = NoRow /\ i # 0
  BY <1>3, RecordsAssumption DEF Holds
<1>9. h \in Live(q) /\ Entry(q, h) = Chunk(i, data)
  <2>1. q.headers \in Seq(HeaderRec)
    BY <1>3 DEF IsPage
  <2>2. ReadsAs(q, h, data)
    BY <2>1, <1>3, ReadIs
  <2>. QED
    BY <2>2, <1>4, <1>8, Zenon DEF ReadsAs, Entry, Chunk
<1>10. Tidy(q)
  <2>1. ASSUME NEW m \in 1 .. Len(q.headers), q.headers[m].id # 0
        PROVE  q.headers[m].id \in RecordIDs /\ q.headers[m].size # 0
    <3>1. CASE m = h
      BY <3>1, <1>8
    <3>2. CASE m # h
      <4>1. /\ m \in 1 .. Len(p.headers) /\ p.headers[m].id # 0
            /\ q.headers[m].id = p.headers[m].id /\ q.headers[m].size = p.headers[m].size
        BY <3>2, <2>1, <1>5
      <4>2. p.headers[m].id # i
        BY <4>1, <3>2, <1>2
      <4>3. p.headers[m].size # 0
        BY <4>1, <4>2 DEF Ready
      <4>. QED
        BY <4>1, <4>2, <4>3
    <3>. QED
      BY <3>1, <3>2
  <2>2. ASSUME NEW m \in 1 .. Len(q.headers), NEW l \in 1 .. Len(q.headers),
               q.headers[m].id # 0, q.headers[m].id = q.headers[l].id
        PROVE  m = l
    <3>1. \A k \in 1 .. Len(q.headers) : k # h => k \in 1 .. Len(p.headers) /\ q.headers[k].id = p.headers[k].id
      BY <1>5
    <3>2. \A k \in 1 .. Len(q.headers) : k # h => q.headers[k].id # i
      BY <3>1, <1>2
    <3>. QED
      BY <2>2, <3>1, <3>2, <1>8
  <2>. QED
    BY <2>1, <2>2 DEF Tidy
<1>11. Roomy(q)
  <2>1. PICK F : /\ Fill(q.headers, SizesOf(q.headers), F)
                 /\ F + MinUsed + Len(q.headers) * HeaderSize <= PageSize
    BY <1>3 DEF Packed
  <2>2. SizesOf(q.headers)[h] = Len(data) /\ q.headers[h].start \in Nat
    <3>1. q.headers[h] \in HeaderRec
      BY <1>3, <1>4 DEF IsPage
    <3>. QED
      BY <3>1, <1>4, <1>8, HeaderNumbers DEF SizesOf
  <2>3. q.headers[h].start + Len(data) <= F
    BY <2>1, <2>2, <1>4 DEF Fill
  <2>4. F \in Nat /\ Len(data) \in Nat
    BY <2>1, PageAssumption DEF Fill, Addresses, IsBytes
  <2>5. F > 0
    BY <2>2, <2>3, <2>4
  <2> DEFINE room == Len(q.headers) * HeaderSize
  <2>6. room \in Nat
    BY <1>4, PageAssumption
  <2>7. F + MinUsed + room <= PageSize
    BY <2>1
  <2> HIDE DEF room
  <2>8. MinUsed + room < PageSize
    BY <2>4, <2>5, <2>6, <2>7, PageAssumption
  <2>. QED
    BY <2>8 DEF Roomy, room
<1>. QED
  BY <1>2, <1>3, <1>4, <1>7, <1>8, <1>9, <1>10, <1>11 DEF PageOK, q, h

\* What an Add that does not overwrite leaves (record_allocator.go:80-82, 107-113).
PutOn(q, p, l, i, data) ==
    /\ l \in Nat
    /\ Became(q, p, With(Entries(p), l + 1, Chunk(i, data)))

\* A chunk of a record the block does not have is added (record_allocator.go:80-82, 107-113).
LEMMA PlaceOnPage ==
    ASSUME NEW p, PageOK(p), NEW i \in RecordIDs,
           \A m \in Live(p) : p.headers[m].id # i,
           NEW data, IsBytes(data), Len(data) # 0, Len(data) <= FreeSpaceForInsert(p),
           NEW r \in Add(p, i, data)
    PROVE  /\ PutOn(Forget(r.page), p, r.local, i, data)
           /\ r.local + 1 \notin Live(p)
           /\ Len(data) = FreeSpaceForInsert(p) => FreeSpaceForInsert(Forget(r.page)) = 0
<1> DEFINE z == SizesOf(p.headers)
           n == Len(p.headers)
<1>1. /\ Packed(p) /\ IsPage(p) /\ Counted(p) /\ Roomy(p) /\ i # 0
      /\ n \in Nat /\ \A m : m \in Live(p) <=> m \in 1 .. n /\ p.headers[m].id # 0
  BY LiveIs, RecordsAssumption DEF PageOK, Packed
<1>2. PICK E : Fill(p.headers, z, E)
  BY <1>1 DEF Packed
<1>3. /\ \A m \in 1 .. n : p.headers[m].id # 0 => p.headers[m].id \in RecordIDs /\ p.headers[m].size # 0
      /\ \A m, l \in 1 .. n : p.headers[m].id # 0 /\ p.headers[m].id = p.headers[l].id => m = l
      /\ \A m \in 1 .. n : p.headers[m].id # i
  BY <1>1 DEF PageOK, Tidy
<1>4. Ready(p, z, E, i)
  <2>1. \A m \in 1 .. n : z[m] = p.headers[m].size
    BY DEF SizesOf
  <2> HIDE DEF z
  <2>2. Owned(p.headers, z)
    BY <2>1, <1>3 DEF Owned
  <2>. QED
    BY <2>2, <1>1, <1>2, <1>3 DEF Ready
<1> DEFINE q == r.page
           h == r.local + 1
<1> HIDE DEF z
<1>5. /\ r.local \in Nat /\ Packed(q) /\ PageOK(q)
      /\ q.next = p.next /\ q.prev = p.prev
      /\ Agree(q, p, h)
      /\ h \in Live(q) /\ Entry(q, h) = Chunk(i, data)
      /\ h \in Live(p) => p.headers[h].id = i
      /\ Len(data) = FreeSpaceForInsert(p) => FreeSpaceForInsert(q) = 0
  BY <1>1, <1>3, <1>4, AddOnPage
<1> HIDE DEF q, h
<1>6. h \notin Live(p)
  BY <1>1, <1>3, <1>5
<1>7. Entries(q) = With(Entries(p), h, Chunk(i, data))
  <2>1. IsPage(q)
    BY <1>5 DEF Packed
  <2>2. Without(Entries(q), h) = Without(Entries(p), h)
    BY <2>1, <1>1, <1>5, EntriesAgree
  <2>. QED
    BY <2>2, <1>5, EntriesWith
<1>8. PutOn(Forget(q), p, r.local, i, data)
  <2>1. /\ Entries(Forget(q)) = Entries(q) /\ PageOK(Forget(q))
        /\ Forget(q).next = q.next /\ Forget(q).prev = q.prev
    BY <1>5, ForgetOnPage
  <2>. QED
    BY <2>1, <1>5, <1>7 DEF PutOn, Became, h
<1>9. FreeSpaceForInsert(Forget(q)) = FreeSpaceForInsert(q)
  BY <1>5, ForgetOnPage
<1>. QED
  BY <1>5, <1>6, <1>8, <1>9 DEF q, h

\* A header that a removal changed is the only one (record_block.go:148-203).
LEMMA VacatedAgree ==
    ASSUME NEW p, IsPage(p), NEW h, NEW e, NEW q, Vacated(q, p, h, e)
    PROVE  IsPage(q) /\ Agree(q, p, h) /\ Len(q.headers) = Len(p.headers) /\ q.headers[h] = e /\ q.next = p.next
<1>1. /\ IsPage(q) /\ Len(q.headers) = Len(p.headers) /\ q.headers[h] = e /\ q.next = p.next
      /\ q.bytes = p.bytes
      /\ \A m \in 1 .. Len(p.headers) : m # h => q.headers[m] = p.headers[m]
  BY DEF Vacated
<1>2. /\ \A m : m \in Live(p) <=> m \in 1 .. Len(p.headers) /\ p.headers[m].id # 0
      /\ \A m : m \in Live(q) <=> m \in 1 .. Len(p.headers) /\ q.headers[m].id # 0
  BY <1>1, LiveIs
<1>3. Agree(q, p, h)
  BY <1>1, <1>2, Zenon DEF Agree
<1>. QED
  BY <1>1, <1>3

\* The space a block offers is a number (record_block.go:304-325).
LEMMA FreeSpaceOnPage ==
    ASSUME NEW p, PageOK(p)
    PROVE  FreeSpaceForInsert(p) \in Nat
BY UtilizationFits, FreeSpaceIs DEF PageOK

\* SoftRemove on a block in order (record_block.go:175-203): the header before it names a
\* record whose id has no high half, or none.
LEMMA SoftRemoveOnPage ==
    ASSUME NEW p, PageOK(p), NEW l \in Nat, l + 1 \in Live(p), ~CutsID(p, l),
           NEW s, s = SoftRemove(p, l)
    PROVE  /\ Vacated(s, p, l + 1, [p.headers[l + 1] EXCEPT !.size = 0, !.chain = NoRow])
           /\ FreeSpaceForInsert(s) \in Nat
<1> DEFINE n == Len(p.headers)
           e == [p.headers[l + 1] EXCEPT !.size = 0, !.chain = NoRow]
<1>1. /\ Packed(p) /\ IsPage(p) /\ Counted(p)
      /\ n \in Nat /\ l + 1 \in 1 .. n /\ p.headers[l + 1].id # 0
  BY LiveIs DEF PageOK, Packed
<1>2. l # 0 => p.headers[l].id < LowIDs
  <2>1. l # 0 => l \in 1 .. n
    BY <1>1
  <2>2. l # 0 => p.headers[l].id \in Nat
    BY <1>1, <2>1, HeaderNumbers DEF IsPage
  <2>3. l # 0 => ~(p.headers[l].id >= LowIDs)
    BY DEF CutsID
  <2>. QED
    BY <2>2, <2>3, PageAssumption
<1>3. Vacated(s, p, l + 1, e)
  BY <1>1, <1>2, SoftRemoveIs
<1>4. Utilization(s) \in Nat /\ Utilization(s) <= PageSize
  <2>1. Utilization(s) = Utilization(p) - p.headers[l + 1].size /\ s.used \in Nat
    BY <1>3 DEF Vacated, IsPage
  <2>2. p.headers[l + 1].size \in Nat
    BY <1>1, HeaderNumbers DEF IsPage
  <2>3. Utilization(p) \in Nat /\ Utilization(p) <= PageSize
    BY <1>1, UtilizationFits
  <2>4. Utilization(s) \in Nat
    BY <2>1, PageAssumption DEF Utilization
  <2> HIDE DEF n, e
  <2>. QED
    BY <2>1, <2>2, <2>3, <2>4, PageAssumption
<1>. QED
  BY <1>3, <1>4, FreeSpaceIs

\* What an update leaves of a block: the record's first chunk is written anew, at its
\* place, and a block that took less than was left is full.
Rewrote(r, p, l, i, data) ==
    /\ r.local = l
    /\ PutOn(Forget(r.page), p, l, i, data)
    /\ Len(data) = FreeSpaceForInsert(SoftRemove(p, l)) => FreeSpaceForInsert(Forget(r.page)) = 0

\* Update on the block of a record's first chunk: whatever Add makes of the soft removed
\* record, it is in its own header again (record_allocator.go:239-247).
LEMMA RewriteOnPage ==
    ASSUME NEW p, PageOK(p), NEW l \in Nat, l + 1 \in Live(p), NEW i, i = p.headers[l + 1].id,
           l = 0 => p.prev = 0, ~CutsID(p, l),
           NEW data, IsBytes(data), Len(data) # 0, Len(data) <= FreeSpaceForInsert(SoftRemove(p, l)),
           NEW r \in Add(SoftRemove(p, l), i, data)
    PROVE  Rewrote(r, p, l, i, data)
<1> DEFINE z == SizesOf(p.headers)
           n == Len(p.headers)
           h == l + 1
           e == [p.headers[h] EXCEPT !.size = 0, !.chain = NoRow]
           s == SoftRemove(p, l)
<1>1. /\ Packed(p) /\ IsPage(p) /\ Counted(p) /\ Roomy(p)
      /\ n \in Nat /\ \A m : m \in Live(p) <=> m \in 1 .. n /\ p.headers[m].id # 0
  BY LiveIs DEF PageOK, Packed
<1>2. PICK E : Fill(p.headers, z, E)
  BY <1>1 DEF Packed
<1>3. /\ \A m \in 1 .. n : p.headers[m].id # 0 => p.headers[m].id \in RecordIDs /\ p.headers[m].size # 0
      /\ \A m, k \in 1 .. n : p.headers[m].id # 0 /\ p.headers[m].id = p.headers[k].id => m = k
  BY DEF PageOK, Tidy
<1>4. h \in 1 .. n /\ i # 0 /\ i \in RecordIDs /\ p.headers[h] \in HeaderRec
  <2>1. p.headers \in Seq(HeaderRec) /\ h \in 1 .. n
    BY <1>1 DEF IsPage
  <2>. QED
    BY <2>1, <1>1, <1>3
<1>5. e.id = i /\ e.size = 0
  BY <1>4 DEF HeaderRec
<1>6. Vacated(s, p, h, e)
  BY SoftRemoveOnPage
<1>7. s.prev = p.prev
  <2>1. p = [bytes |-> p.bytes, headers |-> p.headers, used |-> p.used, next |-> p.next, prev |-> p.prev]
    BY <1>1 DEF IsPage
  <2> DEFINE t == [p EXCEPT !.headers[l + 1].size = 0, !.headers[l + 1].chain = NoRow,
                            !.used = Utilization(p) - p.headers[l + 1].size]
  <2>2. t.prev = p.prev /\ "prev" \in DOMAIN t
    BY <2>1
  <2>3. SoftRemove(p, l) = OverrunSoftRemove(t, l)
    BY Zenon DEF SoftRemove
  <2> HIDE DEF t
  <2>4. CASE l = 0
    <3>1. OverrunSoftRemove(t, l) = [t EXCEPT !.prev = 0]
      BY <2>4 DEF OverrunSoftRemove
    <3>. QED
      BY <2>2, <2>3, <2>4, <3>1
  <2>5. CASE l # 0
    <3>1. OverrunSoftRemove(t, l) = [t EXCEPT !.headers[l].id = @ % LowIDs]
      BY <2>5 DEF OverrunSoftRemove
    <3>. QED
      BY <2>2, <2>3, <3>1
  <2>. QED
    BY <2>4, <2>5
<1> HIDE DEF e, s
<1>8. /\ IsPage(s) /\ Agree(s, p, h) /\ Len(s.headers) = n /\ s.headers[h] = e /\ s.next = p.next
      /\ \A m \in 1 .. n : m # h => s.headers[m] = p.headers[m]
      /\ Counted(s) /\ Fill(s.headers, z, E)
  <2> HIDE DEF z
  <2>1. IsPage(s) /\ Agree(s, p, h) /\ Len(s.headers) = n /\ s.headers[h] = e /\ s.next = p.next
    BY <1>1, <1>6, VacatedAgree
  <2>. QED
    BY <2>1, <1>2, <1>6 DEF Vacated
<1>9. \A m \in 1 .. n : /\ s.headers[m].id = p.headers[m].id
                        /\ m # h => s.headers[m].size = p.headers[m].size
  BY <1>5, <1>8
<1>10. \A m \in 1 .. n : s.headers[m].id = i => m = h
  BY <1>3, <1>4, <1>9
<1>11. Ready(s, z, E, i)
  <2>1. \A m \in 1 .. n : z[m] = p.headers[m].size
    BY DEF SizesOf
  <2> HIDE DEF z, h
  <2>2. Owned(s.headers, z)
    <3>1. ASSUME NEW m \in 1 .. n
          PROVE  /\ s.headers[m].size # 0 => z[m] = s.headers[m].size
                 /\ s.headers[m].id = 0 /\ s.headers[m].size = 0 => z[m] = 0
                 /\ s.headers[m].id # 0 => z[m] # 0
      <4>1. CASE m = h
        BY <4>1, <2>1, <1>3, <1>4, <1>5, <1>8, <1>9
      <4>2. CASE m # h
        BY <4>2, <2>1, <1>3, <1>9
      <4>. QED
        BY <4>1, <4>2
    <3>2. Len(s.headers) = n
      BY <1>8
    <3>. QED
      BY <3>1, <3>2, Zenon DEF Owned
  <2>3. \A m \in 1 .. n : s.headers[m].id \notin {0, i} => s.headers[m].size # 0
    BY SMTT(30), <1>3, <1>5, <1>8, <1>9
  <2>4. \A m \in 1 .. n : s.headers[m].id = i => s.headers[m].size = 0
    BY <1>5, <1>8, <1>10
  <2>. QED
    BY <2>2, <2>3, <2>4, <1>8, <1>10 DEF Ready
<1> DEFINE q == r.page
           k == r.local + 1
<1>12. /\ \A m \in 1 .. Len(s.headers) : s.headers[m].id \notin {0, i} => s.headers[m].id \in RecordIDs
       /\ \A m, j \in 1 .. Len(s.headers) : s.headers[m].id # 0 /\ s.headers[m].id = s.headers[j].id => m = j
       /\ Roomy(s) /\ r \in Add(s, i, data) /\ Len(data) <= FreeSpaceForInsert(s)
  BY <1>1, <1>3, <1>8, <1>9 DEF s, Roomy
<1> HIDE DEF z
<1>13. /\ r.local \in Nat /\ Packed(q) /\ PageOK(q)
       /\ q.next = s.next /\ q.prev = s.prev
       /\ Agree(q, s, k)
       /\ k \in Live(q) /\ Entry(q, k) = Chunk(i, data)
       /\ \A m \in 1 .. Len(s.headers) : s.headers[m].id = i => k = m
       /\ Len(data) = FreeSpaceForInsert(s) => FreeSpaceForInsert(q) = 0
  BY <1>4, <1>11, <1>12, AddOnPage
<1>14. k = h /\ r.local = l
  <2>1. s.headers[h].id = i
    BY <1>4, <1>9
  <2>2. k = h
    BY <2>1, <1>4, <1>8, <1>13
  <2>. QED
    BY <2>2, <1>13
<1> HIDE DEF q, k, h
<1>15. Entries(q) = With(Entries(p), h, Chunk(i, data))
  <2>1. IsPage(q)
    BY <1>13 DEF Packed
  <2>2. Without(Entries(q), h) = Without(Entries(s), h)
    BY <2>1, <1>8, <1>13, <1>14, EntriesAgree
  <2>3. Without(Entries(s), h) = Without(Entries(p), h)
    BY <1>1, <1>8, EntriesAgree
  <2>. QED
    BY <2>2, <2>3, <1>13, <1>14, EntriesWith
<1>16. PutOn(Forget(q), p, l, i, data)
  <2>1. /\ Entries(Forget(q)) = Entries(q) /\ PageOK(Forget(q))
        /\ Forget(q).next = q.next /\ Forget(q).prev = q.prev
    BY <1>13, ForgetOnPage
  <2>. QED
    BY <2>1, <1>7, <1>8, <1>13, <1>15 DEF PutOn, Became, h
<1>17. FreeSpaceForInsert(Forget(q)) = FreeSpaceForInsert(q)
  BY <1>13, ForgetOnPage
<1>. QED
  BY <1>13, <1>14, <1>16, <1>17 DEF Rewrote, q, s

\* A block has no records, or counts them (record_block.go:218-226).
LEMMA TotalRecordsIs ==
    ASSUME NEW p, IsPage(p)
    PROVE  /\ TotalRecords(p) \in Nat
           /\ TotalRecords(p) = 0 <=> Live(p) = {}
<1>1. TotalRecords(p) = Cardinality(Live(p))
  BY Zenon DEF TotalRecords, Live
<1>2. Len(p.headers) \in Nat /\ Live(p) \subseteq 1 .. Len(p.headers)
  BY LiveIs
<1>3. IsFiniteSet(1 .. Len(p.headers))
  BY <1>2, FS_Interval
<1>4. IsFiniteSet(Live(p))
  BY <1>2, <1>3, FS_Subset
<1>. QED
  BY <1>1, <1>4, FS_EmptySet, FS_CardinalityType

\* Removing a record from a block (record_block.go:148-173), and clearing the block when
\* that was its last (record_block.go:205-208).
LEMMA RemoveOnPage ==
    ASSUME NEW p, PageOK(p), NEW l \in Nat, l + 1 \in Live(p)
    PROVE  LET q == Remove(p, l) IN
           /\ Became(Forget(q), p, Without(Entries(p), l + 1))
           /\ IsPage(q) /\ q.next = p.next /\ q.prev = p.prev
           /\ TotalRecords(q) = 0 <=> Live(p) = {l + 1}
<1> DEFINE n == Len(p.headers)
           h == l + 1
           e == [p.headers[h] EXCEPT !.id = 0]
           q == Remove(p, l)
<1>1. /\ Packed(p) /\ IsPage(p) /\ Counted(p) /\ Roomy(p) /\ Tidy(p)
      /\ n \in Nat /\ \A m : m \in Live(p) <=> m \in 1 .. n /\ p.headers[m].id # 0
  BY LiveIs DEF PageOK, Packed
<1>2. h \in 1 .. n /\ p.headers[h].id # 0 /\ p.headers[h] \in HeaderRec
  <2>1. p.headers \in Seq(HeaderRec) /\ h \in 1 .. n /\ p.headers[h].id # 0
    BY <1>1 DEF IsPage
  <2>. QED
    BY <2>1
<1>3. e.id = 0 /\ e.start = p.headers[h].start /\ e.size = p.headers[h].size
  BY <1>2 DEF HeaderRec
<1>4. Vacated(q, p, h, e)
  BY <1>1, <1>2, RemoveIs
<1>5. q.prev = p.prev
  <2>1. p = [bytes |-> p.bytes, headers |-> p.headers, used |-> p.used, next |-> p.next, prev |-> p.prev]
    BY <1>1 DEF IsPage
  <2>. QED
    BY <2>1 DEF Remove
<1> HIDE DEF q, e
<1>6. /\ IsPage(q) /\ Agree(q, p, h) /\ Len(q.headers) = n /\ q.headers[h] = e /\ q.next = p.next
  BY <1>1, <1>4, VacatedAgree
<1>7. \A m \in 1 .. n : /\ m # h => q.headers[m] = p.headers[m]
                        /\ q.headers[m].size = p.headers[m].size
  <2>1. \A m \in 1 .. n : m # h => q.headers[m] = p.headers[m]
    BY <1>4 DEF Vacated
  <2>. QED
    BY <2>1, <1>3, <1>6
<1>8. Packed(q)
  <2>1. PICK E : /\ Fill(p.headers, SizesOf(p.headers), E)
                 /\ E + MinUsed + n * HeaderSize <= PageSize
    BY <1>1 DEF Packed
  <2>2. SizesOf(q.headers) = SizesOf(p.headers)
    BY <1>6, <1>7 DEF SizesOf
  <2>3. Fill(q.headers, SizesOf(q.headers), E)
    BY <2>1, <2>2, <1>4 DEF Vacated
  <2>4. Counted(q)
    BY <1>4 DEF Vacated
  <2>. QED
    BY <2>1, <2>3, <2>4, <1>6 DEF Packed
<1>9. h \notin Live(q)
  BY <1>3, <1>6, LiveIs
<1>10. PageOK(q)
  <2>1. \A m \in 1 .. n : q.headers[m].id # 0 => q.headers[m] = p.headers[m]
    BY <1>3, <1>6, <1>7
  <2>2. Tidy(q)
    BY <2>1, <1>1, <1>6 DEF Tidy
  <2>3. Roomy(q)
    BY <1>1, <1>6 DEF Roomy
  <2>. QED
    BY <2>2, <2>3, <1>8 DEF PageOK
<1>11. Entries(q) = Without(Entries(p), h)
  <2>1. Without(Entries(q), h) = Without(Entries(p), h)
    BY <1>1, <1>6, EntriesAgree
  <2>. QED
    BY <2>1, <1>9, EntriesWithout
<1>12. Became(Forget(q), p, Without(Entries(p), h))
  <2>1. /\ Entries(Forget(q)) = Entries(q) /\ PageOK(Forget(q))
        /\ Forget(q).next = q.next /\ Forget(q).prev = q.prev
    BY <1>8, <1>10, ForgetOnPage
  <2>. QED
    BY <2>1, <1>5, <1>6, <1>11 DEF Became
<1>13. TotalRecords(q) = 0 <=> Live(p) = {h}
  <2>1. TotalRecords(q) = 0 <=> Live(q) = {}
    BY <1>6, TotalRecordsIs
  <2>2. \A m : m \in Live(q) <=> m \in Live(p) /\ m # h
    BY <1>6, <1>9 DEF Agree
  <2>3. h \in Live(p)
    OBVIOUS
  <2>. QED
    BY <2>1, <2>2, <2>3, Zenon
<1>. QED
  BY <1>5, <1>6, <1>12, <1>13 DEF q

\* A cleared block is empty and in order (record_block.go:205-208).
LEMMA ClearOnPage ==
    ASSUME NEW p, IsPage(p)
    PROVE  PageOK(Forget(Clear(p))) /\ Forget(Clear(p)).headers = <<>>
<1> DEFINE q == Clear(p)
<1>1. Packed(q) /\ q.headers = <<>>
  BY ClearIs
<1> HIDE DEF q
<1>2. PageOK(q)
  BY <1>1 DEF PageOK, Tidy, Roomy
<1>3. PageOK(q) => PageOK(Forget(q))
  BY <1>1, ForgetOnPage
<1>4. Forget(q).headers = q.headers
  BY <1>1, ForgetOnPage
<1>. QED
  BY <1>1, <1>2, <1>3, <1>4 DEF q

\* The chain field of a record is written (record_block.go:264-281).
LEMMA WireOnPage ==
    ASSUME NEW p, PageOK(p), NEW l \in Nat, l + 1 \in Live(p), NEW row \in RowIDs
    PROVE  LET q == SetChainedRowID(p, l, row)
               e == [id |-> p.headers[l + 1].id, chain |-> row, data |-> Entry(p, l + 1).data]
           IN Became(q, p, With(Entries(p), l + 1, e)) /\ FreeSpaceForInsert(q) = FreeSpaceForInsert(p)
<1> DEFINE n == Len(p.headers)
           h == l + 1
           e == [p.headers[h] EXCEPT !.chain = row]
           hs == [p.headers EXCEPT ![h] = e]
           q == SetChainedRowID(p, l, row)
<1>1. /\ p = [bytes |-> p.bytes, headers |-> p.headers, used |-> p.used, next |-> p.next, prev |-> p.prev]
      /\ p.bytes = [a \in Addresses |-> p.bytes[a]] /\ p.headers \in Seq(HeaderRec) /\ p.used \in Nat
      /\ IsPage(p) /\ Counted(p) /\ Tidy(p) /\ Roomy(p)
  BY DEF PageOK, Packed, IsPage
<1>2. n \in Nat /\ \A m : m \in Live(p) <=> m \in 1 .. n /\ p.headers[m].id # 0
  BY <1>1, LiveIs
<1>3. h \in 1 .. n /\ p.headers[h].id # 0 /\ p.headers[h] \in HeaderRec /\ h - 1 = l
  BY <1>1, <1>2
<1>4. /\ e \in HeaderRec /\ e.id = p.headers[h].id /\ e.size = p.headers[h].size
      /\ e.start = p.headers[h].start /\ e.chain = row
  <2> HIDE DEF h
  <2>. QED
    BY <1>3 DEF HeaderRec
<1>5. ValidLocalID(p, l)
  BY <1>2, <1>3 DEF ValidLocalID
<1>6. q = [p EXCEPT !.headers[h].chain = row]
  BY <1>5, Zenon DEF SetChainedRowID
<1>7. [p EXCEPT !.headers[h].chain = row] = [p EXCEPT !.headers = hs]
  BY Zenon
<1>8. /\ hs \in Seq(HeaderRec) /\ Len(hs) = n
      /\ hs[h] = e /\ \A k \in 1 .. n : k # h => hs[k] = p.headers[k]
  <2> HIDE DEF e, h
  <2>. QED
    BY <1>1, <1>3, <1>4, HeaderWritten
<1> HIDE DEF hs, e, h, q
<1>9. [p EXCEPT !.headers = hs] = [bytes |-> p.bytes, headers |-> hs, used |-> p.used, next |-> p.next, prev |-> p.prev]
  <2>1. ASSUME NEW x, x = [bytes |-> p.bytes, headers |-> p.headers, used |-> p.used, next |-> p.next, prev |-> p.prev]
        PROVE  [x EXCEPT !.headers = hs] =
                 [bytes |-> p.bytes, headers |-> hs, used |-> p.used, next |-> p.next, prev |-> p.prev]
    BY <2>1
  <2>. QED
    BY <2>1, <1>1
<1>10. /\ q.bytes = p.bytes /\ q.headers = hs /\ q.used = p.used /\ q.next = p.next /\ q.prev = p.prev
       /\ q = [bytes |-> p.bytes, headers |-> hs, used |-> p.used, next |-> p.next, prev |-> p.prev]
  <2>1. q = [bytes |-> p.bytes, headers |-> hs, used |-> p.used, next |-> p.next, prev |-> p.prev]
    BY <1>6, <1>7, <1>9, Zenon
  <2>. QED
    BY <2>1, PageFields, Zenon
<1>11. IsPage(q)
  BY <1>1, <1>8, <1>10 DEF IsPage
<1>12. \A m \in 1 .. n : hs[m].id = p.headers[m].id /\ hs[m].size = p.headers[m].size /\ hs[m].start = p.headers[m].start
  BY <1>4, <1>8
<1>13. Packed(q)
  <2>1. PICK E : /\ Fill(p.headers, SizesOf(p.headers), E)
                 /\ E + MinUsed + n * HeaderSize <= PageSize
    BY DEF PageOK, Packed
  <2>2. SizesOf(hs) = SizesOf(p.headers)
    BY <1>8, <1>12 DEF SizesOf
  <2> DEFINE z == SizesOf(p.headers)
  <2> HIDE DEF z
  <2>3. Fill(hs, z, E)
    BY <2>1, <1>8, <1>12 DEF Fill, z
  <2>4. LiveKeys(hs) = LiveKeys(p.headers)
    <3>1. \A x \in (1 .. n) \X (0 .. PageSize) : x[1] \in 1 .. n
      OBVIOUS
    <3>. QED
      BY <3>1, <1>8, <1>12 DEF LiveKeys
  <2>5. Counted(q)
    BY <2>4, <1>1, <1>8, <1>10, Zenon DEF Counted, Utilization
  <2>. QED
    BY <2>1, <2>2, <2>3, <2>5, <1>8, <1>10, <1>11 DEF Packed, z
<1>14. PageOK(q)
  <2>1. Tidy(q)
    BY <1>1, <1>8, <1>10, <1>12 DEF Tidy
  <2>2. Roomy(q)
    BY <1>1, <1>8, <1>10 DEF Roomy
  <2>. QED
    BY <2>1, <2>2, <1>13 DEF PageOK
<1>15. \A m : m \in Live(q) <=> m \in 1 .. n /\ hs[m].id # 0
  BY <1>8, <1>10, <1>11, LiveIs
<1>16. Agree(q, p, h)
  <2>1. \A m : m \in Live(q) <=> m \in Live(p)
    BY <1>2, <1>12, <1>15
  <2>2. ASSUME NEW m, m # h, m \in Live(p) PROVE hs[m] = p.headers[m]
    BY <2>2, <1>2, <1>8
  <2>. QED
    BY <2>1, <2>2, <1>10, Zenon DEF Agree
<1>17. h \in Live(q)
  BY <1>3, <1>12, <1>15
<1>18. Entry(q, h) = [id |-> p.headers[h].id, chain |-> row, data |-> Entry(p, h).data]
  <2>1. ReadRecordData(q, l) = ReadRecordData(p, l)
    <3>1. q.headers[h].size = p.headers[h].size /\ q.headers[h].start = p.headers[h].start
      BY <1>3, <1>10, <1>12
    <3>. QED
      BY <3>1, <1>10, Zenon DEF ReadRecordData, h
  <2>. QED
    BY <2>1, <1>3, <1>4, <1>8, <1>10 DEF Entry
<1>19. Without(Entries(q), h) = Without(Entries(p), h)
  BY <1>1, <1>11, <1>16, EntriesAgree
<1>20. Entries(q) = With(Entries(p), h, [id |-> p.headers[h].id, chain |-> row, data |-> Entry(p, h).data])
  BY <1>17, <1>18, <1>19, EntriesWith
<1>21. FreeSpaceForInsert(q) = FreeSpaceForInsert(p)
  <2>1. (\E i \in 1 .. n : hs[i].id = 0) <=> (\E i \in 1 .. n : p.headers[i].id = 0)
    BY <1>12
  <2>2. DOMAIN hs = 1 .. n /\ DOMAIN p.headers = 1 .. n
    BY <1>1, <1>8
  <2>. QED
    BY <2>1, <2>2, <1>10, Zenon DEF FreeSpaceForInsert, Utilization
<1>. QED
  BY <1>10, <1>14, <1>20, <1>21 DEF Became, q, h

\* q is p but for its links.
Relinked(q, p) ==
    /\ q = [bytes |-> p.bytes, headers |-> p.headers, used |-> p.used, next |-> q.next, prev |-> q.prev]
    /\ q.bytes = p.bytes /\ q.headers = p.headers /\ q.used = p.used

\* The links of a block are not part of what it holds (record_block.go:228-244).
LEMMA RelinkOnPage ==
    ASSUME NEW p, PageOK(p), NEW q, Relinked(q, p)
    PROVE  PageOK(q) /\ Entries(q) = Entries(p) /\ FreeSpaceForInsert(q) = FreeSpaceForInsert(p)
<1>1. /\ q.bytes = p.bytes /\ q.headers = p.headers /\ q.used = p.used
      /\ q = [bytes |-> q.bytes, headers |-> q.headers, used |-> q.used, next |-> q.next, prev |-> q.prev]
  BY DEF Relinked
<1>2. IsPage(q)
  BY <1>1 DEF PageOK, Packed, IsPage
<1>3. PageOK(q)
  BY <1>1, <1>2 DEF PageOK, Packed, Counted, Utilization, Tidy, Roomy
<1>4. Entries(q) = Entries(p)
  <2>1. Live(q) = Live(p)
    BY <1>1, Zenon DEF Live
  <2>2. \A m : Entry(q, m) = Entry(p, m)
    BY <1>1, Zenon DEF Entry, ReadRecordData
  <2>. QED
    BY <2>1, <2>2, Zenon DEF Entries
<1>5. FreeSpaceForInsert(q) = FreeSpaceForInsert(p)
  BY <1>1, Zenon DEF FreeSpaceForInsert, Utilization
<1>. QED
  BY <1>3, <1>4, <1>5

\* The links of a page are replaced (record_block.go:228-244).
LEMMA LinksReplaced ==
    ASSUME NEW p, IsPage(p), NEW x
    PROVE  /\ Relinked([p EXCEPT !.next = x], p) /\ [p EXCEPT !.next = x].next = x
           /\ [p EXCEPT !.next = x].prev = p.prev
           /\ Relinked([p EXCEPT !.prev = x], p) /\ [p EXCEPT !.prev = x].prev = x
           /\ [p EXCEPT !.prev = x].next = p.next
<1>1. p = [bytes |-> p.bytes, headers |-> p.headers, used |-> p.used, next |-> p.next, prev |-> p.prev]
  BY DEF IsPage
<1>2. ASSUME NEW y, y = [bytes |-> p.bytes, headers |-> p.headers, used |-> p.used, next |-> p.next, prev |-> p.prev]
      PROVE  /\ [y EXCEPT !.next = x] = [bytes |-> p.bytes, headers |-> p.headers, used |-> p.used, next |-> x, prev |-> p.prev]
             /\ [y EXCEPT !.prev = x] = [bytes |-> p.bytes, headers |-> p.headers, used |-> p.used, next |-> p.next, prev |-> x]
  BY <1>2
<1>3. ASSUME NEW y, NEW a, NEW b, y = [bytes |-> p.bytes, headers |-> p.headers, used |-> p.used, next |-> a, prev |-> b]
      PROVE  Relinked(y, p) /\ y.next = a /\ y.prev = b
  <2>1. y.bytes = p.bytes /\ y.headers = p.headers /\ y.used = p.used /\ y.next = a /\ y.prev = b
    BY <1>3, PageFields, Zenon
  <2>. QED
    BY <2>1, <1>3 DEF Relinked
<1>. QED
  BY <1>1, <1>2, <1>3

\* A block without space has a record (record_block.go:304-325).
LEMMA FullIsLive ==
    ASSUME NEW p, PageOK(p), FreeSpaceForInsert(p) = 0
    PROVE  Live(p) # {}
<1> SUFFICES ASSUME Live(p) = {} PROVE FALSE
  OBVIOUS
<1> DEFINE n == Len(p.headers)
           room == n * HeaderSize
           U == Utilization(p)
           dead == \E i \in DOMAIN p.headers : p.headers[i].id = 0
<1>1. IsPage(p) /\ Counted(p) /\ Roomy(p) /\ p.headers \in Seq(HeaderRec) /\ n \in Nat
  BY DEF PageOK, Packed, IsPage
<1>2. \A m \in 1 .. n : p.headers[m].id = 0
  BY <1>1, LiveIs
<1>3. Cardinality(LiveKeys(p.headers)) = 0
  <2>1. LiveKeys(p.headers) = {}
    BY <1>2 DEF LiveKeys
  <2>. QED
    BY <2>1, FS_EmptySet
<1>4. U = MinUsed + room
  <2>1. U = MinUsed + room + 0
    BY <1>1, <1>3 DEF Counted
  <2>2. room \in Nat
    BY <1>1, PageAssumption
  <2>. QED
    BY <2>1, <2>2, PageAssumption
<1>5. FreeSpaceForInsert(p) =
        IF dead THEN PageSize - U
        ELSE IF PageSize - U > HeaderSize THEN PageSize - U - HeaderSize ELSE 0
  BY Zenon DEF FreeSpaceForInsert
<1>6. CASE n = 0
  <2>1. room = 0 /\ ~dead
    BY <1>1, <1>6, PageAssumption
  <2> HIDE DEF room, U, dead
  <2>. QED
    BY <2>1, <1>4, <1>5, PageAssumption
<1>7. CASE n # 0
  <2>1. dead
    <3>1. 1 \in 1 .. n /\ DOMAIN p.headers = 1 .. n
      BY <1>1, <1>7
    <3>. QED
      BY <3>1, <1>2
  <2>2. MinUsed + room < PageSize /\ room \in Nat
    BY <1>1, <1>7, PageAssumption DEF Roomy
  <2> HIDE DEF room, U, dead
  <2>. QED
    BY <2>1, <2>2, <1>4, <1>5, PageAssumption
<1>. QED
  BY <1>6, <1>7

-----------------------------------------------------------------------------
(* All blocks: the chunks that live on them, by their rows                 *)

Chunks(ps) ==
    [r \in {r \in RowIDs : r.block \in Blocks /\ r.local + 1 \in DOMAIN Entries(ps[r.block])} |->
        Entries(ps[r.block])[r.local + 1]]

\* A function with one value replaced or added, and one with a value taken away.
LEMMA WithValues ==
    ASSUME NEW g, NEW x, NEW e
    PROVE  /\ DOMAIN With(g, x, e) = DOMAIN g \cup {x} /\ With(g, x, e)[x] = e
           /\ \A y \in DOMAIN g : y # x => With(g, x, e)[y] = g[y]
           /\ DOMAIN Without(g, x) = DOMAIN g \ {x}
           /\ \A y \in DOMAIN g : y # x => Without(g, x)[y] = g[y]
BY Zenon DEF With, Without

\* What is on a block is among the chunks.
LEMMA ChunksValues ==
    ASSUME NEW ps
    PROVE  /\ \A r : r \in DOMAIN Chunks(ps) <=>
                     r \in RowIDs /\ r.block \in Blocks /\ r.local + 1 \in DOMAIN Entries(ps[r.block])
           /\ \A r \in DOMAIN Chunks(ps) : Chunks(ps)[r] = Entries(ps[r.block])[r.local + 1]
           /\ Chunks(ps) = [r \in DOMAIN Chunks(ps) |-> Chunks(ps)[r]]
BY Zenon DEF Chunks

\* Steps that only change links, or bytes of no record.
LEMMA ChunksSame ==
    ASSUME NEW ps, NEW qs, \A b \in Blocks : Entries(qs[b]) = Entries(ps[b])
    PROVE  Chunks(qs) = Chunks(ps)
<1> DEFINE R == {r \in RowIDs : r.block \in Blocks /\ r.local + 1 \in DOMAIN Entries(ps[r.block])}
           S == {r \in RowIDs : r.block \in Blocks /\ r.local + 1 \in DOMAIN Entries(qs[r.block])}
<1>1. R = S
  BY Zenon
<1>2. \A r \in R : Entries(qs[r.block])[r.local + 1] = Entries(ps[r.block])[r.local + 1]
  BY Zenon
<1>. QED
  BY <1>1, <1>2, Zenon DEF Chunks

\* A row is named by its block and its local id.
LEMMA RowIs ==
    ASSUME NEW b \in Nat, NEW l \in Nat
    PROVE  /\ [block |-> b, local |-> l] \in RowIDs
           /\ [block |-> b, local |-> l].block = b /\ [block |-> b, local |-> l].local = l
           /\ \A r \in RowIDs : r.block = b /\ r.local = l => r = [block |-> b, local |-> l]
BY DEF RowIDs

\* Only block b has changed what it holds.
SameElsewhere(qs, ps, b) == \A c \in Blocks : c # b => Entries(qs[c]) = Entries(ps[c])

\* A chunk is written on block b.
LEMMA ChunksWith ==
    ASSUME NEW ps, NEW qs, NEW b \in Blocks, b \in Nat, NEW l \in Nat, NEW e,
           SameElsewhere(qs, ps, b), NEW x, x = [block |-> b, local |-> l],
           Entries(qs[b]) = With(Entries(ps[b]), l + 1, e)
    PROVE  Chunks(qs) = With(Chunks(ps), x, e)
<1> DEFINE f == Chunks(qs)
           g == Chunks(ps)
           E(c) == Entries(ps[c])
           F(c) == Entries(qs[c])
<1>1. /\ x \in RowIDs /\ x.block = b /\ x.local = l
      /\ \A r \in RowIDs : r.block = b /\ r.local = l => r = x
  BY RowIs
<1>2. /\ DOMAIN F(b) = DOMAIN E(b) \cup {l + 1} /\ F(b)[l + 1] = e
      /\ \A y \in DOMAIN E(b) : y # l + 1 => F(b)[y] = E(b)[y]
  <2> DEFINE w == With(E(b), l + 1, e)
  <2>1. F(b) = w
    OBVIOUS
  <2> HIDE DEF E, F
  <2>2. DOMAIN w = DOMAIN E(b) \cup {l + 1}
    BY Zenon DEF With
  <2>3. w[l + 1] = e
    <3>1. \A k : With(E(b), k, e)[k] = e
      BY Zenon DEF With
    <3>. QED
      BY <3>1
  <2>4. \A y \in DOMAIN E(b) : y # l + 1 => w[y] = E(b)[y]
    <3>1. \A k : \A y \in DOMAIN E(b) : y # k => With(E(b), k, e)[y] = E(b)[y]
      BY Zenon DEF With
    <3>. QED
      BY <3>1
  <2> HIDE DEF w
  <2>. QED
    BY <2>1, <2>2, <2>3, <2>4, Zenon
<1>3. /\ \A r : r \in DOMAIN g <=> r \in RowIDs /\ r.block \in Blocks /\ r.local + 1 \in DOMAIN E(r.block)
      /\ \A r \in DOMAIN g : g[r] = E(r.block)[r.local + 1]
  BY ChunksValues, Zenon
<1>4. /\ \A r : r \in DOMAIN f <=> r \in RowIDs /\ r.block \in Blocks /\ r.local + 1 \in DOMAIN F(r.block)
      /\ \A r \in DOMAIN f : f[r] = F(r.block)[r.local + 1]
      /\ f = [r \in DOMAIN f |-> f[r]]
  BY ChunksValues, Zenon
<1>5. \A c \in Blocks : c # b => F(c) = E(c)
  BY DEF SameElsewhere
<1>6. \A r \in RowIDs : r # x /\ r.block = b => r.local + 1 # l + 1
  <2>1. \A r \in RowIDs : r.local \in Nat
    BY DEF RowIDs
  <2>2. \A r \in RowIDs : r.local + 1 = l + 1 => r.local = l
    BY <2>1
  <2>. QED
    BY <1>1, <2>2, Zenon
<1> HIDE DEF f, g, E, F
<1>7. x \in DOMAIN f /\ f[x] = e
  BY <1>1, <1>2, <1>4, Zenon
<1>8. ASSUME NEW r, r # x PROVE r \in DOMAIN f <=> r \in DOMAIN g
  <2>1. ASSUME r \in RowIDs, r.block \in Blocks
        PROVE  r.local + 1 \in DOMAIN F(r.block) <=> r.local + 1 \in DOMAIN E(r.block)
    <3>1. CASE r.block = b
      BY <1>2, <1>6, <1>8, <2>1, <3>1, Zenon
    <3>2. CASE r.block # b
      BY <1>5, <2>1, <3>2, Zenon
    <3>. QED
      BY <3>1, <3>2
  <2>. QED
    BY <2>1, <1>3, <1>4, Zenon
<1>9. ASSUME NEW r \in DOMAIN g, r # x PROVE f[r] = g[r]
  <2>1. /\ r \in RowIDs /\ r.block \in Blocks /\ r.local + 1 \in DOMAIN E(r.block)
        /\ g[r] = E(r.block)[r.local + 1]
    BY <1>3, Zenon
  <2>2. f[r] = F(r.block)[r.local + 1]
    BY <1>4, <1>8, <1>9, Zenon
  <2>3. CASE r.block = b
    <3>1. r.local + 1 # l + 1
      BY <1>6, <1>9, <2>1, <2>3, Zenon
    <3>. QED
      BY <3>1, <1>2, <2>1, <2>2, <2>3, Zenon
  <2>4. CASE r.block # b
    BY <1>5, <2>1, <2>2, <2>4, Zenon
  <2>. QED
    BY <2>3, <2>4
<1>10. DOMAIN f = DOMAIN g \cup {x}
  BY <1>7, <1>8, Zenon
<1>11. \A r \in DOMAIN f : f[r] = IF r = x THEN e ELSE g[r]
  BY <1>7, <1>9, <1>10, Zenon
<1>12. f = [r \in DOMAIN g \cup {x} |-> IF r = x THEN e ELSE g[r]]
  BY <1>4, <1>10, <1>11, Zenon
<1>. QED
  BY <1>12, Zenon DEF With, f, g

\* A chunk is removed from block b.
LEMMA ChunksWithout ==
    ASSUME NEW ps, NEW qs, NEW b \in Blocks, b \in Nat, NEW l \in Nat,
           SameElsewhere(qs, ps, b), NEW x, x = [block |-> b, local |-> l],
           Entries(qs[b]) = Without(Entries(ps[b]), l + 1)
    PROVE  Chunks(qs) = Without(Chunks(ps), x)
<1> DEFINE f == Chunks(qs)
           g == Chunks(ps)
           E(c) == Entries(ps[c])
           F(c) == Entries(qs[c])
<1>1. /\ x \in RowIDs /\ x.block = b /\ x.local = l
      /\ \A r \in RowIDs : r.block = b /\ r.local = l => r = x
  BY RowIs
<1>2. /\ DOMAIN F(b) = DOMAIN E(b) \ {l + 1}
      /\ \A y \in DOMAIN E(b) : y # l + 1 => F(b)[y] = E(b)[y]
  <2> DEFINE w == Without(E(b), l + 1)
  <2>1. F(b) = w
    OBVIOUS
  <2> HIDE DEF E, F
  <2>2. DOMAIN w = DOMAIN E(b) \ {l + 1}
    BY WithValues, Zenon
  <2>4. \A y \in DOMAIN E(b) : y # l + 1 => w[y] = E(b)[y]
    BY WithValues, Zenon
  <2> HIDE DEF w
  <2>. QED
    BY <2>1, <2>2, <2>4, Zenon
<1>3. /\ \A r : r \in DOMAIN g <=> r \in RowIDs /\ r.block \in Blocks /\ r.local + 1 \in DOMAIN E(r.block)
      /\ \A r \in DOMAIN g : g[r] = E(r.block)[r.local + 1]
  BY ChunksValues, Zenon
<1>4. /\ \A r : r \in DOMAIN f <=> r \in RowIDs /\ r.block \in Blocks /\ r.local + 1 \in DOMAIN F(r.block)
      /\ \A r \in DOMAIN f : f[r] = F(r.block)[r.local + 1]
      /\ f = [r \in DOMAIN f |-> f[r]]
  BY ChunksValues, Zenon
<1>5. \A c \in Blocks : c # b => F(c) = E(c)
  BY DEF SameElsewhere
<1>6. \A r \in RowIDs : r # x /\ r.block = b => r.local + 1 # l + 1
  <2>1. \A r \in RowIDs : r.local \in Nat
    BY DEF RowIDs
  <2>2. \A r \in RowIDs : r.local + 1 = l + 1 => r.local = l
    BY <2>1
  <2>. QED
    BY <1>1, <2>2, Zenon
<1> HIDE DEF f, g, E, F
<1>7. x \notin DOMAIN f
  BY <1>1, <1>2, <1>4, Zenon
<1>8. ASSUME NEW r, r # x PROVE r \in DOMAIN f <=> r \in DOMAIN g
  <2>1. ASSUME r \in RowIDs, r.block \in Blocks
        PROVE  r.local + 1 \in DOMAIN F(r.block) <=> r.local + 1 \in DOMAIN E(r.block)
    <3>1. CASE r.block = b
      BY <1>2, <1>6, <1>8, <2>1, <3>1, Zenon
    <3>2. CASE r.block # b
      BY <1>5, <2>1, <3>2, Zenon
    <3>. QED
      BY <3>1, <3>2
  <2>. QED
    BY <2>1, <1>3, <1>4, Zenon
<1>9. ASSUME NEW r \in DOMAIN g, r # x PROVE f[r] = g[r]
  <2>1. /\ r \in RowIDs /\ r.block \in Blocks /\ r.local + 1 \in DOMAIN E(r.block)
        /\ g[r] = E(r.block)[r.local + 1]
    BY <1>3, Zenon
  <2>2. f[r] = F(r.block)[r.local + 1]
    BY <1>4, <1>8, <1>9, Zenon
  <2>3. CASE r.block = b
    <3>1. r.local + 1 # l + 1
      BY <1>6, <1>9, <2>1, <2>3, Zenon
    <3>. QED
      BY <3>1, <1>2, <2>1, <2>2, <2>3, Zenon
  <2>4. CASE r.block # b
    BY <1>5, <2>1, <2>2, <2>4, Zenon
  <2>. QED
    BY <2>3, <2>4
<1>10. DOMAIN f = DOMAIN g \ {x}
  BY <1>7, <1>8, Zenon
<1>11. \A r \in DOMAIN f : f[r] = g[r]
  BY <1>9, <1>10, Zenon
<1>12. f = [r \in DOMAIN g \ {x} |-> g[r]]
  BY <1>4, <1>10, <1>11, Zenon
<1>. QED
  BY <1>12, Zenon DEF Without, f, g

-----------------------------------------------------------------------------
(* Chains                                                                  *)

RowsOf(c, id) == {r \in DOMAIN c : c[r].id = id}

\* The chunks of a record are linked in the order of their blocks in the list.
Linked(c, id, rank) ==
    \A r \in RowsOf(c, id) :
        IF c[r].chain = NoRow THEN \A t \in RowsOf(c, id) : rank[t.block] <= rank[r.block]
        ELSE /\ c[r].chain \in RowsOf(c, id)
             /\ rank[r.block] < rank[c[r].chain.block]
             /\ \A t \in RowsOf(c, id) :
                   rank[t.block] <= rank[r.block] \/ rank[c[r].chain.block] <= rank[t.block]

\* They are, from row on.
ChainIs(c, id, rank, row) ==
    /\ Linked(c, id, rank)
    /\ row \in RowsOf(c, id)
    /\ \A t \in RowsOf(c, id) : rank[row.block] <= rank[t.block]

\* Blocks have their places in the list, and no two chunks of a record share one.
Apart(c, rank) ==
    /\ \A r \in DOMAIN c : r # NoRow /\ rank[r.block] \in Nat
    /\ \A r, t \in DOMAIN c : c[r].id = c[t].id /\ rank[r.block] = rank[t.block] => r = t

\* d has the chunks of the record that c has, with their bytes and links.
SameOf(d, c, id) ==
    /\ RowsOf(d, id) = RowsOf(c, id)
    /\ \A r \in RowsOf(c, id) : d[r] = c[r]

\* Blocks with chunks of the record have the places they had.
SamePlaces(c, id, place, rank) == \A r \in RowsOf(c, id) : place[r.block] = rank[r.block]

\* What holds of the chunks of a record still does when others changed, and when blocks
\* without its chunks got other places.
LEMMA ChainSame ==
    ASSUME NEW c, NEW d, NEW id, NEW rank, NEW place, SameOf(d, c, id),
           SamePlaces(c, id, place, rank)
    PROVE  /\ Linked(c, id, rank) => Linked(d, id, place)
           /\ \A row : ChainIs(c, id, rank, row) => ChainIs(d, id, place, row)
<1>1. RowsOf(d, id) = RowsOf(c, id) /\ \A r \in RowsOf(c, id) : d[r].chain = c[r].chain
  BY Zenon DEF SameOf
<1>2. ASSUME Linked(c, id, rank) PROVE Linked(d, id, place)
  <2> SUFFICES ASSUME NEW r \in RowsOf(c, id)
               PROVE  IF c[r].chain = NoRow THEN \A t \in RowsOf(c, id) : place[t.block] <= place[r.block]
                      ELSE /\ c[r].chain \in RowsOf(c, id)
                           /\ place[r.block] < place[c[r].chain.block]
                           /\ \A t \in RowsOf(c, id) :
                                 place[t.block] <= place[r.block] \/ place[c[r].chain.block] <= place[t.block]
    BY <1>1, Zenon DEF Linked
  <2>1. \A t \in RowsOf(c, id) : place[t.block] = rank[t.block]
    BY Zenon DEF SamePlaces
  <2>. QED
    BY <1>2, <2>1 DEF Linked
<1>3. ASSUME NEW row, ChainIs(c, id, rank, row) PROVE ChainIs(d, id, place, row)
  BY <1>1, <1>2, <1>3 DEF ChainIs, SamePlaces
<1>. QED
  BY <1>2, <1>3

\* The chunks of other records are as they were.
LEMMA OthersSame ==
    ASSUME NEW c, NEW x, NEW id, x \in DOMAIN c => c[x].id # id
    PROVE  /\ \A e : e.id # id => SameOf(With(c, x, e), c, id)
           /\ SameOf(Without(c, x), c, id)
<1>1. /\ DOMAIN Without(c, x) = DOMAIN c \ {x}
      /\ \A y \in DOMAIN c : y # x => Without(c, x)[y] = c[y]
  BY WithValues, Zenon
<1>2. ASSUME NEW e, e.id # id PROVE SameOf(With(c, x, e), c, id)
  <2> DEFINE d == With(c, x, e)
  <2>1. /\ DOMAIN d = DOMAIN c \cup {x} /\ d[x] = e
        /\ \A y \in DOMAIN c : y # x => d[y] = c[y]
    BY Zenon DEF With
  <2> HIDE DEF d
  <2>2. \A r : r \in DOMAIN d /\ d[r].id = id <=> r \in DOMAIN c /\ c[r].id = id
    BY <1>2, <2>1, Zenon
  <2>3. RowsOf(d, id) = RowsOf(c, id)
    BY <2>2, Zenon DEF RowsOf
  <2>4. \A r \in RowsOf(c, id) : d[r] = c[r]
    BY <2>1, Zenon DEF RowsOf
  <2>. QED
    BY <2>3, <2>4, Zenon DEF SameOf, d
<1>3. SameOf(Without(c, x), c, id)
  <2> DEFINE d == Without(c, x)
  <2> HIDE DEF d
  <2>1. DOMAIN d = DOMAIN c \ {x} /\ \A y \in DOMAIN c : y # x => d[y] = c[y]
    BY <1>1, Zenon DEF d
  <2>2. \A r : r \in DOMAIN d /\ d[r].id = id <=> r \in DOMAIN c /\ c[r].id = id
    BY <2>1, Zenon
  <2>3. RowsOf(d, id) = RowsOf(c, id)
    BY <2>2, Zenon DEF RowsOf
  <2>4. \A r \in RowsOf(c, id) : d[r] = c[r]
    BY <2>1, Zenon DEF RowsOf
  <2>. QED
    BY <2>3, <2>4, Zenon DEF SameOf, d
<1>. QED
  BY <1>2, <1>3

\* The only chunk of a record is its chain.
LEMMA ChainStarts ==
    ASSUME NEW c, NEW i, NEW rank, NEW x, rank[x.block] \in Nat, RowsOf(c, i) \subseteq {x},
           NEW e, e.id = i, e.chain = NoRow
    PROVE  /\ RowsOf(With(c, x, e), i) = {x} /\ With(c, x, e)[x].chain = NoRow
           /\ ChainIs(With(c, x, e), i, rank, x)
<1> DEFINE d == With(c, x, e)
<1>1. /\ DOMAIN d = DOMAIN c \cup {x} /\ d[x] = e
      /\ \A y \in DOMAIN c : y # x => d[y] = c[y]
  BY Zenon DEF With
<1> HIDE DEF d
<1>2. \A r : r \in RowsOf(c, i) <=> r \in DOMAIN c /\ c[r].id = i
  BY Zenon DEF RowsOf
<1>3. \A r : r \in RowsOf(d, i) <=> r \in DOMAIN d /\ d[r].id = i
  BY Zenon DEF RowsOf
<1>4. RowsOf(d, i) = {x} /\ d[x].chain = NoRow
  BY <1>1, <1>2, <1>3, Zenon
<1>5. rank[x.block] <= rank[x.block]
  OBVIOUS
<1>6. Linked(d, i, rank)
  BY <1>4, <1>5, Zenon DEF Linked
<1>7. ChainIs(d, i, rank, x)
  BY <1>4, <1>5, <1>6, Zenon DEF ChainIs
<1>. QED
  BY <1>4, <1>7, Zenon DEF d

\* A chunk is added behind the last one.
LEMMA ChainGrows ==
    ASSUME NEW c, NEW i, NEW rank, Apart(c, rank), NEW row, ChainIs(c, i, rank, row),
           NEW last \in RowsOf(c, i), c[last].chain = NoRow,
           NEW x, x \notin DOMAIN c, x # NoRow, rank[x.block] \in Nat, rank[last.block] < rank[x.block],
           NEW e, e.id = i, e.chain = NoRow, NEW w, w.id = i, w.chain = x
    PROVE  LET d == With(With(c, x, e), last, w) IN
           ChainIs(d, i, rank, row) /\ x \in RowsOf(d, i) /\ d[x].chain = NoRow
<1> DEFINE a == With(c, x, e)
           d == With(a, last, w)
<1>1. /\ DOMAIN a = DOMAIN c \cup {x} /\ a[x] = e
      /\ \A y \in DOMAIN c : y # x => a[y] = c[y]
  BY Zenon DEF With
<1> HIDE DEF a
<1>2. /\ DOMAIN d = DOMAIN a \cup {last} /\ d[last] = w
      /\ \A y \in DOMAIN a : y # last => d[y] = a[y]
  BY Zenon DEF With
<1> HIDE DEF d
<1>3. \A r : r \in RowsOf(c, i) <=> r \in DOMAIN c /\ c[r].id = i
  BY Zenon DEF RowsOf
<1>4. \A r : r \in RowsOf(d, i) <=> r \in DOMAIN d /\ d[r].id = i
  BY Zenon DEF RowsOf
<1>5. last \in DOMAIN c /\ last # x
  BY <1>3
<1>6. /\ \A r : r \in RowsOf(d, i) <=> r \in RowsOf(c, i) \/ r = x
      /\ d[x].chain = NoRow /\ d[last].chain = x
      /\ \A r \in RowsOf(c, i) : r # last => d[r].chain = c[r].chain
  <2>1. /\ d[x] = e /\ d[last] = w /\ last \in RowsOf(c, i)
        /\ d[x].id = i /\ d[last].id = i
    BY <1>1, <1>2, <1>5, Zenon
  <2>2. \A r \in DOMAIN c : r # last => d[r] = c[r]
    <3> SUFFICES ASSUME NEW r \in DOMAIN c, r # last PROVE d[r] = c[r]
      OBVIOUS
    <3>1. r # x /\ r \in DOMAIN a
      BY <1>1, Zenon
    <3>. QED
      BY <3>1, <1>1, <1>2, Zenon
  <2>3. \A r : r \in DOMAIN d <=> r \in DOMAIN c \/ r = x
    BY <1>1, <1>2, <1>5, Zenon
  <2>4. \A r : r \in RowsOf(d, i) <=> r \in RowsOf(c, i) \/ r = x
    <3> SUFFICES ASSUME NEW r PROVE r \in RowsOf(d, i) <=> r \in RowsOf(c, i) \/ r = x
      OBVIOUS
    <3>1. CASE r = x
      BY <3>1, <2>1, <2>3, <1>4, Zenon
    <3>2. CASE r = last
      BY <3>2, <2>1, <2>3, <1>4, <1>5
    <3>3. CASE r # x /\ r # last
      <4>1. r \in DOMAIN d <=> r \in DOMAIN c
        BY <3>3, <2>3, Zenon
      <4>2. r \in DOMAIN c => d[r] = c[r]
        BY <3>3, <2>2, Zenon
      <4>. QED
        BY <3>3, <4>1, <4>2, <1>3, <1>4
    <3>. QED
      BY <3>1, <3>2, <3>3
  <2>5. \A r \in RowsOf(c, i) : r # last => d[r].chain = c[r].chain
    BY <2>2, <1>3, Zenon
  <2>. QED
    BY <2>1, <2>4, <2>5
<1>7. \A r \in RowsOf(c, i) : rank[r.block] \in Nat
  BY <1>3 DEF Apart
<1>8. \A r \in RowsOf(c, i) : rank[r.block] <= rank[last.block]
  BY DEF ChainIs, Linked
<1>9. \A r \in RowsOf(c, i) : r # last => c[r].chain # NoRow
  <2> SUFFICES ASSUME NEW r \in RowsOf(c, i), r # last, c[r].chain = NoRow PROVE FALSE
    OBVIOUS
  <2>1. rank[last.block] <= rank[r.block]
    BY DEF ChainIs, Linked
  <2>2. rank[last.block] = rank[r.block]
    BY <2>1, <1>7, <1>8
  <2>. QED
    BY <2>2, <1>3 DEF Apart
<1>10. Linked(d, i, rank)
  <2> SUFFICES ASSUME NEW r \in RowsOf(d, i)
               PROVE  IF d[r].chain = NoRow THEN \A t \in RowsOf(d, i) : rank[t.block] <= rank[r.block]
                      ELSE /\ d[r].chain \in RowsOf(d, i)
                           /\ rank[r.block] < rank[d[r].chain.block]
                           /\ \A t \in RowsOf(d, i) :
                                 rank[t.block] <= rank[r.block] \/ rank[d[r].chain.block] <= rank[t.block]
    BY Zenon DEF Linked
  <2>1. CASE r = x
    BY <2>1, <1>6, <1>7, <1>8
  <2>2. CASE r = last
    BY <2>2, <1>6, <1>7, <1>8
  <2>3. CASE r # x /\ r # last
    <3>1. r \in RowsOf(c, i) /\ d[r].chain = c[r].chain /\ c[r].chain # NoRow
      BY <2>3, <1>6, <1>9
    <3>2. /\ c[r].chain \in RowsOf(c, i)
          /\ rank[r.block] < rank[c[r].chain.block]
          /\ \A t \in RowsOf(c, i) :
                rank[t.block] <= rank[r.block] \/ rank[c[r].chain.block] <= rank[t.block]
      BY <3>1, Zenon DEF ChainIs, Linked
    <3>3. rank[c[r].chain.block] <= rank[x.block]
      BY <3>2, <1>7, <1>8
    <3>. QED
      BY <3>1, <3>2, <3>3, <1>6, Zenon
  <2>. QED
    BY <2>1, <2>2, <2>3
<1>11. row \in RowsOf(d, i) /\ \A t \in RowsOf(d, i) : rank[row.block] <= rank[t.block]
  BY <1>6, <1>7, <1>8 DEF ChainIs
<1>12. ChainIs(d, i, rank, row)
  BY <1>10, <1>11, Zenon DEF ChainIs
<1>13. x \in RowsOf(d, i) /\ d[x].chain = NoRow
  BY <1>6
<1>. QED
  BY <1>12, <1>13, Zenon DEF d, a

\* The first chunk of a record, and the second.
LEMMA ChainHead ==
    ASSUME NEW c, NEW i, NEW rank, Apart(c, rank), NEW row, ChainIs(c, i, rank, row)
    PROVE  /\ c[row].chain = NoRow => RowsOf(c, i) = {row}
           /\ c[row].chain # NoRow =>
                 /\ c[row].chain \in RowsOf(c, i) /\ rank[row.block] < rank[c[row].chain.block]
                 /\ \A t \in RowsOf(c, i) :
                       t = row \/ t = c[row].chain \/ rank[c[row].chain.block] < rank[t.block]
<1>1. \A r \in RowsOf(c, i) : rank[r.block] \in Nat
  BY DEF Apart, RowsOf
<1>2. \A r, t \in RowsOf(c, i) : rank[r.block] = rank[t.block] => r = t
  BY DEF Apart, RowsOf
<1>3. row \in RowsOf(c, i) /\ \A t \in RowsOf(c, i) : rank[row.block] <= rank[t.block]
  BY DEF ChainIs
<1>4. CASE c[row].chain = NoRow
  <2>1. \A t \in RowsOf(c, i) : rank[t.block] <= rank[row.block]
    BY <1>3, <1>4 DEF ChainIs, Linked
  <2>2. \A t \in RowsOf(c, i) : t = row
    BY <2>1, <1>1, <1>2, <1>3
  <2>. QED
    BY <2>2, <1>3, <1>4, Zenon
<1>5. CASE c[row].chain # NoRow
  <2>1. /\ c[row].chain \in RowsOf(c, i) /\ rank[row.block] < rank[c[row].chain.block]
        /\ \A t \in RowsOf(c, i) :
              rank[t.block] <= rank[row.block] \/ rank[c[row].chain.block] <= rank[t.block]
    BY <1>3, <1>5, Zenon DEF ChainIs, Linked
  <2>2. ASSUME NEW t \in RowsOf(c, i), t # row, t # c[row].chain
        PROVE  rank[c[row].chain.block] < rank[t.block]
    BY <2>1, <2>2, <1>1, <1>2, <1>3
  <2>. QED
    BY <2>1, <2>2, <1>5
<1>. QED
  BY <1>4, <1>5

-----------------------------------------------------------------------------
(* The list                                                                *)

\* Every block but the last links to its successor, which links back.
ForwardLinks(L, ps, last, rank) ==
    \A b \in L :
        IF b = last THEN ps[b].next = 0
        ELSE ps[b].next \in L /\ ps[ps[b].next].prev = b /\ rank[b] < rank[ps[b].next]

\* Every block but the first links to its predecessor, which links to it.
BackLinks(L, ps, fst) ==
    \A b \in L :
        IF b = fst THEN ps[b].prev = 0
        ELSE ps[b].prev \in L /\ ps[ps[b].prev].next = b

\* The blocks have their places in the list.
Ranked(L, last, rank) ==
    /\ rank \in [Blocks -> Nat]
    /\ \A b, c \in L : rank[b] = rank[c] => b = c
    /\ \A b \in L : rank[b] <= rank[last]

\* Only the last block of the list may be empty, and all others are.
Filled(L, ps, last) ==
    /\ \A b \in L : b # last => Live(ps[b]) # {}
    /\ \A b \in Blocks \ L : ps[b].headers = <<>>

\* The blocks in L are one list from fst to last.
ListIs(L, ps, fst, last, rank) ==
    /\ L \subseteq Blocks /\ fst \in L /\ last \in L
    /\ ForwardLinks(L, ps, last, rank)
    /\ BackLinks(L, ps, fst)
    /\ Ranked(L, last, rank)
    /\ Filled(L, ps, last)

\* No block is block 0, where links end.
LEMMA BlocksAre == Blocks \subseteq Nat \ {0} /\ 0 \notin Blocks /\ 3 \in Blocks
BY AllocatorAssumption DEF Blocks

\* Steps that leave the links alone and empty no block.
LEMMA ListSame ==
    ASSUME NEW L, NEW ps, NEW fst, NEW last, NEW rank, ListIs(L, ps, fst, last, rank), NEW qs,
           \A b \in Blocks : qs[b].next = ps[b].next /\ qs[b].prev = ps[b].prev,
           \A b \in L : b # last /\ Live(ps[b]) # {} => Live(qs[b]) # {},
           \A b \in Blocks \ L : qs[b].headers = ps[b].headers
    PROVE  ListIs(L, qs, fst, last, rank)
<1>1. L \subseteq Blocks
  BY DEF ListIs
<1>2. ForwardLinks(L, qs, last, rank)
  <2> SUFFICES ASSUME NEW b \in L
               PROVE  IF b = last THEN qs[b].next = 0
                      ELSE qs[b].next \in L /\ qs[qs[b].next].prev = b /\ rank[b] < rank[qs[b].next]
    BY Zenon DEF ForwardLinks
  <2>1. qs[b].next = ps[b].next
    BY <1>1
  <2>2. IF b = last THEN ps[b].next = 0
        ELSE ps[b].next \in L /\ ps[ps[b].next].prev = b /\ rank[b] < rank[ps[b].next]
    BY Zenon DEF ListIs, ForwardLinks
  <2>. QED
    BY <1>1, <2>1, <2>2
<1>3. BackLinks(L, qs, fst)
  <2> SUFFICES ASSUME NEW b \in L
               PROVE  IF b = fst THEN qs[b].prev = 0
                      ELSE qs[b].prev \in L /\ qs[qs[b].prev].next = b
    BY Zenon DEF BackLinks
  <2>1. qs[b].prev = ps[b].prev
    BY <1>1
  <2>2. IF b = fst THEN ps[b].prev = 0
        ELSE ps[b].prev \in L /\ ps[ps[b].prev].next = b
    BY Zenon DEF ListIs, BackLinks
  <2>. QED
    BY <1>1, <2>1, <2>2
<1>4. Filled(L, qs, last)
  BY DEF ListIs, Filled
<1>. QED
  BY <1>2, <1>3, <1>4 DEF ListIs

\* Block b is linked behind block a.
Appended(qs, ps, a, b) ==
    /\ \A c \in Blocks : /\ Relinked(qs[c], ps[c])
                         /\ c # a => qs[c].next = ps[c].next
                         /\ c # b => qs[c].prev = ps[c].prev
    /\ qs[a].next = b /\ qs[b].prev = a

\* A block is appended (record_allocator.go:131-149).
LEMMA ListGrows ==
    ASSUME NEW L, NEW ps, NEW fst, NEW last, NEW rank, ListIs(L, ps, fst, last, rank),
           Live(ps[last]) # {}, NEW b \in Blocks, b \notin L, ps[b].next = 0,
           NEW qs, Appended(qs, ps, last, b),
           NEW place, place = [rank EXCEPT ![b] = rank[last] + 1]
    PROVE  ListIs(L \cup {b}, qs, fst, b, place)
<1>1. /\ L \subseteq Blocks /\ fst \in L /\ last \in L /\ b # last
      /\ rank \in [Blocks -> Nat] /\ \A c, d \in L : rank[c] = rank[d] => c = d
      /\ \A c \in L : rank[c] <= rank[last]
  BY DEF ListIs, Ranked
<1>2. /\ \A c \in Blocks : /\ qs[c].headers = ps[c].headers
                           /\ c # last => qs[c].next = ps[c].next
                           /\ c # b => qs[c].prev = ps[c].prev
      /\ qs[last].next = b /\ qs[b].prev = last /\ qs[b].next = 0
  <2>1. \A c \in Blocks : qs[c].headers = ps[c].headers
    BY Zenon DEF Appended, Relinked
  <2>. QED
    BY <2>1, <1>1 DEF Appended
<1>3. \A c \in L : place[c] = rank[c] /\ place[c] \in Nat /\ place[c] < place[b]
  <2>1. place[b] = rank[last] + 1 /\ \A c \in L : place[c] = rank[c]
    BY <1>1
  <2>2. \A c \in L : rank[c] \in Nat /\ rank[c] <= rank[last]
    BY <1>1
  <2>. QED
    BY <1>1, <2>1, <2>2
<1>4. ForwardLinks(L \cup {b}, qs, b, place)
  <2> SUFFICES ASSUME NEW c \in L \cup {b}
               PROVE  IF c = b THEN qs[c].next = 0
                      ELSE /\ qs[c].next \in L \cup {b}
                           /\ qs[qs[c].next].prev = c /\ place[c] < place[qs[c].next]
    BY Zenon DEF ForwardLinks
  <2>1. CASE c = b
    BY <2>1, <1>2
  <2>2. CASE c = last
    BY <2>2, <1>2, <1>1, <1>3
  <2>3. CASE c # b /\ c # last
    <3>1. ps[c].next \in L /\ ps[ps[c].next].prev = c /\ rank[c] < rank[ps[c].next]
      BY <2>3 DEF ListIs, ForwardLinks
    <3>. QED
      BY <2>3, <3>1, <1>2, <1>1, <1>3
  <2>. QED
    BY <2>1, <2>2, <2>3
<1>5. BackLinks(L \cup {b}, qs, fst)
  <2> SUFFICES ASSUME NEW c \in L \cup {b}
               PROVE  IF c = fst THEN qs[c].prev = 0
                      ELSE qs[c].prev \in L \cup {b} /\ qs[qs[c].prev].next = c
    BY Zenon DEF BackLinks
  <2>1. CASE c = b
    BY <2>1, <1>2, <1>1
  <2>2. CASE c = fst
    BY <2>2, <1>2, <1>1 DEF ListIs, BackLinks
  <2>3. CASE c # b /\ c # fst
    <3>1. ps[c].prev \in L /\ ps[ps[c].prev].next = c
      BY <2>3 DEF ListIs, BackLinks
    <3>2. ps[c].prev # last
      <4>1. ps[last].next = 0
        BY <1>1 DEF ListIs, ForwardLinks
      <4>. QED
        BY <3>1, <4>1, <1>1, <2>3, BlocksAre
    <3>. QED
      BY <2>3, <3>1, <3>2, <1>2, <1>1
  <2>. QED
    BY <2>1, <2>2, <2>3
<1>6. Ranked(L \cup {b}, b, place)
  <2>1. place \in [Blocks -> Nat]
    BY <1>1
  <2>2. \A c, d \in L \cup {b} : place[c] = place[d] => c = d
    BY <1>1, <1>3, <2>1
  <2>3. \A c \in L \cup {b} : place[c] <= place[b]
    BY <1>1, <1>3, <2>1
  <2>. QED
    BY <2>1, <2>2, <2>3, Zenon DEF Ranked
<1>7. Filled(L \cup {b}, qs, b)
  <2>1. \A c \in Blocks : Live(qs[c]) = Live(ps[c])
    BY <1>2, Zenon DEF Live
  <2>. QED
    BY <1>2, <1>1, <2>1 DEF ListIs, Filled
<1>. QED
  BY <1>1, <1>4, <1>5, <1>6, <1>7, Zenon DEF ListIs

\* Without block b the blocks before and behind it link to each other.
Unlinked(qs, ps, b) ==
    /\ \A c \in Blocks \ {b} :
           /\ qs[c].next = IF c = ps[b].prev THEN ps[b].next ELSE ps[c].next
           /\ qs[c].prev = IF c = ps[b].next THEN ps[b].prev ELSE ps[c].prev
           /\ qs[c].headers = ps[c].headers
    /\ qs[b].headers = <<>>

\* A block that is not the last is taken out (record_allocator.go:181-225).
LEMMA ListShrinks ==
    ASSUME NEW L, NEW ps, NEW fst, NEW last, NEW rank, ListIs(L, ps, fst, last, rank),
           NEW b \in L, b # last, NEW qs, Unlinked(qs, ps, b),
           NEW f, f = IF ps[b].prev = 0 THEN ps[b].next ELSE fst
    PROVE  ListIs(L \ {b}, qs, f, last, rank)
<1> DEFINE P == ps[b].prev
           N == ps[b].next
           K == L \ {b}
<1>1. /\ L \subseteq Blocks /\ fst \in L /\ last \in L
      /\ rank \in [Blocks -> Nat] /\ \A c, d \in L : rank[c] = rank[d] => c = d
      /\ \A c \in L : rank[c] <= rank[last]
  BY DEF ListIs, Ranked
<1>2. /\ \A c \in L : c = last => ps[c].next = 0
      /\ \A c \in L : c # last =>
            ps[c].next \in L /\ ps[ps[c].next].prev = c /\ rank[c] < rank[ps[c].next]
      /\ \A c \in L : c = fst => ps[c].prev = 0
      /\ \A c \in L : c # fst => ps[c].prev \in L /\ ps[ps[c].prev].next = c
  BY DEF ListIs, ForwardLinks, BackLinks
<1>3. \A c \in L : c # 0 /\ c \in Blocks /\ rank[c] \in Nat
  BY <1>1, BlocksAre
<1>4. N \in K /\ ps[N].prev = b /\ rank[b] < rank[N] /\ N # 0
  BY <1>2, <1>3
<1>5. \/ b = fst /\ P = 0 /\ f = N
      \/ b # fst /\ P \in K /\ ps[P].next = b /\ P # last /\ rank[P] < rank[b] /\ f = fst
  <2>1. CASE b = fst
    BY <2>1, <1>2
  <2>2. CASE b # fst
    <3>1. P \in L /\ ps[P].next = b
      BY <2>2, <1>2
    <3>2. P # last /\ P # 0
      BY <3>1, <1>2, <1>3
    <3>3. rank[P] < rank[b]
      BY <3>1, <3>2, <1>2
    <3>. QED
      BY <2>2, <3>1, <3>2, <3>3, <1>3
  <2>. QED
    BY <2>1, <2>2
<1>6. \A c \in K : /\ qs[c].next = IF c = P THEN N ELSE ps[c].next
                   /\ qs[c].prev = IF c = N THEN P ELSE ps[c].prev
  BY <1>1 DEF Unlinked
<1>7. \A c \in Blocks \ {b} : Live(qs[c]) = Live(ps[c])
  <2>1. \A c \in Blocks \ {b} : qs[c].headers = ps[c].headers
    BY DEF Unlinked
  <2>. QED
    BY <2>1, Zenon DEF Live
<1>8. Filled(K, qs, last)
  BY <1>1, <1>7 DEF ListIs, Filled, Unlinked
<1> HIDE DEF P, N
<1>9. ForwardLinks(K, qs, last, rank)
  <2> SUFFICES ASSUME NEW c \in K
               PROVE  IF c = last THEN qs[c].next = 0
                      ELSE qs[c].next \in K /\ qs[qs[c].next].prev = c /\ rank[c] < rank[qs[c].next]
    BY Zenon DEF ForwardLinks
  <2>1. CASE c = P
    <3>1. c # last /\ qs[c].next = N /\ qs[N].prev = c
      BY <2>1, <1>3, <1>4, <1>5, <1>6
    <3>2. rank[c] < rank[N]
      BY <2>1, <1>3, <1>4, <1>5
    <3>. QED
      BY <3>1, <3>2, <1>4
  <2>2. CASE c = last /\ c # P
    BY <2>2, <1>2, <1>6
  <2>3. CASE c # last /\ c # P
    <3> DEFINE n == ps[c].next
    <3>1. n \in L /\ ps[n].prev = c /\ rank[c] < rank[n] /\ qs[c].next = n
      BY <2>3, <1>2, <1>6
    <3>2. n # b
      BY <2>3, <3>1 DEF P
    <3>3. n # N
      BY <3>1, <1>4
    <3>4. qs[n].prev = ps[n].prev
      BY <3>1, <3>2, <3>3, <1>6
    <3>. QED
      BY <2>3, <3>1, <3>2, <3>4
  <2>. QED
    BY <2>1, <2>2, <2>3
<1>10. BackLinks(K, qs, f)
  <2> SUFFICES ASSUME NEW c \in K
               PROVE  IF c = f THEN qs[c].prev = 0
                      ELSE qs[c].prev \in K /\ qs[qs[c].prev].next = c
    BY Zenon DEF BackLinks
  <2>1. CASE c = N
    <3>1. qs[c].prev = P
      BY <2>1, <1>6
    <3>2. CASE b = fst
      BY <3>1, <3>2, <2>1, <1>5
    <3>3. CASE b # fst
      <4>1. c # fst
        BY <2>1, <1>2, <1>3, <1>4
      <4>. QED
        BY <3>1, <3>3, <4>1, <2>1, <1>5, <1>6
    <3>. QED
      BY <3>2, <3>3
  <2>2. CASE c # N
    <3>1. qs[c].prev = ps[c].prev
      BY <2>2, <1>6
    <3>2. CASE c = fst
      BY <2>2, <3>1, <3>2, <1>2, <1>5
    <3>3. CASE c # fst
      <4> DEFINE d == ps[c].prev
      <4>1. d \in L /\ ps[d].next = c
        BY <3>3, <1>2
      <4>2. d # b
        BY <2>2, <4>1 DEF N
      <4>3. d # P
        BY <4>1, <1>3, <1>5
      <4>4. qs[d].next = c
        BY <4>1, <4>2, <4>3, <1>6
      <4>5. c # f
        BY <2>2, <3>3, <1>5
      <4>. QED
        BY <3>1, <4>1, <4>2, <4>4, <4>5
    <3>. QED
      BY <3>2, <3>3
  <2>. QED
    BY <2>1, <2>2
<1>11. Ranked(K, last, rank)
  BY <1>1 DEF Ranked
<1>12. K \subseteq Blocks /\ last \in K
  BY <1>1
<1>13. f \in K
  BY <1>1, <1>4, <1>5
<1>. QED
  BY <1>8, <1>9, <1>10, <1>11, <1>12, <1>13, Zenon DEF ListIs, P, N

-----------------------------------------------------------------------------
(* The blocks and what lives on them                                       *)

PagesOK(ps) ==
    /\ ps = [b \in Blocks |-> ps[b]]
    /\ \A b \in Blocks : PageOK(ps[b])

\* Chunks live on blocks of the list, are headers in use of records, and no record has
\* two on one block.
LEMMA ChunksAre ==
    ASSUME NEW ps, PagesOK(ps), NEW L, NEW fst, NEW last, NEW rank, ListIs(L, ps, fst, last, rank)
    PROVE  /\ \A r \in DOMAIN Chunks(ps) :
                  /\ r \in RowIDs /\ r.block \in L /\ r.block \in Nat /\ r.local \in Nat
                  /\ r = [block |-> r.block, local |-> r.local]
                  /\ r.local + 1 \in Live(ps[r.block])
                  /\ Chunks(ps)[r] = Entry(ps[r.block], r.local + 1)
                  /\ Chunks(ps)[r].id = ps[r.block].headers[r.local + 1].id
                  /\ Chunks(ps)[r].chain = ps[r.block].headers[r.local + 1].chain
                  /\ Chunks(ps)[r].id \in RecordIDs
           /\ Apart(Chunks(ps), rank)
<1> DEFINE c == Chunks(ps)
<1>1. /\ \A r : r \in DOMAIN c <=> r \in RowIDs /\ r.block \in Blocks /\ r.local + 1 \in DOMAIN Entries(ps[r.block])
      /\ \A r \in DOMAIN c : c[r] = Entries(ps[r.block])[r.local + 1]
  BY ChunksValues, Zenon
<1> HIDE DEF c
<1>2. /\ L \subseteq Blocks /\ rank \in [Blocks -> Nat]
      /\ \A a, d \in L : rank[a] = rank[d] => a = d
      /\ \A b \in Blocks \ L : ps[b].headers = <<>>
  BY DEF ListIs, Ranked, Filled
<1>3. ASSUME NEW r \in DOMAIN c
      PROVE  /\ r \in RowIDs /\ r.block \in L /\ r.block \in Nat /\ r.local \in Nat
             /\ r = [block |-> r.block, local |-> r.local]
             /\ r.local + 1 \in Live(ps[r.block])
             /\ c[r] = Entry(ps[r.block], r.local + 1)
             /\ c[r].id = ps[r.block].headers[r.local + 1].id
             /\ c[r].chain = ps[r.block].headers[r.local + 1].chain
             /\ c[r].id \in RecordIDs
             /\ r # NoRow
  <2> DEFINE b == r.block
             m == r.local + 1
             p == ps[b]
  <2>1. r \in RowIDs /\ b \in Blocks /\ m \in DOMAIN Entries(p) /\ c[r] = Entries(p)[m]
    BY <1>1, Zenon
  <2>2. b \in Nat /\ b # 0 /\ r.local \in Nat /\ r = [block |-> b, local |-> r.local]
    BY <2>1, BlocksAre DEF RowIDs
  <2> HIDE DEF b, m, p
  <2>3. m \in Live(p) /\ c[r] = Entry(p, m)
    BY <2>1, Zenon DEF Entries
  <2>4. IsPage(p) /\ Tidy(p)
    BY <2>1 DEF PagesOK, PageOK, Packed, p
  <2>5. m \in 1 .. Len(p.headers) /\ p.headers[m].id # 0
    BY <2>3, <2>4, LiveIs
  <2>6. b \in L
    <3> SUFFICES ASSUME b \notin L PROVE FALSE
      OBVIOUS
    <3>1. p.headers = <<>>
      BY <2>1, <1>2 DEF p
    <3>. QED
      BY <3>1, <2>5
  <2>7. c[r].id = p.headers[m].id /\ c[r].chain = p.headers[m].chain
    BY <2>3 DEF Entry
  <2>8. c[r].id \in RecordIDs
    BY <2>4, <2>5, <2>7 DEF Tidy
  <2>9. r # NoRow
    BY <2>2 DEF NoRow, b
  <2>. QED
    BY <2>1, <2>2, <2>3, <2>6, <2>7, <2>8, <2>9 DEF b, m, p
<1>4. \A r \in DOMAIN c : r # NoRow /\ rank[r.block] \in Nat
  BY <1>2, <1>3
<1>5. ASSUME NEW r \in DOMAIN c, NEW t \in DOMAIN c, c[r].id = c[t].id, rank[r.block] = rank[t.block]
      PROVE  r = t
  <2>1. r.block = t.block
    BY <1>2, <1>3, <1>5
  <2> DEFINE p == ps[r.block]
             m == r.local + 1
             l == t.local + 1
  <2>2. IsPage(p) /\ Tidy(p)
    <3>1. r.block \in Blocks
      BY <1>2, <1>3
    <3>. QED
      BY <3>1 DEF PagesOK, PageOK, Packed
  <2>3. m \in Live(p) /\ l \in Live(p) /\ p.headers[m].id = p.headers[l].id
    BY <1>3, <1>5, <2>1
  <2>4. m = l
    <3> HIDE DEF p, m, l
    <3>1. /\ m \in 1 .. Len(p.headers) /\ p.headers[m].id # 0 /\ l \in 1 .. Len(p.headers)
      BY <2>2, <2>3, LiveIs
    <3>. QED
      BY <2>2, <2>3, <3>1 DEF Tidy
  <2>5. r.local = t.local
    BY <2>4, <1>3
  <2>. QED
    BY <2>1, <2>5, <1>3
<1>6. Apart(c, rank)
  BY <1>4, <1>5 DEF Apart
<1>. QED
  BY <1>3, <1>6 DEF c

\* A row with a record is among the chunks.
LEMMA RowIsChunk ==
    ASSUME NEW ps, PagesOK(ps), NEW b \in Blocks, NEW l \in Nat
    PROVE  [block |-> b, local |-> l] \in DOMAIN Chunks(ps) <=> l + 1 \in Live(ps[b])
<1>1. b \in Nat
  BY BlocksAre
<1> DEFINE x == [block |-> b, local |-> l]
<1>2. x \in RowIDs /\ x.block = b /\ x.local = l
  BY <1>1, RowIs
<1> HIDE DEF x
<1>3. x \in DOMAIN Chunks(ps) <=> x \in RowIDs /\ x.block \in Blocks /\ x.local + 1 \in DOMAIN Entries(ps[x.block])
  BY ChunksValues, Zenon
<1>4. DOMAIN Entries(ps[b]) = Live(ps[b])
  BY Zenon DEF Entries
<1>. QED
  BY <1>2, <1>3, <1>4 DEF x

\* Block b of qs is q, and the others are those of ps.
Replaced(qs, ps, b, q) == PagesOK(qs) /\ qs[b] = q /\ \A c \in Blocks : c # b => qs[c] = ps[c]

\* One block is replaced.
LEMMA PagesReplaced ==
    ASSUME NEW ps, PagesOK(ps), NEW b \in Blocks, NEW q, PageOK(q),
           NEW qs, qs = [ps EXCEPT ![b] = q]
    PROVE  Replaced(qs, ps, b, q)
<1>1. DOMAIN ps = Blocks
  BY DEF PagesOK
<1>2. qs = [c \in Blocks |-> IF c = b THEN q ELSE ps[c]]
  BY <1>1
<1>3. \A c \in Blocks : qs[c] = IF c = b THEN q ELSE ps[c]
  BY <1>2, Zenon
<1>4. \A c \in Blocks : PageOK(qs[c])
  BY <1>3 DEF PagesOK
<1>5. qs = [c \in Blocks |-> qs[c]]
  BY <1>2, Zenon
<1>. QED
  BY <1>3, <1>4, <1>5, Zenon DEF PagesOK, Replaced

-----------------------------------------------------------------------------
(* The call being executed                                                 *)

\* A call in one of its loops.
Working(o) ==
    /\ o = [pc |-> o.pc, id |-> o.id, stack |-> o.stack, data |-> o.data, rest |-> o.rest,
            at |-> o.at, row |-> o.row, prev |-> o.prev]
    /\ o.id \in RecordIDs

\* It has bytes to place.
Writes(o) == o.data # Absent /\ IsBytes(o.rest) /\ Len(o.rest) # 0

\* What is placed of the record is a chain, whose last chunk is on a full block or on
\* one before the block to be tried.
Placing(o, c, rank, L, ps) ==
    /\ o.pc = "place" /\ Working(o) /\ Writes(o) /\ o.at \in L
    /\ IF o.prev = NoRow THEN o.row = NoRow /\ RowsOf(c, o.id) = {}
       ELSE /\ ChainIs(c, o.id, rank, o.row)
            /\ o.prev \in RowsOf(c, o.id) /\ c[o.prev].chain = NoRow
            /\ \/ o.at = o.prev.block /\ FreeSpaceForInsert(ps[o.at]) = 0
               \/ rank[o.prev.block] < rank[o.at]

\* An update keeps the record's first chunk until all others are gone.
Keeps(o, c) ==
    o.data # Absent =>
        /\ Writes(o)
        /\ o.row \in RowsOf(c, o.id) /\ o.at = o.row.block /\ o.prev = NoRow

\* The chunks to be removed follow each other in the list.
Stacked(o, c, rank) ==
    LET s == o.stack IN
    /\ s \in Seq(RowIDs) /\ Len(s) # 0
    /\ \A k \in 1 .. Len(s) : s[k] \in RowsOf(c, o.id)
    /\ \A k, l \in 1 .. Len(s) : k < l => rank[s[k].block] < rank[s[l].block]
    /\ o.data # Absent => \A k \in 1 .. Len(s) : rank[o.row.block] < rank[s[k].block]

\* Nothing of the record is forgotten.
Covered(o, r) == (o.data # Absent /\ r = o.row) \/ \E k \in 1 .. Len(o.stack) : o.stack[k] = r

Descending(o, c, rank) ==
    /\ o.pc = "descend" /\ Working(o) /\ Keeps(o, c) /\ Stacked(o, c, rank)
    /\ Linked(c, o.id, rank)
    /\ \A r \in RowsOf(c, o.id) :
          Covered(o, r) \/ rank[o.stack[Len(o.stack)].block] < rank[r.block]

Removing(o, c, rank) ==
    /\ o.pc = "remove" /\ Working(o) /\ Keeps(o, c) /\ Stacked(o, c, rank)
    /\ \A r \in RowsOf(c, o.id) : Covered(o, r)

Rewriting(o, c) ==
    /\ o.pc = "rewrite" /\ Working(o) /\ Keeps(o, c) /\ o.data # Absent
    /\ RowsOf(c, o.id) = {o.row}

Indexing(o, c, rank) ==
    /\ o.pc = "index" /\ o.id \in RecordIDs /\ o.data # Absent
    /\ ChainIs(c, o.id, rank, o.row)

Unindexing(o, c) ==
    /\ o.pc = "unindex" /\ o.id \in RecordIDs
    /\ RowsOf(c, o.id) = {}

OpIs(o, c, rank, L, ps) ==
    \/ o = Idle
    \/ Placing(o, c, rank, L, ps)
    \/ Descending(o, c, rank)
    \/ Removing(o, c, rank)
    \/ Rewriting(o, c)
    \/ Indexing(o, c, rank)
    \/ Unindexing(o, c)

\* The record is the chain the index names, or is not there.
RecordStored(id, rw, ct, c, rank) ==
    IF ct[id] = Absent THEN RowsOf(c, id) = {} ELSE ChainIs(c, id, rank, rw[id])

\* So is every record no call is busy with.
Stored(o, rw, ct, c, rank) ==
    \A id \in RecordIDs : o.pc = "idle" \/ o.id # id => RecordStored(id, rw, ct, c, rank)

\* Which of them it is shows in op.pc.
LEMMA OpByPc ==
    ASSUME NEW o, NEW c, NEW rank, NEW L, NEW ps, OpIs(o, c, rank, L, ps)
    PROVE  /\ o.pc = "idle" <=> o = Idle
           /\ o.pc = "place" => Placing(o, c, rank, L, ps)
           /\ o.pc = "descend" => Descending(o, c, rank)
           /\ o.pc = "remove" => Removing(o, c, rank)
           /\ o.pc = "rewrite" => Rewriting(o, c)
           /\ o.pc = "index" => Indexing(o, c, rank)
           /\ o.pc = "unindex" => Unindexing(o, c)
           /\ o.pc \in {"idle", "place", "descend", "remove", "rewrite", "index", "unindex"}
<1>1. o = Idle => o.pc = "idle"
  BY DEF Idle
<1>2. Placing(o, c, rank, L, ps) => o.pc = "place"
  BY DEF Placing
<1>3. Descending(o, c, rank) => o.pc = "descend"
  BY DEF Descending
<1>4. Removing(o, c, rank) => o.pc = "remove"
  BY DEF Removing
<1>5. Rewriting(o, c) => o.pc = "rewrite"
  BY DEF Rewriting
<1>6. Indexing(o, c, rank) => o.pc = "index"
  BY DEF Indexing
<1>7. Unindexing(o, c) => o.pc = "unindex"
  BY DEF Unindexing
<1>. QED
  BY <1>1, <1>2, <1>3, <1>4, <1>5, <1>6, <1>7 DEF OpIs

\* What a step that works on record i leaves of the others.
Others(i, d, c, place, rank) ==
    \A id \in RecordIDs : id # i =>
        SameOf(d, c, id) /\ SamePlaces(c, id, place, rank)

OthersStored(i, rw, ct, d, place) ==
    \A id \in RecordIDs : id # i => RecordStored(id, rw, ct, d, place)

\* The records a step does not work on stay as they are.
LEMMA OthersStay ==
    ASSUME NEW o, NEW rw, NEW ct, NEW c, NEW rank, Stored(o, rw, ct, c, rank),
           NEW i, NEW d, NEW place, Others(i, d, c, place, rank),
           o.pc = "idle" \/ o.id = i
    PROVE  OthersStored(i, rw, ct, d, place)
<1> SUFFICES ASSUME NEW id \in RecordIDs, id # i
             PROVE  RecordStored(id, rw, ct, d, place)
  BY DEF OthersStored
<1>1. SameOf(d, c, id) /\ SamePlaces(c, id, place, rank)
  BY DEF Others
<1>2. RecordStored(id, rw, ct, c, rank)
  BY DEF Stored
<1>3. RowsOf(d, id) = RowsOf(c, id)
  BY <1>1, Zenon DEF SameOf
<1>4. \A row : ChainIs(c, id, rank, row) => ChainIs(d, id, place, row)
  BY <1>1, ChainSame
<1>. QED
  BY <1>2, <1>3, <1>4 DEF RecordStored

\* The call goes on.
LEMMA StoredStep ==
    ASSUME NEW o, NEW rw, NEW ct, NEW c, NEW rank, Stored(o, rw, ct, c, rank),
           NEW i, NEW d, NEW place, Others(i, d, c, place, rank),
           o.pc = "idle" \/ o.id = i,
           NEW q, q.id = i, q.pc # "idle"
    PROVE  Stored(q, rw, ct, d, place)
<1>1. OthersStored(i, rw, ct, d, place)
  BY OthersStay
<1>. QED
  BY <1>1, Zenon DEF Stored, OthersStored

\* The call returns.
LEMMA StoredReturn ==
    ASSUME NEW o, NEW rw, NEW ct, NEW c, NEW rank, Stored(o, rw, ct, c, rank),
           NEW i \in RecordIDs, NEW d, NEW place, Others(i, d, c, place, rank),
           o.pc = "idle" \/ o.id = i,
           rw = [id \in RecordIDs |-> rw[id]], ct = [id \in RecordIDs |-> ct[id]],
           NEW row, NEW data,
           IF data = Absent THEN RowsOf(d, i) = {} ELSE ChainIs(d, i, place, row),
           NEW rw2, rw2 = [rw EXCEPT ![i] = row], NEW ct2, ct2 = [ct EXCEPT ![i] = data]
    PROVE  /\ rw2 = [id \in RecordIDs |-> rw2[id]] /\ ct2 = [id \in RecordIDs |-> ct2[id]]
           /\ \A q : Stored(q, rw2, ct2, d, place)
<1>1. OthersStored(i, rw, ct, d, place)
  BY OthersStay
<1>2. /\ \A id \in RecordIDs : /\ rw2[id] = IF id = i THEN row ELSE rw[id]
                               /\ ct2[id] = IF id = i THEN data ELSE ct[id]
      /\ rw2 = [id \in RecordIDs |-> rw2[id]] /\ ct2 = [id \in RecordIDs |-> ct2[id]]
  <2>1. DOMAIN rw = RecordIDs /\ DOMAIN ct = RecordIDs
    OBVIOUS
  <2>2. /\ rw2 = [id \in RecordIDs |-> IF id = i THEN row ELSE rw[id]]
        /\ ct2 = [id \in RecordIDs |-> IF id = i THEN data ELSE ct[id]]
    BY <2>1
  <2>. QED
    BY <2>2, Zenon
<1>3. ASSUME NEW id \in RecordIDs PROVE RecordStored(id, rw2, ct2, d, place)
  <2>1. CASE id = i
    BY <2>1, <1>2 DEF RecordStored
  <2>2. CASE id # i
    BY <2>2, <1>1, <1>2 DEF RecordStored, OthersStored
  <2>. QED
    BY <2>1, <2>2
<1>. QED
  BY <1>2, <1>3, Zenon DEF Stored

-----------------------------------------------------------------------------
(* The invariant                                                           *)

Core(rank) ==
    /\ ListIs(ListBlocks, pages, first, avail, rank)
    /\ Stored(op, rows, content, Chunks(pages), rank)
    /\ OpIs(op, Chunks(pages), rank, ListBlocks, pages)

CoreInv ==
    /\ PagesOK(pages)
    /\ rows = [id \in RecordIDs |-> rows[id]]
    /\ content = [id \in RecordIDs |-> content[id]]
    /\ \E rank : Core(rank)

\* A step that leaves the blocks alone.
LEMMA CoreKept ==
    ASSUME CoreInv, UNCHANGED <<pages, list>>, NEW rank, Core(rank),
           rows' = [id \in RecordIDs |-> rows'[id]], content' = [id \in RecordIDs |-> content'[id]],
           Stored(op', rows', content', Chunks(pages), rank),
           OpIs(op', Chunks(pages), rank, ListBlocks, pages)
    PROVE  CoreInv'
<1>1. pages' = pages /\ first' = first /\ avail' = avail /\ ListBlocks' = ListBlocks
  BY DEF list, map, ListBlocks
<1>2. Core(rank)'
  BY <1>1 DEF Core
<1>. QED
  BY <1>1, <1>2 DEF CoreInv

\* A call's next step finds the list, the records and the call in order.
LEMMA CoreIs ==
    ASSUME CoreInv, NEW rank, Core(rank)
    PROVE  /\ PagesOK(pages)
           /\ ListIs(ListBlocks, pages, first, avail, rank)
           /\ Stored(op, rows, content, Chunks(pages), rank)
           /\ OpIs(op, Chunks(pages), rank, ListBlocks, pages)
           /\ Apart(Chunks(pages), rank)
BY ChunksAre DEF CoreInv, Core

-----------------------------------------------------------------------------
(* The steps that change no block                                          *)

\* A step that changes no chunk.
LEMMA NothingMoved == \A i, c, rank : Others(i, c, c, rank, rank)
BY DEF Others, SameOf, SamePlaces

\* No call has changed the record, or a call has begun.
LEMMA IdleStored ==
    ASSUME NEW rank, Core(rank), op = Idle, NEW id \in RecordIDs
    PROVE  RecordStored(id, rows, content, Chunks(pages), rank)
BY DEF Core, Stored, Idle

\* Insert begins at the block that was allocated last (record_allocator.go:26-30).
LEMMA InsertStep ==
    ASSUME CoreInv, NEW id \in RecordIDs, NEW n \in Sizes, Insert(id, n)
    PROVE  CoreInv'
<1> PICK rank : Core(rank)
  BY DEF CoreInv
<1> DEFINE c == Chunks(pages)
           o == [pc |-> "place", id |-> id, stack |-> <<>>, data |-> Data(id, n), rest |-> Data(id, n),
                 at |-> avail, row |-> NoRow, prev |-> NoRow]
<1>1. /\ op = Idle /\ content[id] = Absent /\ op' = o
      /\ UNCHANGED <<pages, list>> /\ rows' = rows /\ content' = content
  BY DEF Insert, Present
<1>2. RowsOf(c, id) = {}
  BY <1>1, IdleStored DEF RecordStored
<1>3. ListIs(ListBlocks, pages, first, avail, rank) /\ Stored(op, rows, content, c, rank)
  BY CoreIs
<1>4. Working(o) /\ o.pc = "place" /\ o.at = avail /\ o.prev = NoRow /\ o.row = NoRow /\ o.id = id
  BY DEF Working
<1>5. Writes(o)
  <2>1. id \in Nat \ {0} /\ n \in Nat /\ n # 0
    BY RecordsAssumption
  <2>2. Len(Data(id, n)) = n /\ IsBytes(Data(id, n)) /\ Data(id, n) # Absent
    BY <2>1, DataIs
  <2>3. o.data = Data(id, n) /\ o.rest = Data(id, n)
    OBVIOUS
  <2> HIDE DEF o
  <2>. QED
    BY <2>1, <2>2, <2>3 DEF Writes
<1> HIDE DEF o, c
<1>6. avail \in ListBlocks
  BY <1>3 DEF ListIs
<1>7. Placing(o, c, rank, ListBlocks, pages)
  BY <1>2, <1>4, <1>5, <1>6 DEF Placing
<1>8. op.pc = "idle"
  BY <1>1 DEF Idle
<1>9. Stored(o, rows, content, c, rank)
  BY <1>3, <1>4, <1>8, NothingMoved, StoredStep
<1>10. OpIs(op', c, rank, ListBlocks, pages) /\ Stored(op', rows', content', c, rank)
  BY <1>1, <1>7, <1>9 DEF OpIs
<1>11. rows' = [i \in RecordIDs |-> rows'[i]] /\ content' = [i \in RecordIDs |-> content'[i]]
  BY <1>1 DEF CoreInv
<1>. QED
  BY <1>1, <1>10, <1>11, CoreKept DEF c

\* A stack of one chunk.
LEMMA StackOfOne ==
    ASSUME NEW o, NEW c, NEW rank, NEW r, r \in RowIDs, r \in RowsOf(c, o.id), o.stack = <<r>>,
           o.data # Absent => rank[o.row.block] < rank[r.block]
    PROVE  Stacked(o, c, rank) /\ o.stack[Len(o.stack)] = r /\ \A t : Covered(o, t) <=> t = r \/ (o.data # Absent /\ t = o.row)
<1> DEFINE s == o.stack
<1>1. s \in Seq(RowIDs) /\ Len(s) = 1 /\ s[1] = r /\ s[Len(s)] = r
  OBVIOUS
<1> HIDE DEF s
<1>2. \A k \in 1 .. Len(s) : k = 1 /\ s[k] = r
  BY <1>1
<1>3. \A k, l \in 1 .. Len(s) : k < l => rank[s[k].block] < rank[s[l].block]
  BY <1>2
<1>4. Stacked(o, c, rank)
  BY <1>1, <1>2, <1>3 DEF Stacked, s
<1>5. 1 \in 1 .. Len(s)
  BY <1>1
<1>6. \A t : Covered(o, t) <=> t = r \/ (o.data # Absent /\ t = o.row)
  BY <1>2, <1>5, Zenon DEF Covered, s
<1>. QED
  BY <1>1, <1>4, <1>6 DEF s

\* Delete begins with the record's first chunk (record_allocator.go:151-165).
LEMMA DeleteStep ==
    ASSUME CoreInv, NEW id \in RecordIDs, Delete(id)
    PROVE  CoreInv'
<1> PICK rank : Core(rank)
  BY DEF CoreInv
<1> DEFINE c == Chunks(pages)
           r == rows[id]
           o == [pc |-> "descend", id |-> id, stack |-> <<r>>, data |-> Absent, rest |-> <<>>,
                 at |-> 0, row |-> NoRow, prev |-> NoRow]
<1>1. /\ op = Idle /\ content[id] # Absent /\ op' = o
      /\ UNCHANGED <<pages, list>> /\ rows' = rows /\ content' = content
  BY DEF Delete, Present
<1>2. ChainIs(c, id, rank, r)
  BY <1>1, IdleStored DEF RecordStored
<1>3. Stored(op, rows, content, c, rank) /\ Apart(c, rank)
  BY CoreIs
<1>4. r \in RowsOf(c, id) /\ r \in RowIDs /\ Linked(c, id, rank)
  <2>1. r \in RowsOf(c, id) /\ Linked(c, id, rank)
    BY <1>2 DEF ChainIs
  <2>2. r \in DOMAIN c
    BY <2>1 DEF RowsOf
  <2>. QED
    BY <2>1, <2>2, ChunksValues
<1>5. Working(o) /\ o.pc = "descend" /\ o.id = id /\ o.data = Absent /\ o.stack = <<r>>
  BY DEF Working
<1> HIDE DEF o, c, r
<1>6. /\ Stacked(o, c, rank) /\ o.stack[Len(o.stack)] = r
      /\ \A t : Covered(o, t) <=> t = r \/ (o.data # Absent /\ t = o.row)
  BY <1>4, <1>5, StackOfOne
<1>7. \A t \in RowsOf(c, id) : t = r \/ rank[r.block] < rank[t.block]
  <2>1. \A t \in RowsOf(c, id) : rank[r.block] <= rank[t.block]
    BY <1>2 DEF ChainIs
  <2>2. \A t \in RowsOf(c, id) : rank[t.block] \in Nat /\ (rank[r.block] = rank[t.block] => r = t)
    BY <1>3, <1>4 DEF Apart, RowsOf
  <2>. QED
    BY <1>4, <2>1, <2>2
<1>8. Keeps(o, c)
  BY <1>5 DEF Keeps
<1>9. Descending(o, c, rank)
  BY <1>4, <1>5, <1>6, <1>7, <1>8 DEF Descending
<1>10. op.pc = "idle"
  BY <1>1 DEF Idle
<1>11. Stored(o, rows, content, c, rank)
  BY <1>3, <1>5, <1>10, NothingMoved, StoredStep
<1>12. OpIs(op', c, rank, ListBlocks, pages) /\ Stored(op', rows', content', c, rank)
  BY <1>1, <1>9, <1>11 DEF OpIs
<1>13. rows' = [i \in RecordIDs |-> rows'[i]] /\ content' = [i \in RecordIDs |-> content'[i]]
  BY <1>1 DEF CoreInv
<1>. QED
  BY <1>1, <1>12, <1>13, CoreKept DEF c

\* A record of the index has its header, and the chain the header names.
LEMMA RowIsValid ==
    ASSUME CoreInv, NEW rank, Core(rank), NEW r \in DOMAIN Chunks(pages)
    PROVE  /\ r.block \in ListBlocks /\ r.block \in Blocks /\ r.local \in Nat
           /\ r = [block |-> r.block, local |-> r.local]
           /\ r.local + 1 \in Live(pages[r.block])
           /\ ValidLocalID(pages[r.block], r.local)
           /\ ChainedRowID(pages[r.block], r.local) = Chunks(pages)[r].chain
           /\ Chunks(pages)[r].chain \in RowIDs
<1> DEFINE c == Chunks(pages)
           p == pages[r.block]
<1>1. PagesOK(pages) /\ ListIs(ListBlocks, pages, first, avail, rank)
  BY CoreIs
<1>2. /\ r.block \in ListBlocks /\ r.local \in Nat /\ r = [block |-> r.block, local |-> r.local]
      /\ r.local + 1 \in Live(p) /\ c[r].chain = p.headers[r.local + 1].chain
  BY <1>1, ChunksAre
<1>3. r.block \in Blocks
  BY <1>1, <1>2 DEF ListIs
<1>4. IsPage(p)
  BY <1>1, <1>3 DEF PagesOK, PageOK, Packed
<1> HIDE DEF p
<1>5. r.local + 1 \in 1 .. Len(p.headers) /\ p.headers[r.local + 1].id # 0 /\ Len(p.headers) \in Nat
  BY <1>2, <1>4, LiveIs
<1>6. ValidLocalID(p, r.local)
  BY <1>2, <1>5 DEF ValidLocalID
<1>7. p.headers[r.local + 1].chain \in RowIDs
  <2>1. p.headers[r.local + 1] \in HeaderRec
    BY <1>4, <1>5 DEF IsPage
  <2>. QED
    BY <2>1, HeaderNumbers
<1>. QED
  BY <1>2, <1>3, <1>6, <1>7 DEF ChainedRowID, p

\* A chain ends at block 0.
LEMMA ChainEnds ==
    ASSUME CoreInv, NEW rank, Core(rank), NEW id, NEW r \in RowsOf(Chunks(pages), id),
           Linked(Chunks(pages), id, rank)
    PROVE  Chunks(pages)[r].chain.block = 0 <=> Chunks(pages)[r].chain = NoRow
<1> DEFINE c == Chunks(pages)
           t == c[r].chain
<1>1. CASE t = NoRow
  BY <1>1 DEF NoRow
<1>2. CASE t # NoRow
  <2>1. t \in DOMAIN c
    BY <1>2 DEF Linked, RowsOf
  <2>2. t.block \in Blocks
    BY <2>1, RowIsValid
  <2>. QED
    BY <1>2, <2>2, BlocksAre
<1>. QED
  BY <1>1, <1>2

\* Fields of a call are replaced.
LEMMA WorkingStack ==
    ASSUME NEW o, Working(o), NEW x, NEW q, q = [o EXCEPT !.stack = x]
    PROVE  /\ Working(q) /\ q.pc = o.pc /\ q.id = o.id /\ q.stack = x /\ q.data = o.data /\ q.rest = o.rest
           /\ q.at = o.at /\ q.row = o.row /\ q.prev = o.prev
<1>1. q = [pc |-> o.pc, id |-> o.id, stack |-> x, data |-> o.data, rest |-> o.rest,
           at |-> o.at, row |-> o.row, prev |-> o.prev]
  BY DEF Working
<1>2. o.id \in RecordIDs
  BY DEF Working
<1>. QED
  BY <1>1, <1>2 DEF Working

\* A call goes on to another part of its work.
LEMMA WorkingPc ==
    ASSUME NEW o, Working(o), NEW x, NEW q, q = [o EXCEPT !.pc = x]
    PROVE  /\ Working(q) /\ q.pc = x /\ q.id = o.id /\ q.stack = o.stack /\ q.data = o.data /\ q.rest = o.rest
           /\ q.at = o.at /\ q.row = o.row /\ q.prev = o.prev
<1>1. q = [pc |-> x, id |-> o.id, stack |-> o.stack, data |-> o.data, rest |-> o.rest,
           at |-> o.at, row |-> o.row, prev |-> o.prev]
  BY DEF Working
<1>2. o.id \in RecordIDs
  BY DEF Working
<1>. QED
  BY <1>1, <1>2 DEF Working

\* A call tries another block (record_allocator.go:51, 62, 104).
LEMMA WorkingAt ==
    ASSUME NEW o, Working(o), NEW x, NEW q, q = [o EXCEPT !.at = x]
    PROVE  /\ Working(q) /\ q.pc = o.pc /\ q.id = o.id /\ q.stack = o.stack /\ q.data = o.data /\ q.rest = o.rest
           /\ q.at = x /\ q.row = o.row /\ q.prev = o.prev
<1>1. q = [pc |-> o.pc, id |-> o.id, stack |-> o.stack, data |-> o.data, rest |-> o.rest,
           at |-> x, row |-> o.row, prev |-> o.prev]
  BY DEF Working
<1>2. o.id \in RecordIDs
  BY DEF Working
<1>. QED
  BY <1>1, <1>2 DEF Working

\* Update begins behind the record's first chunk, or with it (record_allocator.go:227-237).
LEMMA UpdateStep ==
    ASSUME CoreInv, NEW id \in RecordIDs, NEW n \in Sizes, Update(id, n)
    PROVE  CoreInv'
<1> PICK rank : Core(rank)
  BY DEF CoreInv
<1> DEFINE c == Chunks(pages)
           r == rows[id]
           t == c[r].chain
           o == [pc |-> IF t.block # 0 THEN "descend" ELSE "rewrite", id |-> id,
                 stack |-> IF t.block # 0 THEN <<t>> ELSE <<>>,
                 data |-> Data(id, n), rest |-> Data(id, n), at |-> r.block, row |-> r, prev |-> NoRow]
<1>1. /\ op = Idle /\ content[id] # Absent
      /\ UNCHANGED <<pages, list>> /\ rows' = rows /\ content' = content
  BY DEF Update, Present
<1>2. ChainIs(c, id, rank, r)
  BY <1>1, IdleStored DEF RecordStored
<1>3. Stored(op, rows, content, c, rank) /\ Apart(c, rank)
  BY CoreIs
<1>4. r \in RowsOf(c, id) /\ r \in DOMAIN c /\ Linked(c, id, rank)
  <2>1. r \in RowsOf(c, id) /\ Linked(c, id, rank)
    BY <1>2 DEF ChainIs
  <2>. QED
    BY <2>1 DEF RowsOf
<1>5. op' = o
  <2>1. ChainedRowID(pages[r.block], r.local) = t
    BY <1>4, RowIsValid
  <2>. QED
    BY <2>1, Zenon DEF Update
<1>6. t.block = 0 <=> t = NoRow
  BY <1>4, ChainEnds
<1>7. /\ t = NoRow => RowsOf(c, id) = {r}
      /\ t # NoRow => /\ t \in RowsOf(c, id) /\ rank[r.block] < rank[t.block]
                      /\ \A u \in RowsOf(c, id) : u = r \/ u = t \/ rank[t.block] < rank[u.block]
  BY ZenonT(30), <1>2, <1>3, ChainHead
<1>8. /\ Working(o) /\ o.id = id /\ o.data = Data(id, n) /\ o.rest = Data(id, n)
      /\ o.at = r.block /\ o.row = r /\ o.prev = NoRow
      /\ o.pc = IF t.block # 0 THEN "descend" ELSE "rewrite"
      /\ o.stack = IF t.block # 0 THEN <<t>> ELSE <<>>
  BY DEF Working
<1> HIDE DEF o, c, r, t
<1>9. Writes(o)
  <2>1. id \in Nat \ {0} /\ n \in Nat /\ n # 0
    BY RecordsAssumption
  <2>2. Len(Data(id, n)) = n /\ IsBytes(Data(id, n)) /\ Data(id, n) # Absent
    BY <2>1, DataIs
  <2>. QED
    BY <2>1, <2>2, <1>8 DEF Writes
<1>10. Keeps(o, c) /\ o.data # Absent
  BY <1>4, <1>8, <1>9 DEF Keeps, Writes
<1>11. Rewriting(o, c) \/ Descending(o, c, rank)
  <2>1. CASE t = NoRow
    <3>1. o.pc = "rewrite"
      BY <2>1, <1>6, <1>8
    <3>2. RowsOf(c, o.id) = {o.row}
      BY <2>1, <1>7, <1>8
    <3>. QED
      BY <3>1, <3>2, <1>8, <1>10 DEF Rewriting
  <2>2. CASE t # NoRow
    <3>1. o.pc = "descend" /\ o.stack = <<t>> /\ t \in RowsOf(c, o.id)
      BY <2>2, <1>6, <1>7, <1>8
    <3>2. t \in RowIDs
      <4>1. t \in DOMAIN c
        BY <3>1 DEF RowsOf
      <4>. QED
        BY <4>1, ChunksValues DEF c
    <3>3. rank[o.row.block] < rank[t.block]
      BY <2>2, <1>7, <1>8
    <3>4. /\ Stacked(o, c, rank) /\ o.stack[Len(o.stack)] = t
          /\ \A u : Covered(o, u) <=> u = t \/ (o.data # Absent /\ u = o.row)
      BY <3>1, <3>2, <3>3, StackOfOne
    <3>5. \A u \in RowsOf(c, o.id) : Covered(o, u) \/ rank[t.block] < rank[u.block]
      BY <3>4, <2>2, <1>7, <1>8, <1>10
    <3>6. Linked(c, o.id, rank)
      BY <1>4, <1>8
    <3>. QED
      BY <3>1, <3>4, <3>5, <3>6, <1>8, <1>10 DEF Descending
  <2>. QED
    BY <2>1, <2>2
<1>12. op.pc = "idle" /\ o.pc # "idle"
  BY <1>1, <1>11 DEF Idle, Rewriting, Descending
<1>13. Stored(o, rows, content, c, rank)
  BY <1>3, <1>8, <1>12, NothingMoved, StoredStep
<1>14. OpIs(op', c, rank, ListBlocks, pages) /\ Stored(op', rows', content', c, rank)
  BY <1>1, <1>5, <1>11, <1>13 DEF OpIs
<1>15. rows' = [i \in RecordIDs |-> rows'[i]] /\ content' = [i \in RecordIDs |-> content'[i]]
  BY <1>1 DEF CoreInv
<1>. QED
  BY <1>1, <1>14, <1>15, CoreKept DEF c

\* The last chunk found is looked at: the next one behind it is found, or there is none
\* (record_allocator.go:151-164).
LEMMA DescendStep ==
    ASSUME CoreInv, Descend
    PROVE  CoreInv'
<1> PICK rank : Core(rank)
  BY DEF CoreInv
<1> DEFINE c == Chunks(pages)
           s == op.stack
           id == op.id
           r == s[Len(s)]
           t == c[r].chain
<1>1. Descending(op, c, rank) /\ Stored(op, rows, content, c, rank) /\ Apart(c, rank)
  <2>1. op.pc = "descend"
    BY DEF Descend
  <2>. QED
    BY <2>1, CoreIs, OpByPc
<1>2. /\ Working(op) /\ Keeps(op, c) /\ Linked(c, id, rank) /\ op.pc = "descend"
      /\ s \in Seq(RowIDs) /\ Len(s) \in Nat /\ Len(s) # 0
      /\ \A k \in 1 .. Len(s) : s[k] \in RowsOf(c, id)
      /\ \A k, l \in 1 .. Len(s) : k < l => rank[s[k].block] < rank[s[l].block]
      /\ op.data # Absent => \A k \in 1 .. Len(s) : rank[op.row.block] < rank[s[k].block]
      /\ \A u \in RowsOf(c, id) : Covered(op, u) \/ rank[r.block] < rank[u.block]
  BY <1>1 DEF Descending, Stacked
<1>3. Len(s) \in 1 .. Len(s)
  BY <1>2
<1>4. r \in RowsOf(c, id) /\ r \in DOMAIN c
  BY <1>2, <1>3 DEF RowsOf
<1>5. /\ ValidLocalID(pages[r.block], r.local) /\ ChainedRowID(pages[r.block], r.local) = t
      /\ t \in RowIDs
  BY <1>4, RowIsValid
<1>6. Lib!Last(s) = r
  BY DEF Lib!Last
<1>7. /\ UNCHANGED <<pages, list>> /\ rows' = rows /\ content' = content
      /\ op' = IF t.block # 0 THEN [op EXCEPT !.stack = Append(@, t)] ELSE [op EXCEPT !.pc = "remove"]
  BY <1>5, <1>6 DEF Descend, Continue
<1>8. t.block = 0 <=> t = NoRow
  BY <1>2, <1>4, ChainEnds
<1>9. \A u, v \in RowsOf(c, id) : /\ rank[u.block] \in Nat
                                  /\ rank[u.block] = rank[v.block] => u = v
  BY <1>1 DEF Apart, RowsOf
<1>10. ASSUME t = NoRow PROVE Removing(op', c, rank)
  <2>1. op' = [op EXCEPT !.pc = "remove"]
    BY <1>7, <1>8, <1>10
  <2>2. /\ Working(op') /\ op'.pc = "remove" /\ op'.id = id /\ op'.stack = s /\ op'.data = op.data
        /\ op'.rest = op.rest /\ op'.at = op.at /\ op'.row = op.row /\ op'.prev = op.prev
    <3>1. Working(op) /\ op.pc = "descend"
      BY <1>2
    <3> HIDE DEF c, r, t
    <3>. QED
      BY <2>1, <3>1, WorkingPc
  <2>3. \A u \in RowsOf(c, id) : rank[u.block] <= rank[r.block]
    BY <1>2, <1>4, <1>10 DEF Linked
  <2>4. \A u \in RowsOf(c, id) : Covered(op, u)
    BY <2>3, <1>2, <1>4, <1>9
  <2>5. Keeps(op', c) /\ Stacked(op', c, rank)
    BY <2>2, <1>2 DEF Keeps, Writes, Stacked
  <2>6. \A u : Covered(op', u) <=> Covered(op, u)
    BY <2>2, Zenon DEF Covered
  <2>. QED
    BY <2>2, <2>4, <2>5, <2>6 DEF Removing
<1>11. ASSUME t # NoRow PROVE Descending(op', c, rank)
  <2> DEFINE q == Append(s, t)
  <2>1. op' = [op EXCEPT !.stack = q]
    BY <1>7, <1>8, <1>11
  <2>2. /\ Working(op') /\ op'.pc = "descend" /\ op'.id = id /\ op'.stack = q /\ op'.data = op.data
        /\ op'.rest = op.rest /\ op'.at = op.at /\ op'.row = op.row /\ op'.prev = op.prev
    <3>1. Working(op) /\ op.pc = "descend"
      BY <1>2
    <3> HIDE DEF c, r, t, q
    <3>. QED
      BY <2>1, <3>1, WorkingStack
  <2>3. /\ t \in RowsOf(c, id) /\ rank[r.block] < rank[t.block]
        /\ \A u \in RowsOf(c, id) : rank[u.block] <= rank[r.block] \/ rank[t.block] <= rank[u.block]
    BY <1>2, <1>4, <1>11 DEF Linked
  <2>4. /\ q \in Seq(RowIDs) /\ Len(q) = Len(s) + 1 /\ q[Len(q)] = t
        /\ \A k \in 1 .. Len(s) : q[k] = s[k]
    BY <1>2, <1>5
  <2> HIDE DEF q, s, r, t, c, id
  <2>5. \A k \in 1 .. Len(q) : k = Len(q) \/ k \in 1 .. Len(s)
    BY <2>4, <1>2
  <2>6. \A k \in 1 .. Len(q) : q[k] \in RowsOf(c, id)
    BY <2>3, <2>4, <2>5, <1>2
  <2>7. \A k \in 1 .. Len(s) : rank[s[k].block] < rank[t.block]
    <3> SUFFICES ASSUME NEW k \in 1 .. Len(s) PROVE rank[s[k].block] < rank[t.block]
      OBVIOUS
    <3>1. rank[s[k].block] <= rank[r.block]
      <4>1. CASE k = Len(s)
        BY <4>1, <1>4, <1>9 DEF r
      <4>2. CASE k # Len(s)
        <5>1. k < Len(s)
          BY <4>2, <1>2
        <5>2. rank[s[k].block] < rank[r.block]
          BY <5>1, <1>2, <1>3 DEF r
        <5>. QED
          BY <5>2, <1>2, <1>4, <1>9
      <4>. QED
        BY <4>1, <4>2
    <3>. QED
      BY <3>1, <2>3, <1>2, <1>4, <1>9
  <2>8. \A k, l \in 1 .. Len(q) : k < l => rank[q[k].block] < rank[q[l].block]
    <3> SUFFICES ASSUME NEW k \in 1 .. Len(q), NEW l \in 1 .. Len(q), k < l
                 PROVE  rank[q[k].block] < rank[q[l].block]
      OBVIOUS
    <3>1. k \in 1 .. Len(s) /\ q[k] = s[k]
      BY <2>4, <1>2
    <3>2. CASE l = Len(q)
      BY <3>1, <3>2, <2>4, <2>7
    <3>3. CASE l # Len(q)
      BY <3>1, <3>3, <2>4, <2>5, <1>2
    <3>. QED
      BY <3>2, <3>3
  <2>9. op.data # Absent => \A k \in 1 .. Len(q) : rank[op.row.block] < rank[q[k].block]
    <3> SUFFICES ASSUME op.data # Absent, NEW k \in 1 .. Len(q) PROVE rank[op.row.block] < rank[q[k].block]
      OBVIOUS
    <3>1. CASE k = Len(q)
      <4>1. rank[op.row.block] < rank[r.block] /\ op.row \in RowsOf(c, id)
        BY <1>2, <1>3 DEF Keeps, r, id
      <4>. QED
        BY <3>1, <4>1, <2>3, <2>4, <1>4, <1>9
    <3>2. CASE k # Len(q)
      BY <3>2, <2>4, <2>5, <1>2
    <3>. QED
      BY <3>1, <3>2
  <2>10. Stacked(op', c, rank)
    <3>1. Len(q) # 0
      BY <2>4, <1>2
    <3>. QED
      BY <3>1, <2>2, <2>4, <2>6, <2>8, <2>9 DEF Stacked
  <2>11. Keeps(op', c)
    BY <2>2, <1>2 DEF Keeps, Writes, id
  <2>12. \A u \in RowsOf(c, id) : Covered(op', u) \/ rank[t.block] < rank[u.block]
    <3> SUFFICES ASSUME NEW u \in RowsOf(c, id) PROVE Covered(op', u) \/ rank[t.block] < rank[u.block]
      OBVIOUS
    <3>1. CASE Covered(op, u)
      <4>1. ASSUME NEW k \in 1 .. Len(s), s[k] = u PROVE Covered(op', u)
        <5>1. k \in 1 .. Len(q) /\ q[k] = u
          BY <4>1, <2>4, <1>2
        <5>. QED
          BY <5>1, <2>2, Zenon DEF Covered
      <4>. QED
        BY <3>1, <4>1, <2>2, Zenon DEF Covered, s
    <3>2. CASE u = t
      <4>1. Len(q) \in 1 .. Len(q)
        BY <2>4, <1>2
      <4>. QED
        BY <3>2, <4>1, <2>2, <2>4, Zenon DEF Covered
    <3>3. CASE ~Covered(op, u) /\ u # t
      BY <3>3, <2>3, <1>2, <1>4, <1>9
    <3>. QED
      BY <3>1, <3>2, <3>3
  <2>. QED
    BY <2>2, <2>4, <2>10, <2>11, <2>12, <1>2 DEF Descending
<1>12. OpIs(op', c, rank, ListBlocks, pages) /\ op'.pc # "idle" /\ op'.id = id
  <2>1. CASE t = NoRow
    <3>1. Removing(op', c, rank)
      BY <2>1, <1>10
    <3>2. op' = [op EXCEPT !.pc = "remove"]
      BY <1>7, <1>8, <2>1
    <3>3. op'.id = id
      BY <3>2, <1>2, WorkingPc
    <3>. QED
      BY <3>1, <3>3 DEF OpIs, Removing
  <2>2. CASE t # NoRow
    <3>1. Descending(op', c, rank)
      BY <2>2, <1>11
    <3>2. op' = [op EXCEPT !.stack = Append(s, t)]
      BY <1>7, <1>8, <2>2
    <3>3. op'.id = id
      BY <3>2, <1>2, WorkingStack
    <3>. QED
      BY <3>1, <3>3 DEF OpIs, Descending
  <2>. QED
    BY <2>1, <2>2
<1>13. Stored(op', rows', content', c, rank)
  BY <1>1, <1>7, <1>12, NothingMoved, StoredStep
<1>14. rows' = [i \in RecordIDs |-> rows'[i]] /\ content' = [i \in RecordIDs |-> content'[i]]
  BY <1>7 DEF CoreInv
<1>. QED
  BY <1>7, <1>12, <1>13, <1>14, CoreKept

\* The block to be tried is full and has a next block, which is tried then
\* (record_allocator.go:49-53, 95-104).
LEMMA MoveOnStep ==
    ASSUME CoreInv, MoveOn
    PROVE  CoreInv'
<1> PICK rank : Core(rank)
  BY DEF CoreInv
<1> DEFINE c == Chunks(pages)
           b == pages[op.at].next
<1>1. /\ op.pc = "place" /\ b # 0 /\ UNCHANGED <<pages, list>> /\ rows' = rows /\ content' = content
      /\ op' = [op EXCEPT !.at = b]
  BY DEF MoveOn, Continue
<1>2. /\ Placing(op, c, rank, ListBlocks, pages) /\ Stored(op, rows, content, c, rank)
      /\ ListIs(ListBlocks, pages, first, avail, rank)
  BY <1>1, CoreIs, OpByPc
<1>3. Working(op) /\ Writes(op) /\ op.at \in ListBlocks
  BY <1>2 DEF Placing
<1>4. /\ Working(op') /\ op'.pc = "place" /\ op'.id = op.id /\ op'.stack = op.stack /\ op'.data = op.data
      /\ op'.rest = op.rest /\ op'.at = b /\ op'.row = op.row /\ op'.prev = op.prev
  <2> HIDE DEF b
  <2>. QED
    BY <1>1, <1>3, WorkingAt
<1>5. b \in ListBlocks /\ rank[op.at] < rank[b] /\ rank[op.at] \in Nat /\ rank[b] \in Nat
  BY <1>1, <1>2, <1>3 DEF ListIs, ForwardLinks, Ranked
<1>6. Apart(c, rank)
  BY CoreIs
<1> HIDE DEF b, c
<1>7. Placing(op', c, rank, ListBlocks, pages)
  <2>1. CASE op.prev = NoRow
    BY <2>1, <1>2, <1>3, <1>4, <1>5 DEF Placing, Writes
  <2>2. CASE op.prev # NoRow
    <3>1. /\ ChainIs(c, op.id, rank, op.row)
          /\ op.prev \in RowsOf(c, op.id) /\ c[op.prev].chain = NoRow
          /\ op.at = op.prev.block \/ rank[op.prev.block] < rank[op.at]
      BY <2>2, <1>2 DEF Placing
    <3>2. rank[op.prev.block] \in Nat
      BY <3>1, <1>6 DEF Apart, RowsOf
    <3>3. rank[op.prev.block] < rank[b]
      BY <3>1, <3>2, <1>5
    <3>. QED
      BY <2>2, <3>1, <3>3, <1>3, <1>4, <1>5 DEF Placing, Writes
  <2>. QED
    BY <2>1, <2>2
<1>8. Stored(op', rows, content, c, rank)
  BY <1>2, <1>4, NothingMoved, StoredStep
<1>9. OpIs(op', c, rank, ListBlocks, pages) /\ Stored(op', rows', content', c, rank)
  BY <1>1, <1>7, <1>8 DEF OpIs
<1>10. rows' = [i \in RecordIDs |-> rows'[i]] /\ content' = [i \in RecordIDs |-> content'[i]]
  BY <1>1 DEF CoreInv
<1>. QED
  BY <1>1, <1>9, <1>10, CoreKept DEF c

-----------------------------------------------------------------------------
(* The map and the index                                                   *)

MapProofs == INSTANCE DataBlocksMapProofs

\* The map is in order, and the index holds none but its blocks.
MapInv == MapProofs!Inv /\ index \subseteq held /\ index \subseteq Blocks

\* A block that the map offers is nobody's, unless it is the control block
\* (data_blocks_map.go:24-43).
LEMMA FreshBlock ==
    ASSUME MapInv, NEW b \in Blocks, Map!FirstFree(b)
    PROVE  b \notin held /\ b \in Map!Ids /\ b \notin 0 .. 2
<1>1. b # 0 /\ b \in Nat /\ b >= 3
  BY AllocatorAssumption DEF Blocks
<1>2. b \in Map!Ids /\ ~Map!IsInUse(b)
  BY <1>1 DEF Map!FirstFree
<1>3. \A h \in held : Map!IsInUse(h)
  BY DEF MapInv, MapProofs!Inv, MapProofs!HeldIsInUse, MapProofs!IsInUse, Map!IsInUse, MapProofs!BitOf, Map!BitOf
<1>. QED
  BY <1>1, <1>2, <1>3

\* The steps in terms of the map's specification.
MapTakes(b) == Map!FirstFree(b) /\ bits' = bits \cup {Map!BitOf(b)} /\ held' = held \cup {b}

MapFrees(b) == b \in held /\ bits' = bits \ {Map!BitOf(b)} /\ held' = held \ {b}

\* Taking a block and giving one back are steps of the map (data_blocks_map.go:45-59).
LEMMA MapSteps ==
    ASSUME MapInv, NEW b \in Blocks, MapTakes(b) \/ MapFrees(b)
    PROVE  MapProofs!Next /\ MapProofs!Inv'
<1>1. b \in MapProofs!Ids /\ b \notin 0 .. 2
  BY AllocatorAssumption DEF Blocks, MapProofs!Ids
<1>2. MapProofs!Next
  <2>1. CASE MapTakes(b)
    BY <2>1, <1>1 DEF MapTakes, MapProofs!Next, MapProofs!Allocate, Map!FirstFree, MapProofs!FirstFree,
       Map!AllInUse, MapProofs!AllInUse, Map!IsInUse, MapProofs!IsInUse, Map!BitOf, MapProofs!BitOf,
       Map!Ids, MapProofs!Ids
  <2>2. CASE MapFrees(b)
    BY <2>2, <1>1 DEF MapFrees, MapProofs!Next, MapProofs!Free, Map!BitOf, MapProofs!BitOf
  <2>. QED
    BY <2>1, <2>2
<1>3. MapProofs!Inv'
  BY <1>2, MapProofs!InvStep, AllocatorAssumption DEF MapInv
<1>. QED
  BY <1>2, <1>3

\* The index takes and gives blocks that are not on the list.
LEMMA ListLeft ==
    ASSUME CoreInv, UNCHANGED <<pages, first, avail, rows, content, op>>, ListBlocks' = ListBlocks
    PROVE  CoreInv'
<1> PICK rank : Core(rank)
  BY DEF CoreInv
<1>1. Core(rank)'
  BY DEF Core
<1>. QED
  BY <1>1 DEF CoreInv

\* A node of the index is created (uint32_index_node_adapter.go:123-136).
LEMMA IndexTakesStep ==
    ASSUME CoreInv, MapInv, NEW b \in Blocks, IndexTakes(b)
    PROVE  CoreInv' /\ MapInv'
<1>1. /\ MapTakes(b) /\ held' = held \cup {b} /\ index' = index \cup {b}
      /\ UNCHANGED <<pages, first, avail, rows, content, op>>
  BY DEF IndexTakes, MapTakes
<1>2. b \notin held
  BY <1>1, FreshBlock DEF MapTakes
<1>3. ListBlocks' = ListBlocks
  BY <1>1, <1>2 DEF ListBlocks, MapInv
<1>4. CoreInv'
  BY <1>1, <1>3, ListLeft
<1>5. MapProofs!Inv'
  BY <1>1, MapSteps
<1>. QED
  BY <1>1, <1>4, <1>5 DEF MapInv

\* A node of the index is removed (uint32_index_node_adapter.go:108-113).
LEMMA IndexFreesStep ==
    ASSUME CoreInv, MapInv, NEW b \in Blocks, IndexFrees(b)
    PROVE  CoreInv' /\ MapInv'
<1>1. /\ b \in index /\ held' = held \ {b} /\ index' = index \ {b}
      /\ bits' = bits \ {Map!BitOf(b)}
      /\ UNCHANGED <<pages, first, avail, rows, content, op>>
  BY DEF IndexFrees
<1>2. MapFrees(b)
  BY <1>1 DEF MapFrees, MapInv
<1>3. ListBlocks' = ListBlocks
  BY <1>1 DEF ListBlocks, MapInv
<1>4. CoreInv'
  BY <1>1, <1>3, ListLeft
<1>5. MapProofs!Inv'
  BY <1>2, MapSteps
<1>. QED
  BY <1>1, <1>4, <1>5 DEF MapInv

\* An insert returns (actions/insert.go:24).
LEMMA IndexInsertStep ==
    ASSUME CoreInv, IndexInsert
    PROVE  CoreInv'
<1> PICK rank : Core(rank)
  BY DEF CoreInv
<1> DEFINE c == Chunks(pages)
<1>1. /\ op.pc = "index" /\ UNCHANGED <<pages, list>> /\ op' = Idle
      /\ rows' = [rows EXCEPT ![op.id] = op.row] /\ content' = [content EXCEPT ![op.id] = op.data]
  BY DEF IndexInsert, Return
<1>2. Indexing(op, c, rank) /\ Stored(op, rows, content, c, rank)
  BY <1>1, CoreIs, OpByPc
<1>3. op.id \in RecordIDs /\ op.data # Absent /\ ChainIs(c, op.id, rank, op.row)
  BY <1>2 DEF Indexing
<1>4. rows = [i \in RecordIDs |-> rows[i]] /\ content = [i \in RecordIDs |-> content[i]]
  BY DEF CoreInv
<1> HIDE DEF c
<1>5. /\ rows' = [i \in RecordIDs |-> rows'[i]] /\ content' = [i \in RecordIDs |-> content'[i]]
      /\ \A q : Stored(q, rows', content', c, rank)
  <2>1. Others(op.id, c, c, rank, rank)
    BY NothingMoved
  <2>. QED
    BY <1>1, <1>2, <1>3, <1>4, <2>1, StoredReturn
<1>6. OpIs(op', c, rank, ListBlocks, pages)
  BY <1>1 DEF OpIs
<1>. QED
  BY <1>1, <1>5, <1>6, CoreKept DEF c

\* A delete returns (actions/delete.go:19).
LEMMA IndexDeleteStep ==
    ASSUME CoreInv, IndexDelete
    PROVE  CoreInv'
<1> PICK rank : Core(rank)
  BY DEF CoreInv
<1> DEFINE c == Chunks(pages)
<1>1. /\ op.pc = "unindex" /\ UNCHANGED <<pages, list>> /\ op' = Idle
      /\ rows' = [rows EXCEPT ![op.id] = NoRow] /\ content' = [content EXCEPT ![op.id] = Absent]
  BY DEF IndexDelete, Return
<1>2. Unindexing(op, c) /\ Stored(op, rows, content, c, rank)
  BY <1>1, CoreIs, OpByPc
<1>3. op.id \in RecordIDs /\ RowsOf(c, op.id) = {}
  BY <1>2 DEF Unindexing
<1>4. rows = [i \in RecordIDs |-> rows[i]] /\ content = [i \in RecordIDs |-> content[i]]
  BY DEF CoreInv
<1> HIDE DEF c
<1>5. /\ rows' = [i \in RecordIDs |-> rows'[i]] /\ content' = [i \in RecordIDs |-> content'[i]]
      /\ \A q : Stored(q, rows', content', c, rank)
  <2>1. Others(op.id, c, c, rank, rank)
    BY NothingMoved
  <2>. QED
    BY <1>1, <1>2, <1>3, <1>4, <2>1, StoredReturn
<1>6. OpIs(op', c, rank, ListBlocks, pages)
  BY <1>1 DEF OpIs
<1>. QED
  BY <1>1, <1>5, <1>6, CoreKept DEF c

-----------------------------------------------------------------------------
(* The steps that change the list                                          *)

AllRelinked(qs, ps) ==
    /\ qs = [c \in Blocks |-> qs[c]]
    /\ \A c \in Blocks : Relinked(qs[c], ps[c])

\* Blocks that differ in their links have the same chunks.
LEMMA PagesRelinked ==
    ASSUME NEW ps, PagesOK(ps), NEW qs, AllRelinked(qs, ps)
    PROVE  /\ PagesOK(qs) /\ Chunks(qs) = Chunks(ps)
           /\ \A c \in Blocks : qs[c].headers = ps[c].headers
<1>1. ASSUME NEW c \in Blocks
      PROVE  PageOK(qs[c]) /\ Entries(qs[c]) = Entries(ps[c]) /\ qs[c].headers = ps[c].headers
  <2>1. PageOK(ps[c]) /\ Relinked(qs[c], ps[c])
    BY DEF PagesOK, AllRelinked
  <2>. QED
    BY <2>1, RelinkOnPage DEF Relinked
<1>2. Chunks(qs) = Chunks(ps)
  BY <1>1, ChunksSame
<1>3. PagesOK(qs)
  BY <1>1, Zenon DEF PagesOK, AllRelinked
<1>. QED
  BY <1>1, <1>2, <1>3

\* A page is itself with its links.
LEMMA RelinkedSelf ==
    ASSUME NEW p, IsPage(p)
    PROVE  Relinked(p, p)
BY DEF IsPage, Relinked

\* A block is linked behind another.
LEMMA PagesExtended ==
    ASSUME NEW ps, PagesOK(ps), NEW a \in Blocks, NEW b \in Blocks, a # b,
           NEW qs, qs = [ps EXCEPT ![b].prev = a, ![a].next = b]
    PROVE  qs = [c \in Blocks |-> qs[c]] /\ Appended(qs, ps, a, b)
<1> DEFINE pa == [ps[a] EXCEPT !.next = b]
           pb == [ps[b] EXCEPT !.prev = a]
<1>1. DOMAIN ps = Blocks
  BY DEF PagesOK
<1>2. qs = [c \in Blocks |-> IF c = a THEN pa ELSE IF c = b THEN pb ELSE ps[c]]
  BY <1>1
<1>3. qs[a] = pa /\ qs[b] = pb /\ \A c \in Blocks : c # a /\ c # b => qs[c] = ps[c]
  BY <1>2
<1>4. \A c \in Blocks : IsPage(ps[c])
  BY DEF PagesOK, PageOK, Packed
<1>5. Relinked(pa, ps[a]) /\ pa.next = b /\ pa.prev = ps[a].prev
  BY ZenonT(30), <1>4, LinksReplaced
<1>6. Relinked(pb, ps[b]) /\ pb.prev = a /\ pb.next = ps[b].next
  BY <1>4, LinksReplaced
<1> HIDE DEF pa, pb
<1>7. \A c \in Blocks : c # a /\ c # b => Relinked(qs[c], ps[c])
  BY <1>3, <1>4, RelinkedSelf
<1>8. qs = [c \in Blocks |-> qs[c]]
  BY <1>2, Zenon
<1>. QED
  BY <1>3, <1>5, <1>6, <1>7, <1>8 DEF Appended

\* The last block is full: a new one is appended (record_allocator.go:131-149).
LEMMA ExtendStep ==
    ASSUME CoreInv, MapInv, Extend, ~Defect
    PROVE  CoreInv' /\ MapInv'
<1> PICK rank : Core(rank)
  BY DEF CoreInv
<1> PICK b \in Blocks :
        /\ Map!FirstFree(b) /\ bits' = bits \cup {Map!BitOf(b)} /\ held' = held \cup {b}
        /\ pages' = [pages EXCEPT ![b].prev = op.at, ![op.at].next = b]
        /\ avail' = b /\ op' = [op EXCEPT !.at = b] /\ rows' = rows /\ content' = content
  BY DEF Extend, ChangePages, Continue
<1> DEFINE c == Chunks(pages)
           a == op.at
           L == ListBlocks
<1>1. /\ op.pc = "place" /\ FreeSpaceForInsert(pages[a]) = 0 /\ pages[a].next = 0
      /\ first' = first /\ index' = index /\ pages[b].next = 0
  BY DEF Extend, Defect, Reuse, AtTheEnd
<1>2. /\ Placing(op, c, rank, L, pages) /\ Stored(op, rows, content, c, rank)
      /\ ListIs(L, pages, first, avail, rank) /\ PagesOK(pages) /\ Apart(c, rank)
  BY <1>1, CoreIs, OpByPc
<1>3. Working(op) /\ Writes(op) /\ a \in L
  BY <1>2 DEF Placing
<1>4. a = avail /\ a \in Blocks /\ L \subseteq Blocks
  <2>1. L \subseteq Blocks
    BY <1>2 DEF ListIs
  <2>2. a # avail => pages[a].next \in Blocks
    BY <2>1, <1>2, <1>3 DEF ListIs, ForwardLinks
  <2>. QED
    BY <2>1, <2>2, <1>1, <1>3, BlocksAre
<1>5. b \notin held /\ b \notin 0 .. 2 /\ b # a /\ b \notin L
  <2>1. b \notin held /\ b \notin 0 .. 2
    BY FreshBlock
  <2>2. b \notin L
    BY <2>1 DEF ListBlocks
  <2>. QED
    BY <2>1, <2>2, <1>3
<1>6. ListBlocks' = L \cup {b}
  BY <1>1, <1>5 DEF ListBlocks, MapInv
<1>7. MapInv'
  <2>1. MapTakes(b)
    BY DEF MapTakes
  <2>2. MapProofs!Inv'
    BY <2>1, MapSteps
  <2>. QED
    BY <2>2, <1>1 DEF MapInv
<1> PICK place : place = [rank EXCEPT ![b] = rank[avail] + 1]
  OBVIOUS
<1> PICK qs : qs = pages'
  OBVIOUS
<1>8. qs = [d \in Blocks |-> qs[d]] /\ Appended(qs, pages, a, b)
  <2>1. qs = [pages EXCEPT ![b].prev = a, ![a].next = b]
    OBVIOUS
  <2> HIDE DEF a, c, L
  <2>2. PagesOK(pages) /\ a \in Blocks /\ a # b
    BY <1>2, <1>4, <1>5
  <2>. QED
    BY <2>1, <2>2, PagesExtended
<1>9. PagesOK(qs) /\ Chunks(qs) = c /\ \A d \in Blocks : qs[d].headers = pages[d].headers
  <2>1. AllRelinked(qs, pages)
    BY <1>8, Zenon DEF Appended, AllRelinked
  <2>2. PagesOK(pages)
    BY <1>2
  <2>3. PagesOK(qs)
    BY <2>1, <2>2, PagesRelinked
  <2>4. Chunks(qs) = Chunks(pages)
    BY <2>1, <2>2, PagesRelinked
  <2>5. \A d \in Blocks : qs[d].headers = pages[d].headers
    BY <2>1, Zenon DEF AllRelinked, Relinked
  <2>. QED
    BY <2>3, <2>4, <2>5
<1>10. ListIs(L \cup {b}, qs, first, b, place)
  <2>1. Live(pages[avail]) # {}
    <3>1. PageOK(pages[a])
      BY <1>2, <1>4 DEF PagesOK
    <3>. QED
      BY <3>1, <1>1, <1>4, FullIsLive
  <2> HIDE DEF L, a, c
  <2>2. place = [rank EXCEPT ![b] = rank[avail] + 1]
    OBVIOUS
  <2>3. Appended(qs, pages, avail, b)
    BY <1>4, <1>8
  <2>. QED
    BY ZenonT(30), <2>1, <2>2, <2>3, <1>1, <1>2, <1>5, ListGrows
<1>11. /\ \A d \in L : place[d] = rank[d] /\ rank[d] \in Nat /\ rank[d] <= rank[avail]
       /\ place[b] = rank[avail] + 1
  <2>1. rank \in [Blocks -> Nat] /\ \A d \in L : rank[d] <= rank[avail]
    BY <1>2 DEF ListIs, Ranked
  <2>. QED
    BY <2>1, <1>4, <1>5
<1>12. \A r \in DOMAIN c : r.block \in L
  BY <1>2, ChunksAre
<1> HIDE DEF L, a, c
<1>13. Others(op.id, c, c, place, rank)
  BY <1>11, <1>12 DEF Others, SameOf, SamePlaces, RowsOf
<1>14. /\ Working(op') /\ op'.pc = "place" /\ op'.id = op.id /\ op'.stack = op.stack /\ op'.data = op.data
       /\ op'.rest = op.rest /\ op'.at = b /\ op'.row = op.row /\ op'.prev = op.prev
  <2>1. op' = [op EXCEPT !.at = b]
    OBVIOUS
  <2>. QED
    BY <2>1, <1>1, <1>3, WorkingAt
<1>15. Stored(op', rows', content', c, place)
  <2>1. Stored(op', rows, content, c, place)
    BY <1>2, <1>13, <1>14, StoredStep
  <2>. QED
    BY <2>1
<1>16. Placing(op', c, place, L \cup {b}, qs)
  <2>1. CASE op.prev = NoRow
    BY <2>1, <1>2, <1>3, <1>14 DEF Placing, Writes
  <2>2. CASE op.prev # NoRow
    <3>1. /\ ChainIs(c, op.id, rank, op.row)
          /\ op.prev \in RowsOf(c, op.id) /\ c[op.prev].chain = NoRow
      BY <2>2, <1>2 DEF Placing
    <3>2. ChainIs(c, op.id, place, op.row)
      <4>1. SameOf(c, c, op.id) /\ SamePlaces(c, op.id, place, rank)
        BY <1>11, <1>12 DEF SameOf, SamePlaces, RowsOf
      <4>. QED
        BY <3>1, <4>1, ChainSame
    <3>3. op.prev.block \in L
      BY <3>1, <1>12 DEF RowsOf
    <3>4. place[op.prev.block] < place[b]
      <4>1. rank[avail] \in Nat
        BY <1>3, <1>4, <1>11
      <4>. QED
        BY <4>1, <3>3, <1>11
    <3>. QED
      BY <2>2, <3>1, <3>2, <3>4, <1>3, <1>14 DEF Placing, Writes
  <2>. QED
    BY <2>1, <2>2
<1>17. Core(place)'
  <2>1. ListIs(ListBlocks', pages', first', avail', place)
    BY <1>1, <1>6, <1>10
  <2>2. OpIs(op', Chunks(pages'), place, ListBlocks', pages')
    BY <1>6, <1>9, <1>16 DEF OpIs
  <2>3. Stored(op', rows', content', Chunks(pages'), place)
    BY <1>9, <1>15
  <2>. QED
    BY <2>1, <2>2, <2>3 DEF Core
<1>18. CoreInv'
  BY <1>9, <1>17 DEF CoreInv
<1>. QED
  BY <1>7, <1>18

\* The map, the index and the ends of the list stay as they are.
LEMMA ListKept ==
    ASSUME MapInv, UNCHANGED list
    PROVE  MapInv' /\ ListBlocks' = ListBlocks /\ first' = first /\ avail' = avail
<1>1. first' = first /\ avail' = avail /\ bits' = bits /\ held' = held /\ index' = index
  BY DEF list, map
<1>. QED
  BY <1>1 DEF ListBlocks, MapInv, MapProofs!Inv, MapProofs!TypeOK, MapProofs!HeldIsInUse, MapProofs!NothingLeaks,
     MapProofs!PartnersStayFree, MapProofs!IsInUse

\* q is p with these links.
LinkedTo(q, p, x, y) == Relinked(q, p) /\ q.next = x /\ q.prev = y

\* Both links of a page are written, or either.
LEMMA LinksWritten ==
    ASSUME NEW p, IsPage(p), NEW x, NEW y, NEW q, q = [p EXCEPT !.next = x, !.prev = y]
    PROVE  LinkedTo(q, p, x, y)
<1>1. q = [bytes |-> p.bytes, headers |-> p.headers, used |-> p.used, next |-> x, prev |-> y]
  BY DEF IsPage
<1>. QED
  BY <1>1 DEF Relinked, LinkedTo

\* The blocks when b is cleared to e and those it is between, P and N, are linked.
CutOut(ps, b, e, P, N) ==
    [c \in Blocks |->
        LET p == IF c = b THEN e ELSE ps[c] IN
        [p EXCEPT !.next = IF c = P THEN N ELSE @, !.prev = IF c = N THEN P ELSE @]]

\* A block is cleared and taken out of the list (record_allocator.go:181-225).
LEMMA PagesUnlinked ==
    ASSUME NEW ps, PagesOK(ps), NEW b \in Blocks, NEW e, PageOK(e), e.headers = <<>>,
           NEW P, P = ps[b].prev, NEW N, N = ps[b].next, NEW qs, qs = CutOut(ps, b, e, P, N)
    PROVE  /\ PagesOK(qs) /\ Unlinked(qs, ps, b)
           /\ SameElsewhere(qs, ps, b)
<1> DEFINE old(c) == IF c = b THEN e ELSE ps[c]
<1>1. ASSUME NEW c \in Blocks
      PROVE  /\ PageOK(old(c)) /\ Relinked(qs[c], old(c))
             /\ qs[c].next = IF c = P THEN N ELSE old(c).next
             /\ qs[c].prev = IF c = N THEN P ELSE old(c).prev
  <2> DEFINE p == old(c)
             x == IF c = P THEN N ELSE p.next
             y == IF c = N THEN P ELSE p.prev
  <2>1. PageOK(p)
    BY DEF PagesOK
  <2>2. qs[c] = [p EXCEPT !.next = x, !.prev = y]
    BY DEF CutOut
  <2>3. IsPage(p)
    BY <2>1 DEF PageOK, Packed
  <2> HIDE DEF x, y, p
  <2>4. Relinked(qs[c], p) /\ qs[c].next = x /\ qs[c].prev = y
    <3> PICK q : q = qs[c]
      OBVIOUS
    <3>1. q = [p EXCEPT !.next = x, !.prev = y]
      BY <2>2
    <3>2. LinkedTo(q, p, x, y)
      BY <3>1, <2>3, LinksWritten
    <3>. QED
      BY <3>2 DEF LinkedTo
  <2>. QED
    BY <2>1, <2>4, Zenon DEF x, y, p
<1> HIDE DEF old
<1>2. ASSUME NEW c \in Blocks
      PROVE  PageOK(qs[c]) /\ Entries(qs[c]) = Entries(old(c)) /\ qs[c].headers = old(c).headers
  <2>1. PageOK(old(c)) /\ Relinked(qs[c], old(c))
    BY <1>1
  <2>2. PageOK(qs[c])
    BY <2>1, RelinkOnPage, Zenon
  <2>3. Entries(qs[c]) = Entries(old(c))
    BY <2>1, RelinkOnPage, Zenon
  <2>. QED
    BY <2>1, <2>2, <2>3 DEF Relinked
<1>3. \A c \in Blocks : c # b => old(c) = ps[c]
  BY DEF old
<1>4. old(b) = e
  BY DEF old
<1>5. PagesOK(qs)
  <2>1. qs = [c \in Blocks |-> qs[c]]
    BY Zenon DEF CutOut
  <2>. QED
    BY <2>1, <1>2, Zenon DEF PagesOK
<1>6. Unlinked(qs, ps, b)
  <2>1. ASSUME NEW c \in Blocks \ {b}
        PROVE  /\ qs[c].next = IF c = ps[b].prev THEN ps[b].next ELSE ps[c].next
               /\ qs[c].prev = IF c = ps[b].next THEN ps[b].prev ELSE ps[c].prev
               /\ qs[c].headers = ps[c].headers
    <3>1. c \in Blocks /\ old(c) = ps[c]
      BY <1>3
    <3>2. /\ qs[c].next = IF c = P THEN N ELSE old(c).next
          /\ qs[c].prev = IF c = N THEN P ELSE old(c).prev
      BY <3>1, <1>1
    <3>3. qs[c].headers = old(c).headers
      BY <3>1, <1>2
    <3>. QED
      BY <3>1, <3>2, <3>3, Zenon
  <2>2. qs[b].headers = <<>>
    BY <1>2, <1>4
  <2>. QED
    BY <2>1, <2>2, Zenon DEF Unlinked
<1>7. SameElsewhere(qs, ps, b)
  BY <1>2, <1>3 DEF SameElsewhere
<1>. QED
  BY <1>5, <1>6, <1>7

\* A block with no header in use has no chunks.
LEMMA EmptyEntries ==
    ASSUME NEW q, q.headers = <<>>, NEW p, NEW h, Live(p) = {h}
    PROVE  Entries(q) = Without(Entries(p), h)
<1>1. Live(q) = {}
  <2>1. DOMAIN q.headers = {}
    OBVIOUS
  <2>. QED
    BY <2>1, Zenon DEF Live
<1>2. DOMAIN Entries(p) \ {h} = {}
  BY Zenon DEF Entries
<1>3. Entries(q) = [m \in {} |-> Entry(q, m)]
  BY <1>1, Zenon DEF Entries
<1>4. Without(Entries(p), h) = [m \in {} |-> Entries(p)[m]]
  BY <1>2, Zenon DEF Without
<1>5. [m \in {} |-> Entry(q, m)] = [m \in {} |-> Entries(p)[m]]
  BY Zenon
<1>. QED
  BY <1>3, <1>4, <1>5, Zenon

\* The chunk r is removed from its block, and the block from the list if that was its last
\* chunk (record_allocator.go:171-179).
LEMMA ChunkRemoved ==
    ASSUME CoreInv, MapInv, NEW rank, Core(rank), NEW r \in DOMAIN Chunks(pages),
           NEW page, page = Remove(pages[r.block], r.local),
           IF TotalRecords(page) = 0 /\ page.next # 0
             THEN RemoveFromList(r.block, page)
             ELSE ChangePages([pages EXCEPT ![r.block] = Forget(page)], {}) /\ UNCHANGED list
    PROVE  /\ PagesOK(pages') /\ Chunks(pages') = Without(Chunks(pages), r)
           /\ ListIs(ListBlocks', pages', first', avail', rank)
           /\ MapInv'
<1> PICK b : b = r.block
  OBVIOUS
<1> PICK l : l = r.local
  OBVIOUS
<1> PICK p : p = pages[b]
  OBVIOUS
<1> PICK qs : qs = pages'
  OBVIOUS
<1>1. /\ b \in ListBlocks /\ b \in Blocks /\ l \in Nat /\ l + 1 \in Live(p)
      /\ r = [block |-> b, local |-> l]
  BY RowIsValid
<1>2. PagesOK(pages) /\ ListIs(ListBlocks, pages, first, avail, rank)
  BY CoreIs
<1>3. PageOK(p) /\ page = Remove(p, l) /\ b \in Nat
  BY <1>1, <1>2, BlocksAre DEF PagesOK
<1>4. /\ Became(Forget(page), p, Without(Entries(p), l + 1))
      /\ IsPage(page) /\ page.next = p.next /\ page.prev = p.prev
      /\ TotalRecords(page) = 0 <=> Live(p) = {l + 1}
  BY <1>1, <1>3, RemoveOnPage
<1>5. ListBlocks \subseteq Blocks
  BY <1>2 DEF ListIs
<1>6. CASE TotalRecords(page) = 0 /\ page.next # 0
  <2>1. /\ first' = IF p.prev = 0 THEN p.next ELSE first
        /\ bits' = bits \ {Map!BitOf(b)} /\ held' = held \ {b} /\ avail' = avail /\ index' = index
    BY <1>4, <1>6 DEF RemoveFromList
  <2> PICK e : e = Forget(Clear(page))
    OBVIOUS
  <2>2. PageOK(e) /\ e.headers = <<>>
    BY <1>4, ClearOnPage
  <2>3. qs = CutOut(pages, b, e, p.prev, p.next)
    <3>1. RemoveFromList(b, page)
      BY <1>6
    <3>2. qs = CutOut(pages, b, e, page.prev, page.next)
      BY <3>1 DEF RemoveFromList, CutOut
    <3>. QED
      BY <3>2, <1>4
  <2>4. /\ PagesOK(qs) /\ Unlinked(qs, pages, b)
        /\ SameElsewhere(qs, pages, b)
    <3>1. PagesOK(pages) /\ b \in Blocks /\ PageOK(e) /\ e.headers = <<>>
      BY <1>1, <1>2, <2>2
    <3>2. p.prev = pages[b].prev /\ p.next = pages[b].next
      OBVIOUS
    <3>3. PagesOK(qs)
      BY <2>3, <3>1, <3>2, PagesUnlinked, Zenon
    <3>4. Unlinked(qs, pages, b)
      BY <2>3, <3>1, <3>2, PagesUnlinked, Zenon
    <3>5. SameElsewhere(qs, pages, b)
      BY <2>3, <3>1, <3>2, PagesUnlinked, Zenon
    <3>. QED
      BY <3>3, <3>4, <3>5
  <2>5. Chunks(qs) = Without(Chunks(pages), r)
    <3>1. Entries(qs[b]) = Without(Entries(pages[b]), l + 1)
      <4>1. qs[b].headers = <<>> /\ Live(p) = {l + 1}
        BY <1>4, <1>6, <2>4 DEF Unlinked
      <4>. QED
        BY <4>1, EmptyEntries
    <3>2. SameElsewhere(qs, pages, b)
      BY <2>4
    <3>. QED
      BY <3>1, <3>2, <1>1, <1>3, ChunksWithout
  <2>6. b # avail
    BY <1>2, <1>4, <1>6 DEF ListIs, ForwardLinks
  <2>7. ListIs(ListBlocks \ {b}, qs, first', avail, rank)
    <3>1. ListIs(ListBlocks, pages, first, avail, rank) /\ b \in ListBlocks /\ Unlinked(qs, pages, b)
      BY <1>1, <1>2, <2>4
    <3> PICK f : f = first'
      OBVIOUS
    <3>2. f = IF pages[b].prev = 0 THEN pages[b].next ELSE first
      BY <2>1
    <3>3. ListIs(ListBlocks \ {b}, qs, f, avail, rank)
      BY <3>1, <3>2, <2>6, ListShrinks
    <3>. QED
      BY <3>3
  <2>8. ListBlocks' = ListBlocks \ {b}
    BY <2>1 DEF ListBlocks
  <2>9. MapInv'
    <3>1. MapFrees(b)
      BY <1>1, <2>1 DEF MapFrees, ListBlocks
    <3>2. MapProofs!Inv'
      BY <3>1, <1>1, MapSteps
    <3>. QED
      BY <3>2, <2>1, <1>1 DEF MapInv, ListBlocks
  <2>. QED
    BY <2>1, <2>4, <2>5, <2>7, <2>8, <2>9
<1>7. CASE ~(TotalRecords(page) = 0 /\ page.next # 0)
  <2> PICK q : q = Forget(page)
    OBVIOUS
  <2>1. qs = [pages EXCEPT ![b] = q] /\ UNCHANGED list
    BY <1>7 DEF ChangePages
  <2>2. MapInv' /\ ListBlocks' = ListBlocks /\ first' = first /\ avail' = avail
    BY <2>1, ListKept
  <2>3. PageOK(q) /\ q.next = p.next /\ q.prev = p.prev /\ Entries(q) = Without(Entries(p), l + 1)
    BY <1>4 DEF Became
  <2>4. PagesOK(qs) /\ qs[b] = q /\ \A c \in Blocks : c # b => qs[c] = pages[c]
    <3>1. PagesOK(pages) /\ b \in Blocks /\ PageOK(q)
      BY <1>1, <1>2, <2>3
    <3>2. qs = [pages EXCEPT ![b] = q]
      BY <2>1
    <3>3. Replaced(qs, pages, b, q)
      BY <3>1, <3>2, PagesReplaced
    <3>. QED
      BY <3>3 DEF Replaced
  <2>5. Chunks(qs) = Without(Chunks(pages), r)
    <3>1. Entries(qs[b]) = Without(Entries(pages[b]), l + 1)
      BY <2>3, <2>4
    <3>2. SameElsewhere(qs, pages, b)
      BY <2>4 DEF SameElsewhere
    <3>. QED
      BY <3>1, <3>2, <1>1, <1>3, ChunksWithout
  <2>6. b # avail => Live(q) # {}
    <3> SUFFICES ASSUME b # avail PROVE Live(q) # {}
      OBVIOUS
    <3>1. p.next \in Blocks
      BY <1>1, <1>2, <1>5 DEF ListIs, ForwardLinks
    <3>2. Live(p) # {l + 1}
      BY <3>1, <1>4, <1>7, BlocksAre
    <3>3. Live(q) = Live(p) \ {l + 1}
      <4>1. DOMAIN Entries(q) = Live(q) /\ DOMAIN Entries(p) = Live(p)
        BY Zenon DEF Entries
      <4>2. DOMAIN Without(Entries(p), l + 1) = DOMAIN Entries(p) \ {l + 1}
        BY Zenon DEF Without
      <4>. QED
        BY <4>1, <4>2, <2>3
    <3>. QED
      BY <3>2, <3>3, <1>1
  <2>7. ListIs(ListBlocks, qs, first, avail, rank)
    <3>1. \A c \in Blocks : qs[c].next = pages[c].next /\ qs[c].prev = pages[c].prev
      BY <2>3, <2>4
    <3>2. \A c \in ListBlocks : c # avail /\ Live(pages[c]) # {} => Live(qs[c]) # {}
      BY <1>5, <2>4, <2>6
    <3>3. \A c \in Blocks \ ListBlocks : qs[c].headers = pages[c].headers
      BY <2>4, <1>1
    <3>. QED
      BY <3>1, <3>2, <3>3, <1>2, ListSame
  <2>. QED
    BY <2>2, <2>4, <2>5, <2>7
<1>. QED
  BY <1>6, <1>7

\* Without one of them, the other chunks of the record are as they were, and so are those
\* of the other records.
LEMMA ChunkGone ==
    ASSUME NEW c, NEW rank, NEW id, NEW r \in RowsOf(c, id), NEW d, d = Without(c, r)
    PROVE  /\ \A u : u \in RowsOf(d, id) <=> u \in RowsOf(c, id) /\ u # r
           /\ Others(id, d, c, rank, rank)
<1>1. r \in DOMAIN c /\ c[r].id = id
  BY DEF RowsOf
<1>2. DOMAIN d = DOMAIN c \ {r} /\ \A u \in DOMAIN c : u # r => d[u] = c[u]
  BY Zenon DEF Without
<1>3. \A u : u \in RowsOf(d, id) <=> u \in RowsOf(c, id) /\ u # r
  <2>1. \A u : u \in RowsOf(c, id) <=> u \in DOMAIN c /\ c[u].id = id
    BY Zenon DEF RowsOf
  <2>2. \A u : u \in RowsOf(d, id) <=> u \in DOMAIN d /\ d[u].id = id
    BY Zenon DEF RowsOf
  <2>. QED
    BY <2>1, <2>2, <1>2, Zenon
<1>4. ASSUME NEW i \in RecordIDs, i # id PROVE SameOf(d, c, i)
  <2>1. r \in DOMAIN c => c[r].id # i
    BY <1>1, <1>4
  <2>. QED
    BY <2>1, OthersSame
<1>5. Others(id, d, c, rank, rank)
  BY <1>4 DEF Others, SamePlaces
<1>. QED
  BY <1>3, <1>5

\* What a step leaves of the call and the records, when the chunks become d.
CallGoesOn(d, rank, L, ps) ==
    /\ rows' = [i \in RecordIDs |-> rows'[i]]
    /\ content' = [i \in RecordIDs |-> content'[i]]
    /\ Stored(op', rows', content', d, rank)
    /\ OpIs(op', d, rank, L, ps)

\* The invariant after a step.
LEMMA GoesOn ==
    ASSUME NEW d, NEW rank, CallGoesOn(d, rank, ListBlocks', pages'), PagesOK(pages'),
           Chunks(pages') = d, ListIs(ListBlocks', pages', first', avail', rank)
    PROVE  CoreInv'
<1>1. Core(rank)'
  <2>1. Stored(op', rows', content', Chunks(pages'), rank)
    BY DEF CallGoesOn
  <2>2. OpIs(op', Chunks(pages'), rank, ListBlocks', pages')
    BY Zenon DEF CallGoesOn
  <2>. QED
    BY <2>1, <2>2 DEF Core
<1>. QED
  BY <1>1 DEF CoreInv, CallGoesOn

\* A sequence without its last element.
LEMMA FrontIs ==
    ASSUME NEW S, NEW s \in Seq(S), Len(s) # 0, Len(s) # 1, NEW q, q = SubSeq(s, 1, Len(s) - 1)
    PROVE  /\ q \in Seq(S) /\ Len(q) = Len(s) - 1 /\ Len(q) # 0
           /\ \A k \in 1 .. Len(q) : q[k] = s[k] /\ k \in 1 .. Len(s) /\ k < Len(s)
<1> PICK n : n = Len(s) - 1
  OBVIOUS
<1>1. Len(s) \in Nat /\ n \in Nat /\ n # 0 /\ n = Len(s) - 1 /\ q = SubSeq(s, 1, n)
  OBVIOUS
<1>2. q \in Seq(S) /\ Len(q) = Len(s) - 1
  <2>1. q \in Seq(S)
    BY <1>1
  <2>2. Len(q) = n
    BY <1>1
  <2>. QED
    BY <2>1, <2>2
<1>3. \A k \in 1 .. Len(q) : k \in 1 .. Len(s) /\ k < Len(s)
  BY <1>1, <1>2
<1>4. \A k \in 1 .. Len(q) : q[k] = s[k]
  BY <1>1, <1>2
<1>. QED
  BY <1>1, <1>2, <1>3, <1>4

\* The chunk found last is removed (record_allocator.go:166-178).
LEMMA RemoveChunkStep ==
    ASSUME CoreInv, MapInv, RemoveChunk
    PROVE  CoreInv' /\ MapInv'
<1> PICK rank : Core(rank)
  BY DEF CoreInv
<1> DEFINE c == Chunks(pages)
           s == op.stack
           id == op.id
           r == s[Len(s)]
           d == Without(c, r)
<1>1. Removing(op, c, rank) /\ Stored(op, rows, content, c, rank) /\ Apart(c, rank)
  <2>1. op.pc = "remove"
    BY DEF RemoveChunk
  <2>. QED
    BY <2>1, CoreIs, OpByPc
<1>2. /\ Working(op) /\ Keeps(op, c) /\ op.pc = "remove"
      /\ s \in Seq(RowIDs) /\ Len(s) \in Nat /\ Len(s) # 0
      /\ \A k \in 1 .. Len(s) : s[k] \in RowsOf(c, id)
      /\ \A k, l \in 1 .. Len(s) : k < l => rank[s[k].block] < rank[s[l].block]
      /\ op.data # Absent => \A k \in 1 .. Len(s) : rank[op.row.block] < rank[s[k].block]
      /\ \A u \in RowsOf(c, id) : Covered(op, u)
  BY <1>1 DEF Removing, Stacked
<1>3. Len(s) \in 1 .. Len(s)
  BY <1>2
<1>4. r \in RowsOf(c, id) /\ r \in DOMAIN c
  BY <1>2, <1>3 DEF RowsOf
<1>5. Lib!Last(s) = r
  BY DEF Lib!Last
<1>6. /\ PagesOK(pages') /\ Chunks(pages') = d
      /\ ListIs(ListBlocks', pages', first', avail', rank)
      /\ MapInv'
  <2> PICK page : page = Remove(pages[r.block], r.local)
    OBVIOUS
  <2>1. IF TotalRecords(page) = 0 /\ page.next # 0
          THEN RemoveFromList(r.block, page)
          ELSE ChangePages([pages EXCEPT ![r.block] = Forget(page)], {}) /\ UNCHANGED list
    BY <1>5, Zenon DEF RemoveChunk
  <2> HIDE DEF r
  <2>. QED
    BY <2>1, <1>4, ChunkRemoved
<1>7. /\ \A u : u \in RowsOf(d, id) <=> u \in RowsOf(c, id) /\ u # r
      /\ Others(id, d, c, rank, rank)
  <2> HIDE DEF c, r
  <2>. QED
    BY <1>4, ChunkGone
<1>8. \A u, v \in RowsOf(c, id) : rank[u.block] < rank[v.block] => u # v
  BY <1>1 DEF Apart, RowsOf
<1>9. op.data # Absent => op.row \in RowsOf(d, id)
  BY <1>2, <1>3, <1>4, <1>7, <1>8 DEF Keeps
<1>10. rows = [i \in RecordIDs |-> rows[i]] /\ content = [i \in RecordIDs |-> content[i]]
  BY DEF CoreInv
<1>11. ASSUME rows' = rows, content' = content, Stored(op', rows, content, d, rank),
              Removing(op', d, rank) \/ Rewriting(op', d) \/ Unindexing(op', d)
       PROVE  CallGoesOn(d, rank, ListBlocks', pages')
  <2>1. OpIs(op', d, rank, ListBlocks', pages')
    BY <1>11, Zenon DEF OpIs
  <2>2. rows' = [i \in RecordIDs |-> rows'[i]] /\ content' = [i \in RecordIDs |-> content'[i]]
    BY <1>10, <1>11
  <2>3. Stored(op', rows', content', d, rank)
    BY <1>11
  <2>. QED
    BY <2>1, <2>2, <2>3, Zenon DEF CallGoesOn
<1>12. ASSUME Len(s) # 1 PROVE CallGoesOn(d, rank, ListBlocks', pages')
  <2> DEFINE q == SubSeq(s, 1, Len(s) - 1)
  <2>1. op' = [op EXCEPT !.stack = q] /\ rows' = rows /\ content' = content
    BY <1>12 DEF RemoveChunk, Continue, Lib!Front
  <2>2. /\ Working(op') /\ op'.pc = "remove" /\ op'.id = id /\ op'.stack = q /\ op'.data = op.data
        /\ op'.rest = op.rest /\ op'.at = op.at /\ op'.row = op.row /\ op'.prev = op.prev
    <3>1. Working(op) /\ op.pc = "remove"
      BY <1>2
    <3> HIDE DEF c, r, q
    <3>. QED
      BY <2>1, <3>1, WorkingStack
  <2>3. /\ q \in Seq(RowIDs) /\ Len(q) = Len(s) - 1 /\ Len(q) # 0
        /\ \A k \in 1 .. Len(q) : q[k] = s[k] /\ k \in 1 .. Len(s) /\ k < Len(s)
    <3> HIDE DEF s
    <3>1. q = SubSeq(s, 1, Len(s) - 1)
      OBVIOUS
    <3> HIDE DEF q
    <3>. QED
      BY <3>1, <1>2, <1>12, FrontIs
  <2> HIDE DEF q
  <2>4. \A k \in 1 .. Len(q) : q[k] \in RowsOf(d, id)
    <3> SUFFICES ASSUME NEW k \in 1 .. Len(q) PROVE q[k] \in RowsOf(d, id)
      OBVIOUS
    <3>1. q[k] = s[k] /\ s[k] \in RowsOf(c, id) /\ rank[s[k].block] < rank[r.block]
      BY <2>3, <1>2, <1>3
    <3>. QED
      BY <3>1, <1>4, <1>7, <1>8
  <2>5. \A k, l \in 1 .. Len(q) : k < l => rank[q[k].block] < rank[q[l].block]
    BY <2>3, <1>2
  <2>6. op.data # Absent => \A k \in 1 .. Len(q) : rank[op.row.block] < rank[q[k].block]
    BY <2>3, <1>2
  <2>7. Stacked(op', d, rank)
    BY <2>2, <2>3, <2>4, <2>5, <2>6 DEF Stacked
  <2>8. Keeps(op', d)
    BY <2>2, <1>2, <1>9 DEF Keeps, Writes
  <2>9. \A u \in RowsOf(d, id) : Covered(op', u)
    <3> SUFFICES ASSUME NEW u \in RowsOf(d, id) PROVE Covered(op', u)
      OBVIOUS
    <3>1. Covered(op, u) /\ u # r
      BY <1>2, <1>7
    <3>2. ASSUME NEW k \in 1 .. Len(s), s[k] = u PROVE k \in 1 .. Len(q) /\ q[k] = u
      <4>1. k # Len(s)
        BY <3>1, <3>2
      <4>. QED
        BY <4>1, <3>2, <2>3, <1>2
    <3>. QED
      BY <3>1, <3>2, <2>2, Zenon DEF Covered
  <2>10. Removing(op', d, rank)
    BY <2>2, <2>7, <2>8, <2>9 DEF Removing
  <2>11. Stored(op', rows, content, d, rank)
    <3>1. op.id = id /\ op'.id = id /\ op'.pc # "idle"
      BY <2>2
    <3> HIDE DEF id, c, r, d
    <3>. QED
      BY <3>1, <1>1, <1>7, StoredStep
  <2>. QED
    <3> HIDE DEF id, c, r, d
    <3>. QED
      BY <2>1, <2>10, <2>11, <1>11
<1>13. ASSUME Len(s) = 1 PROVE CallGoesOn(d, rank, ListBlocks', pages')
  <2>1. \A u \in RowsOf(d, id) : op.data # Absent /\ u = op.row
    <3> SUFFICES ASSUME NEW u \in RowsOf(d, id) PROVE op.data # Absent /\ u = op.row
      OBVIOUS
    <3>1. Covered(op, u) /\ u # r
      BY <1>2, <1>7
    <3>2. \A k \in 1 .. Len(s) : s[k] = r
      BY <1>2, <1>13
    <3>. QED
      BY <3>1, <3>2, Zenon DEF Covered
  <2>2. CASE op.data # Absent
    <3>1. op' = [op EXCEPT !.pc = "rewrite", !.stack = <<>>] /\ rows' = rows /\ content' = content
      BY <2>2, <1>13 DEF RemoveChunk, Removed, Continue
    <3>2. /\ Working(op') /\ op'.pc = "rewrite" /\ op'.id = id /\ op'.stack = <<>> /\ op'.data = op.data
          /\ op'.rest = op.rest /\ op'.at = op.at /\ op'.row = op.row /\ op'.prev = op.prev
      <4>1. Working(op)
        BY <1>2
      <4>2. op' = [pc |-> "rewrite", id |-> op.id, stack |-> <<>>, data |-> op.data, rest |-> op.rest,
                   at |-> op.at, row |-> op.row, prev |-> op.prev]
        BY <3>1, <4>1 DEF Working
      <4>3. op.id \in RecordIDs
        BY <4>1 DEF Working
      <4> HIDE DEF c, r
      <4>. QED
        BY <4>2, <4>3 DEF Working
    <3>3. Keeps(op', d)
      BY <3>2, <1>2, <1>9 DEF Keeps, Writes
    <3>4. RowsOf(d, id) = {op.row}
      BY <2>1, <2>2, <1>9
    <3>5. Rewriting(op', d)
      BY <3>2, <3>3, <3>4, <2>2 DEF Rewriting
    <3>6. Stored(op', rows, content, d, rank)
      <4>1. op.id = id /\ op'.id = id /\ op'.pc # "idle"
        BY <3>2
      <4> HIDE DEF id, c, r, d
      <4>. QED
        BY <4>1, <1>1, <1>7, StoredStep
    <3>. QED
      <4> HIDE DEF id, c, r, d
      <4>. QED
        BY <3>1, <3>5, <3>6, <1>11
  <2>3. CASE op.data = Absent
    <3>1. op' = [pc |-> "unindex", id |-> id] /\ rows' = rows /\ content' = content
      BY <2>3, <1>13 DEF RemoveChunk, Removed, Continue
    <3>2. op'.pc = "unindex" /\ op'.id = id /\ id \in RecordIDs
      BY <3>1, <1>2 DEF Working
    <3>3. RowsOf(d, id) = {}
      BY <2>1, <2>3
    <3>4. Unindexing(op', d)
      BY <3>2, <3>3 DEF Unindexing
    <3>5. Stored(op', rows, content, d, rank)
      <4>1. op.id = id /\ op'.id = id /\ op'.pc # "idle"
        BY <3>2
      <4> HIDE DEF id, c, r, d
      <4>. QED
        BY <4>1, <1>1, <1>7, StoredStep
    <3>. QED
      <4> HIDE DEF id, c, r, d
      <4>. QED
        BY <3>1, <3>4, <3>5, <1>11
  <2> HIDE DEF id, c, r, d
  <2>. QED
    BY <2>2, <2>3
<1>14. CallGoesOn(d, rank, ListBlocks', pages')
  <2> HIDE DEF id, c, r, d
  <2>. QED
    BY <1>12, <1>13
<1>15. CoreInv'
  <2> HIDE DEF d, c
  <2>. QED
    BY <1>6, <1>14, GoesOn
<1>. QED
  BY <1>6, <1>15

-----------------------------------------------------------------------------
(* The steps that write a chunk                                            *)

\* The bytes written and the bytes left.
LEMMA BytesCut ==
    ASSUME NEW data, IsBytes(data), NEW n \in 1 .. Len(data)
    PROVE  /\ IsBytes(SubSeq(data, 1, n)) /\ Len(SubSeq(data, 1, n)) = n
           /\ IsBytes(SubSeq(data, n + 1, Len(data))) /\ Len(SubSeq(data, n + 1, Len(data))) = Len(data) - n
<1> DEFINE S == {data[k] : k \in 1 .. Len(data)}
<1>1. data \in Seq(S) /\ Len(data) \in Nat /\ n \in Nat /\ n # 0 /\ n <= Len(data)
  BY DEF IsBytes
<1> HIDE DEF S
<1>2. SubSeq(data, 1, n) \in Seq(S) /\ Len(SubSeq(data, 1, n)) = n
  BY <1>1
<1>3. SubSeq(data, n + 1, Len(data)) \in Seq(S) /\ Len(SubSeq(data, n + 1, Len(data))) = Len(data) - n
  BY <1>1
<1>4. \A s \in Seq(S) : IsBytes(s)
  BY DEF IsBytes
<1>. QED
  BY <1>2, <1>3, <1>4

\* Block b is written: links stay, and no block becomes empty.
BlocksWritten(qs, ps, b) ==
    /\ PagesOK(qs)
    /\ \A c \in Blocks : /\ qs[c].next = ps[c].next /\ qs[c].prev = ps[c].prev
                         /\ Live(ps[c]) # {} => Live(qs[c]) # {}
                         /\ c # b => qs[c] = ps[c]

\* What an operation on block b does to the blocks.
LEMMA BlockWritten ==
    ASSUME NEW ps, PagesOK(ps), NEW b \in Blocks, NEW l \in Nat, NEW e, NEW q,
           Became(q, ps[b], With(Entries(ps[b]), l + 1, e)),
           NEW qs, Replaced(qs, ps, b, q), NEW r, r = [block |-> b, local |-> l]
    PROVE  BlocksWritten(qs, ps, b) /\ Chunks(qs) = With(Chunks(ps), r, e)
<1> PICK p : p = ps[b]
  OBVIOUS
<1>1. PageOK(q) /\ q.next = p.next /\ q.prev = p.prev /\ Entries(q) = With(Entries(p), l + 1, e)
  BY DEF Became
<1>2. PagesOK(qs) /\ qs[b] = q /\ \A c \in Blocks : c # b => qs[c] = ps[c]
  BY DEF Replaced
<1>3. Live(q) # {}
  <2>1. DOMAIN Entries(q) = Live(q)
    BY Zenon DEF Entries
  <2>2. l + 1 \in DOMAIN Entries(q)
    <3>1. DOMAIN With(Entries(p), l + 1, e) = DOMAIN Entries(p) \cup {l + 1}
      BY WithValues
    <3>. QED
      BY <1>1, <3>1
  <2>. QED
    BY <2>1, <2>2
<1>4. BlocksWritten(qs, ps, b)
  BY <1>1, <1>2, <1>3 DEF BlocksWritten
<1>5. b \in Nat
  BY BlocksAre
<1>6. Chunks(qs) = With(Chunks(ps), r, e)
  <2>1. Entries(qs[b]) = With(Entries(ps[b]), l + 1, e)
    BY <1>1, <1>2
  <2>2. SameElsewhere(qs, ps, b)
    BY <1>2 DEF SameElsewhere
  <2>. QED
    BY <1>5, <2>1, <2>2, ChunksWith
<1>. QED
  BY <1>4, <1>6

\* The blocks when chunk r is wired to row.
SetChain(ps, r, row) == [ps EXCEPT ![r.block] = SetChainedRowID(@, r.local, row)]

\* The chunks then.
WiredTo(qs, ps, r, row) ==
    \E w : /\ w.id = Chunks(ps)[r].id /\ w.chain = row /\ w.data = Chunks(ps)[r].data
          /\ Chunks(qs) = With(Chunks(ps), r, w)

\* The last chunk is wired to the new one (record_allocator.go:116-118).
LEMMA ChunkWired ==
    ASSUME NEW ps, PagesOK(ps), NEW b \in Blocks, NEW l \in Nat, l + 1 \in Live(ps[b]), NEW row \in RowIDs,
           NEW r, r = [block |-> b, local |-> l],
           NEW qs, qs = SetChain(ps, r, row)
    PROVE  BlocksWritten(qs, ps, b) /\ WiredTo(qs, ps, r, row)
<1> PICK p : p = ps[b]
  OBVIOUS
<1> PICK q : q = SetChainedRowID(p, l, row)
  OBVIOUS
<1> PICK w : w = [id |-> p.headers[l + 1].id, chain |-> row, data |-> Entry(p, l + 1).data]
  OBVIOUS
<1>1. PageOK(p)
  BY DEF PagesOK
<1>2. Became(q, p, With(Entries(p), l + 1, w))
  BY <1>1, WireOnPage
<1>3. w.id = p.headers[l + 1].id /\ w.chain = row /\ w.data = Entry(p, l + 1).data
  OBVIOUS
<1>4. Replaced(qs, ps, b, q)
  <2>1. qs = [ps EXCEPT ![b] = q] /\ PageOK(q)
    BY <1>2 DEF Became, SetChain
  <2>. QED
    BY <2>1, PagesReplaced
<1>5. BlocksWritten(qs, ps, b) /\ Chunks(qs) = With(Chunks(ps), r, w)
  <2>1. Became(q, ps[b], With(Entries(ps[b]), l + 1, w))
    BY <1>2
  <2>2. BlocksWritten(qs, ps, b)
    BY <1>4, <2>1, BlockWritten
  <2>3. Chunks(qs) = With(Chunks(ps), r, w)
    BY <1>4, <2>1, BlockWritten
  <2>. QED
    BY <2>2, <2>3
<1>6. Chunks(ps)[r].id = p.headers[l + 1].id /\ Chunks(ps)[r].data = Entry(p, l + 1).data
  <2>1. b \in Nat
    BY BlocksAre
  <2>2. r \in DOMAIN Chunks(ps) /\ r.block = b /\ r.local = l
    BY RowIsChunk
  <2>3. Chunks(ps)[r] = Entries(p)[l + 1]
    BY <2>2, ChunksValues
  <2>4. Entries(p)[l + 1] = Entry(p, l + 1)
    BY Zenon DEF Entries
  <2>. QED
    BY <2>3, <2>4 DEF Entry
<1>. QED
  BY <1>3, <1>5, <1>6, Zenon DEF WiredTo

\* The list stays in order, in which a block is written.
LEMMA ListWritten ==
    ASSUME NEW L, NEW ps, NEW fst, NEW last, NEW rank, ListIs(L, ps, fst, last, rank),
           NEW b \in L, NEW qs, BlocksWritten(qs, ps, b)
    PROVE  ListIs(L, qs, fst, last, rank)
<1>1. L \subseteq Blocks
  BY DEF ListIs
<1>2. \A c \in Blocks : qs[c].next = ps[c].next /\ qs[c].prev = ps[c].prev
  BY DEF BlocksWritten
<1>3. \A c \in L : c # last /\ Live(ps[c]) # {} => Live(qs[c]) # {}
  BY <1>1 DEF BlocksWritten
<1>4. \A c \in Blocks \ L : qs[c].headers = ps[c].headers
  BY DEF BlocksWritten
<1>. QED
  BY <1>2, <1>3, <1>4, ListSame

\* The chunks d of the record being written end with row and start with start; those of
\* others are as they were.
ChunkAdded(d, rank, start, row) ==
    /\ ChainIs(d, op.id, rank, start)
    /\ row \in RowsOf(d, op.id) /\ d[row].chain = NoRow /\ row # NoRow
    /\ Others(op.id, d, Chunks(pages), rank, rank)

\* The call after n bytes of the record were written as chunk row.
WentOn(start, row, n) ==
    IF n = Len(op.rest) THEN Placed(start)
    ELSE Continue([op EXCEPT !.rest = SubSeq(@, n + 1, Len(@)), !.at = row.block,
                             !.row = start, !.prev = row, !.pc = "place"])

\* After a chunk is written the call goes on with the bytes left, or is done with the
\* blocks (record_allocator.go:84-90, 120-125).
LEMMA CallWrote ==
    ASSUME CoreInv, NEW rank, Core(rank), Working(op), Writes(op),
           NEW d, NEW L, NEW qs, NEW row, NEW start, ChunkAdded(d, rank, start, row),
           NEW n \in 1 .. Len(op.rest), row.block \in L,
           n # Len(op.rest) => FreeSpaceForInsert(qs[row.block]) = 0,
           WentOn(start, row, n)
    PROVE  CallGoesOn(d, rank, L, qs)
<1> DEFINE i == op.id
           c == Chunks(pages)
<1>1. /\ rows = [id \in RecordIDs |-> rows[id]] /\ content = [id \in RecordIDs |-> content[id]]
      /\ Stored(op, rows, content, c, rank)
  BY CoreIs DEF CoreInv
<1>2. i \in RecordIDs /\ op.data # Absent /\ IsBytes(op.rest) /\ Len(op.rest) \in Nat
  BY DEF Working, Writes, IsBytes
<1>3. /\ ChainIs(d, i, rank, start)
      /\ row \in RowsOf(d, i) /\ d[row].chain = NoRow /\ row # NoRow
      /\ Others(i, d, c, rank, rank)
  BY DEF ChunkAdded
<1>4. ASSUME rows' = rows, content' = content, op'.id = i, op'.pc # "idle", OpIs(op', d, rank, L, qs)
      PROVE  CallGoesOn(d, rank, L, qs)
  <2>1. Stored(op', rows, content, d, rank)
    <3>1. op.id = i
      OBVIOUS
    <3> HIDE DEF c, i
    <3>. QED
      BY <3>1, <1>1, <1>3, <1>4, StoredStep
  <2>2. Stored(op', rows', content', d, rank)
    BY <2>1, <1>4
  <2>3. rows' = [id \in RecordIDs |-> rows'[id]] /\ content' = [id \in RecordIDs |-> content'[id]]
    BY <1>1, <1>4
  <2>. QED
    BY <2>2, <2>3, <1>4, Zenon DEF CallGoesOn
<1>5. CASE n = Len(op.rest) /\ Present(i)
  <2>1. op' = Idle /\ rows' = [rows EXCEPT ![i] = start] /\ content' = [content EXCEPT ![i] = op.data]
    BY <1>5 DEF WentOn, Placed, Return
  <2>2. op.id = i
    OBVIOUS
  <2> HIDE DEF i, c
  <2>3. /\ rows' = [id \in RecordIDs |-> rows'[id]] /\ content' = [id \in RecordIDs |-> content'[id]]
        /\ \A q : Stored(q, rows', content', d, rank)
    BY <2>1, <2>2, <1>1, <1>2, <1>3, StoredReturn
  <2>4. OpIs(op', d, rank, L, qs)
    BY <2>1 DEF OpIs
  <2>. QED
    BY <2>3, <2>4, Zenon DEF CallGoesOn
<1>6. CASE n = Len(op.rest) /\ ~Present(i)
  <2>1. /\ op' = [pc |-> "index", id |-> i, data |-> op.data, row |-> start]
        /\ rows' = rows /\ content' = content
    BY <1>6 DEF WentOn, Placed, Continue
  <2>2. Indexing(op', d, rank)
    BY <2>1, <1>2, <1>3 DEF Indexing
  <2>3. OpIs(op', d, rank, L, qs) /\ op'.id = i /\ op'.pc # "idle"
    BY <2>1, <2>2 DEF OpIs
  <2>. QED
    BY <2>1, <2>3, <1>4
<1>7. CASE n # Len(op.rest)
  <2> PICK rest : rest = SubSeq(op.rest, n + 1, Len(op.rest))
    OBVIOUS
  <2>1. IsBytes(rest) /\ Len(rest) # 0
    <3>1. IsBytes(rest) /\ Len(rest) = Len(op.rest) - n
      BY <1>2, BytesCut
    <3>. QED
      BY <3>1, <1>2, <1>7
  <2>2. /\ op' = [op EXCEPT !.rest = rest, !.at = row.block, !.row = start, !.prev = row, !.pc = "place"]
        /\ rows' = rows /\ content' = content
    BY <1>7 DEF WentOn, Continue
  <2>3. op' = [pc |-> "place", id |-> i, stack |-> op.stack, data |-> op.data, rest |-> rest,
               at |-> row.block, row |-> start, prev |-> row]
    BY <2>2 DEF Working
  <2>4. Working(op') /\ Writes(op')
    BY <2>1, <2>3, <1>2 DEF Working, Writes
  <2>5. Placing(op', d, rank, L, qs)
    BY <2>3, <2>4, <1>3, <1>7 DEF Placing
  <2>6. OpIs(op', d, rank, L, qs) /\ op'.id = i /\ op'.pc # "idle"
    BY <2>3, <2>5 DEF OpIs
  <2>. QED
    BY <2>2, <2>6, <1>4
<1>. QED
  BY <1>5, <1>6, <1>7

\* How much of the bytes a block takes.
LEMMA ShorterIs ==
    ASSUME NEW a \in Nat, a # 0, NEW f \in Nat, f > 0, NEW n, n = Shorter(a, f)
    PROVE  n \in 1 .. a /\ n <= f /\ (n # a => n = f)
BY DEF Shorter

\* The blocks but for one.
SameBut(qs, ps, b) == \A c \in Blocks : c # b => qs[c] = ps[c]

\* A chunk on a block of the list is wired to another.
LEMMA ChunkLinked ==
    ASSUME NEW ps, PagesOK(ps), NEW L, NEW fst, NEW last, NEW rank, ListIs(L, ps, fst, last, rank),
           NEW r \in DOMAIN Chunks(ps), NEW row \in RowIDs,
           NEW qs, qs = SetChain(ps, r, row)
    PROVE  /\ PagesOK(qs) /\ ListIs(L, qs, fst, last, rank)
           /\ SameBut(qs, ps, r.block)
           /\ WiredTo(qs, ps, r, row)
<1> PICK b : b = r.block
  OBVIOUS
<1> PICK l : l = r.local
  OBVIOUS
<1>1. b \in L /\ l \in Nat /\ l + 1 \in Live(ps[b]) /\ r = [block |-> b, local |-> l]
  BY ChunksAre
<1>2. b \in Blocks
  BY <1>1 DEF ListIs
<1>3. BlocksWritten(qs, ps, b)
  BY <1>1, <1>2, ChunkWired
<1>4. WiredTo(qs, ps, r, row)
  BY <1>1, <1>2, ChunkWired
<1>5. ListIs(L, qs, fst, last, rank)
  BY <1>1, <1>3, ListWritten
<1>. QED
  BY <1>3, <1>4, <1>5 DEF BlocksWritten, SameBut

\* The chunks of other records stay as they are when two are replaced.
LEMMA OthersTwice ==
    ASSUME NEW c, NEW rank, NEW i, NEW x, x \notin DOMAIN c, NEW e, e.id = i,
           NEW last \in RowsOf(c, i), NEW w, w.id = i
    PROVE  Others(i, With(With(c, x, e), last, w), c, rank, rank)
<1> DEFINE a == With(c, x, e)
           d == With(a, last, w)
<1>1. last \in DOMAIN c /\ c[last].id = i /\ last # x
  BY DEF RowsOf
<1>2. a[last].id = i
  <2>1. \A y \in DOMAIN c : y # x => a[y] = c[y]
    BY Zenon DEF With
  <2>. QED
    BY <1>1, <2>1
<1> HIDE DEF a
<1>3. ASSUME NEW id \in RecordIDs, id # i PROVE SameOf(d, c, id)
  <2>1. SameOf(a, c, id)
    <3>1. x \in DOMAIN c => c[x].id # id
      OBVIOUS
    <3>2. e.id # id
      BY <1>3
    <3>. QED
      BY <3>1, <3>2, OthersSame DEF a
  <2>2. SameOf(d, a, id)
    <3>1. last \in DOMAIN a => a[last].id # id
      BY <1>2, <1>3
    <3>2. w.id # id
      BY <1>3
    <3>. QED
      BY <3>1, <3>2, OthersSame
  <2> HIDE DEF d
  <2>. QED
    BY <2>1, <2>2, Zenon DEF SameOf
<1> HIDE DEF d
<1>4. Others(i, d, c, rank, rank)
  BY <1>3 DEF Others, SamePlaces
<1>. QED
  BY <1>4 DEF a, d

\* The chunk e is on its block, and nothing else changed.
PutIn(put, row, rank, q, e) ==
    /\ PagesOK(put) /\ ListIs(ListBlocks, put, first, avail, rank)
    /\ Chunks(put) = With(Chunks(pages), row, e) /\ put[row.block] = q
    /\ row \in RowIDs /\ row # NoRow

\* What an operation on the call's block puts there (record_allocator.go:80-82, 107-114).
LEMMA PutInIs ==
    ASSUME CoreInv, NEW rank, Core(rank), NEW b \in ListBlocks, NEW l, NEW i, NEW data, NEW q,
           PutOn(q, pages[b], l, i, data), NEW row, row = [block |-> b, local |-> l],
           NEW put, put = [pages EXCEPT ![row.block] = q]
    PROVE  PutIn(put, row, rank, q, Chunk(i, data))
<1>1. PagesOK(pages) /\ ListIs(ListBlocks, pages, first, avail, rank)
  BY CoreIs
<1>2. row.block = b
  OBVIOUS
<1> PICK ps : ps = pages
  OBVIOUS
<1> PICK L : L = ListBlocks
  OBVIOUS
<1>3. PagesOK(ps) /\ ListIs(L, ps, first, avail, rank) /\ b \in L /\ PutOn(q, ps[b], l, i, data)
  BY <1>1
<1>4. Replaced(put, ps, b, q)
  <2>1. b \in Blocks /\ PageOK(q)
    BY <1>3 DEF ListIs, PutOn, Became
  <2>2. put = [ps EXCEPT ![b] = q]
    BY <1>2
  <2>. QED
    BY <2>1, <2>2, <1>3, PagesReplaced
<1>5. b \in Blocks /\ b \in Nat /\ b # 0 /\ l \in Nat
  BY <1>3, BlocksAre DEF ListIs, PutOn
<1>6. Became(q, ps[b], With(Entries(ps[b]), l + 1, Chunk(i, data)))
  BY <1>3 DEF PutOn
<1>7. BlocksWritten(put, ps, b)
  BY <1>3, <1>4, <1>5, <1>6, BlockWritten
<1>8. Chunks(put) = With(Chunks(ps), row, Chunk(i, data))
  BY <1>3, <1>4, <1>5, <1>6, BlockWritten
<1>9. ListIs(L, put, first, avail, rank)
  BY <1>3, <1>7, ListWritten
<1>10. row \in RowIDs /\ row # NoRow
  BY <1>5 DEF RowIDs, NoRow
<1>11. PagesOK(put) /\ put[b] = q
  BY <1>4 DEF Replaced
<1>. QED
  BY <1>2, <1>8, <1>9, <1>10, <1>11 DEF PutIn

\* The first chunk of the record, or the place an update gives it.
StartIs(row) == IF op.row = NoRow THEN row ELSE op.row

\* The blocks after the chunk is written and the one before it is wired.
WiredBlocks(put, row) == IF op.prev = NoRow THEN put ELSE SetChain(put, op.prev, row)

\* What is left after a chunk is written (record_allocator.go:107-125).
LEMMA WroteChunkIs ==
    ASSUME NEW q, NEW row, NEW n, WroteChunk(q, row, n),
           NEW put, put = [pages EXCEPT ![row.block] = q]
    PROVE  /\ WentOn(StartIs(row), row, n)
           /\ UNCHANGED list
           /\ pages' = WiredBlocks(put, row)
<1>1. WentOn(StartIs(row), row, n) /\ UNCHANGED list
  BY Zenon DEF WroteChunk, WentOn, StartIs
<1>2. CASE op.prev = NoRow
  BY <1>1, <1>2 DEF WroteChunk, ChangePages, WiredBlocks
<1>3. CASE op.prev # NoRow
  BY <1>1, <1>3 DEF WroteChunk, ChangePages, SetChain, WiredBlocks
<1>. QED
  BY <1>2, <1>3

\* The first n bytes left go to block row.block, which becomes q.
PutChunk(rank, q, row, n) ==
    /\ n \in 1 .. Len(op.rest) /\ WroteChunk(q, row, n)
    /\ row.block \in ListBlocks /\ (n # Len(op.rest) => FreeSpaceForInsert(q) = 0)
    /\ PutIn([pages EXCEPT ![row.block] = q], row, rank, q, Chunk(op.id, SubSeq(op.rest, 1, n)))

\* It is the first chunk of the record, or the one an update writes anew ...
FirstChunk(row) ==
    /\ op.prev = NoRow /\ op.row \in {NoRow, row}
    /\ RowsOf(Chunks(pages), op.id) \subseteq {row}
    /\ row \in DOMAIN Chunks(pages) => Chunks(pages)[row].id = op.id

\* ... or comes behind the others.
NextChunk(rank, row) ==
    /\ op.prev # NoRow
    /\ ChainIs(Chunks(pages), op.id, rank, op.row) /\ op.prev \in RowsOf(Chunks(pages), op.id)
    /\ Chunks(pages)[op.prev].chain = NoRow
    /\ rank[op.prev.block] < rank[row.block] /\ row \notin DOMAIN Chunks(pages)

Writing(rank, q, row, n) ==
    /\ Working(op) /\ Writes(op) /\ PutChunk(rank, q, row, n)
    /\ FirstChunk(row) \/ NextChunk(rank, row)

\* The blocks after that, with the chunks d.
WroteTo(rank, q, row, d) ==
    /\ PagesOK(pages') /\ ListIs(ListBlocks, pages', first, avail, rank)
    /\ pages'[row.block] = q /\ Chunks(pages') = d
    /\ ChunkAdded(d, rank, StartIs(row), row)

\* The record's first chunk is written (record_allocator.go:80-90).
LEMMA WroteFirst ==
    ASSUME CoreInv, NEW rank, Core(rank), NEW q, NEW row, NEW n, Writing(rank, q, row, n), FirstChunk(row),
           NEW e, e = Chunk(op.id, SubSeq(op.rest, 1, n))
    PROVE  WroteTo(rank, q, row, With(Chunks(pages), row, e)) /\ StartIs(row) = row
<1> PICK put : put = [pages EXCEPT ![row.block] = q]
  OBVIOUS
<1> PICK c : c = Chunks(pages)
  OBVIOUS
<1> PICK i : i = op.id
  OBVIOUS
<1> PICK d : d = With(c, row, e)
  OBVIOUS
<1>1. PutIn(put, row, rank, q, e) /\ WroteChunk(q, row, n) /\ row.block \in ListBlocks
  BY DEF Writing, PutChunk
<1>2. PagesOK(put) /\ ListIs(ListBlocks, put, first, avail, rank) /\ Chunks(put) = d /\ put[row.block] = q
      /\ row # NoRow
  BY <1>1 DEF PutIn
<1>3. pages' = put
  <2>1. pages' = WiredBlocks(put, row)
    BY <1>1, WroteChunkIs
  <2>. QED
    BY <2>1 DEF WiredBlocks, FirstChunk
<1>4. StartIs(row) = row
  BY DEF StartIs, FirstChunk
<1>5. rank[row.block] \in Nat
  <2>1. ListIs(ListBlocks, pages, first, avail, rank)
    BY CoreIs
  <2>. QED
    BY <1>1, <2>1 DEF ListIs, Ranked
<1>6. RowsOf(c, i) \subseteq {row} /\ (row \in DOMAIN c => c[row].id = i)
      /\ e.id = i /\ e.chain = NoRow
  BY DEF FirstChunk, Chunk
<1>7. RowsOf(d, i) = {row} /\ d[row].chain = NoRow /\ ChainIs(d, i, rank, row)
  <2>1. DOMAIN d = DOMAIN c \cup {row} /\ d[row] = e /\ \A y \in DOMAIN c : y # row => d[y] = c[y]
    BY Zenon DEF With
  <2>2. RowsOf(d, i) = {row} /\ d[row].chain = NoRow
    BY <2>1, <1>6 DEF RowsOf
  <2>3. ChainIs(d, i, rank, row)
    BY <1>5, <1>6, ChainStarts
  <2>. QED
    BY <2>2, <2>3
<1>8. Others(i, d, c, rank, rank)
  <2>1. ASSUME NEW id \in RecordIDs, id # i PROVE SameOf(d, c, id)
    <3>1. row \in DOMAIN c => c[row].id # id
      BY <1>6, <2>1
    <3>2. e.id # id
      BY <1>6, <2>1
    <3>. QED
      BY <3>1, <3>2, OthersSame
  <2>. QED
    BY <2>1 DEF Others, SamePlaces
<1>9. ChunkAdded(d, rank, StartIs(row), row)
  BY <1>2, <1>4, <1>7, <1>8 DEF ChunkAdded
<1>. QED
  BY <1>2, <1>3, <1>4, <1>9 DEF WroteTo

\* The chunk before is wired to the new one.
WroteBehind(rank, q, row, e) ==
    \E w : /\ w.id = op.id /\ w.chain = row /\ w.data = Chunks(pages)[op.prev].data
           /\ WroteTo(rank, q, row, With(With(Chunks(pages), row, e), op.prev, w))

\* A chunk is written behind the others and wired to (record_allocator.go:107-125).
LEMMA WroteNext ==
    ASSUME CoreInv, NEW rank, Core(rank), NEW q, NEW row, NEW n, Writing(rank, q, row, n), NextChunk(rank, row),
           NEW e, e = Chunk(op.id, SubSeq(op.rest, 1, n))
    PROVE  WroteBehind(rank, q, row, e) /\ StartIs(row) = op.row /\ row # NoRow
<1> PICK put : put = [pages EXCEPT ![row.block] = q]
  OBVIOUS
<1> PICK c : c = Chunks(pages)
  OBVIOUS
<1> PICK i : i = op.id
  OBVIOUS
<1> PICK last : last = op.prev
  OBVIOUS
<1> PICK L : L = ListBlocks
  OBVIOUS
<1>0. WroteChunk(q, row, n) /\ row.block \in ListBlocks
  BY DEF Writing, PutChunk
<1>1. /\ PutIn(put, row, rank, q, e) /\ e.id = i /\ e.chain = NoRow /\ row \notin DOMAIN c
      /\ ChainIs(c, i, rank, op.row) /\ last \in RowsOf(c, i) /\ c[last].chain = NoRow
      /\ rank[last.block] < rank[row.block]
  BY DEF Writing, PutChunk, NextChunk, Chunk
<1>2. /\ PagesOK(put) /\ ListIs(L, put, first, avail, rank)
      /\ Chunks(put) = With(c, row, e) /\ put[row.block] = q /\ row # NoRow /\ row \in RowIDs
  BY <1>1 DEF PutIn
<1> PICK qs : qs = SetChain(put, last, row)
  OBVIOUS
<1>3. pages' = qs
  <2>1. pages' = WiredBlocks(put, row)
    BY <1>0, WroteChunkIs
  <2>. QED
    BY <2>1 DEF WiredBlocks, NextChunk
<1>4. ListIs(L, pages, first, avail, rank) /\ Apart(c, rank)
  BY CoreIs
<1>5. rank[row.block] \in Nat /\ rank \in [Blocks -> Nat] /\ row.block \in Blocks
  BY <1>0, <1>4 DEF ListIs, Ranked
<1>6. StartIs(row) = op.row
  BY <1>1, <1>4 DEF StartIs, ChainIs, RowsOf, Apart
<1>7. last \in DOMAIN c /\ c[last].id = i
  BY <1>1 DEF RowsOf
<1>8. last \in DOMAIN Chunks(put) /\ Chunks(put)[last] = c[last]
  <2>1. last # row
    BY <1>1, <1>7
  <2>. QED
    BY <2>1, <1>2, <1>7, Zenon DEF With
<1>9. /\ PagesOK(qs) /\ ListIs(L, qs, first, avail, rank)
      /\ SameBut(qs, put, last.block)
      /\ WiredTo(qs, put, last, row)
  <2>1. PagesOK(qs) /\ ListIs(L, qs, first, avail, rank)
    BY <1>2, <1>8, ChunkLinked
  <2>2. SameBut(qs, put, last.block)
    BY <1>2, <1>8, ChunkLinked
  <2>3. WiredTo(qs, put, last, row)
    BY <1>2, <1>8, ChunkLinked
  <2>. QED
    BY <2>1, <2>2, <2>3
<1>10. qs[row.block] = q
  <2>1. row.block # last.block
    <3>1. rank[row.block] # rank[last.block]
      <4>1. rank[last.block] \in Nat
        BY <1>4, <1>7 DEF Apart
      <4>. QED
        BY <4>1, <1>1, <1>5
    <3>. QED
      BY <3>1
  <2>. QED
    BY <2>1, <1>2, <1>5, <1>9 DEF SameBut
<1>11. PICK w : /\ w.id = Chunks(put)[last].id /\ w.chain = row /\ w.data = Chunks(put)[last].data
                /\ Chunks(qs) = With(Chunks(put), last, w)
  BY <1>9, Zenon DEF WiredTo
<1>12. w.id = i /\ w.chain = row /\ w.data = c[last].data
  BY <1>7, <1>8, <1>11
<1> PICK d : d = With(With(c, row, e), last, w)
  OBVIOUS
<1>13. Chunks(qs) = d
  BY <1>2, <1>11
<1>14. ChainIs(d, i, rank, op.row) /\ row \in RowsOf(d, i) /\ d[row].chain = NoRow
  BY <1>1, <1>2, <1>4, <1>5, <1>12, ChainGrows
<1>15. Others(i, d, c, rank, rank)
  BY <1>1, <1>12, OthersTwice
<1>16. ChunkAdded(d, rank, StartIs(row), row)
  BY <1>2, <1>6, <1>14, <1>15 DEF ChunkAdded
<1>17. WroteTo(rank, q, row, d)
  BY <1>3, <1>9, <1>10, <1>13, <1>16 DEF WroteTo
<1>18. WroteBehind(rank, q, row, e)
  BY <1>12, <1>17, Zenon DEF WroteBehind
<1>. QED
  BY <1>2, <1>6, <1>18

\* A chunk is written: the invariant.
LEMMA WritingStep ==
    ASSUME CoreInv, MapInv, NEW rank, Core(rank), NEW q, NEW row, NEW n, Writing(rank, q, row, n)
    PROVE  CoreInv' /\ MapInv'
<1> PICK e : e = Chunk(op.id, SubSeq(op.rest, 1, n))
  OBVIOUS
<1> PICK qs : qs = pages'
  OBVIOUS
<1>1. /\ Working(op) /\ Writes(op) /\ n \in 1 .. Len(op.rest) /\ WroteChunk(q, row, n)
      /\ row.block \in ListBlocks /\ (n # Len(op.rest) => FreeSpaceForInsert(q) = 0)
  BY DEF Writing, PutChunk
<1>2. PICK d : WroteTo(rank, q, row, d)
  <2>1. CASE FirstChunk(row)
    BY <2>1, WroteFirst
  <2>2. CASE NextChunk(rank, row)
    BY <2>2, WroteNext, Zenon DEF WroteBehind
  <2>. QED
    BY <2>1, <2>2 DEF Writing
<1>3. /\ PagesOK(qs) /\ ListIs(ListBlocks, qs, first, avail, rank) /\ qs[row.block] = q
      /\ Chunks(qs) = d /\ ChunkAdded(d, rank, StartIs(row), row)
  BY <1>2 DEF WroteTo
<1>4. WentOn(StartIs(row), row, n) /\ UNCHANGED list
  BY <1>1, WroteChunkIs
<1>5. MapInv' /\ ListBlocks' = ListBlocks /\ first' = first /\ avail' = avail
  BY <1>4, ListKept
<1>6. n # Len(op.rest) => FreeSpaceForInsert(qs[row.block]) = 0
  BY <1>1, <1>3
<1>7. CallGoesOn(d, rank, ListBlocks, qs)
  BY <1>1, <1>3, <1>4, <1>6, CallWrote
<1>8. CoreInv'
  <2>1. CallGoesOn(d, rank, ListBlocks', pages')
    BY <1>5, <1>7
  <2>2. PagesOK(pages') /\ Chunks(pages') = d
    BY <1>3
  <2>3. ListIs(ListBlocks', pages', first', avail', rank)
    BY <1>3, <1>5
  <2>. QED
    BY <2>1, <2>2, <2>3, GoesOn
<1>. QED
  BY <1>5, <1>8

\* The block takes as much of the record as it has room for, and the chunk before is wired
\* to the new one (record_allocator.go:72-129).
LEMMA PlaceWrites ==
    ASSUME CoreInv, NEW rank, Core(rank), Place
    PROVE  \E q, row, n : Writing(rank, q, row, n)
<1> PICK b : b = op.at
  OBVIOUS
<1> PICK p : p = pages[b]
  OBVIOUS
<1> PICK n : n = Shorter(Len(op.rest), FreeSpaceForInsert(p))
  OBVIOUS
<1> PICK data : data = SubSeq(op.rest, 1, n)
  OBVIOUS
<1>1. PICK r \in Add(p, op.id, data) :
        WroteChunk(Forget(r.page), [block |-> b, local |-> r.local], n)
  BY DEF Place
<1> PICK q : q = Forget(r.page)
  OBVIOUS
<1> PICK row : row = [block |-> b, local |-> r.local]
  OBVIOUS
<1> PICK c : c = Chunks(pages)
  OBVIOUS
<1> PICK i : i = op.id
  OBVIOUS
<1> PICK L : L = ListBlocks
  OBVIOUS
<1>2. /\ WroteChunk(q, row, n) /\ op.pc = "place" /\ FreeSpaceForInsert(p) > 0
  BY <1>1 DEF Place
<1>3. /\ Placing(op, c, rank, L, pages) /\ PagesOK(pages)
      /\ ListIs(L, pages, first, avail, rank) /\ Apart(c, rank)
  BY <1>2, CoreIs, OpByPc
<1>4. Working(op) /\ Writes(op) /\ b \in L /\ i \in RecordIDs
  BY <1>3 DEF Placing, Working
<1>5. b \in Blocks /\ PageOK(p) /\ IsPage(p) /\ rank[b] \in Nat
  BY <1>3, <1>4 DEF ListIs, PagesOK, PageOK, Packed, Ranked
<1>6. /\ n \in 1 .. Len(op.rest) /\ n <= FreeSpaceForInsert(p)
      /\ n # Len(op.rest) => n = FreeSpaceForInsert(p)
  <2>1. FreeSpaceForInsert(p) \in Nat
    BY <1>5, FreeSpaceOnPage
  <2>2. Len(op.rest) \in Nat /\ Len(op.rest) # 0
    BY <1>4 DEF Writes, IsBytes
  <2>. QED
    BY <2>1, <2>2, <1>2, ShorterIs
<1>7. IsBytes(data) /\ Len(data) = n
  BY <1>4, <1>6, BytesCut DEF Writes
<1>8. op.prev # NoRow =>
        /\ ChainIs(c, i, rank, op.row) /\ op.prev \in RowsOf(c, i) /\ c[op.prev].chain = NoRow
        /\ rank[op.prev.block] < rank[b]
  BY <1>2, <1>3 DEF Placing
<1>9. op.prev = NoRow => op.row = NoRow /\ RowsOf(c, i) = {}
  BY <1>3 DEF Placing
<1>10. \A m \in Live(p) : p.headers[m].id # i
  <2> SUFFICES ASSUME NEW m \in Live(p), p.headers[m].id = i PROVE FALSE
    OBVIOUS
  <2>1. m \in Nat /\ m # 0
    BY <1>5, LiveIs
  <2> PICK l : l = m - 1
    OBVIOUS
  <2> PICK t : t = [block |-> b, local |-> l]
    OBVIOUS
  <2>2. l \in Nat /\ l + 1 = m /\ t.block = b /\ t.local = l
    BY <2>1
  <2>3. t \in DOMAIN c
    <3>1. [block |-> b, local |-> l] \in DOMAIN Chunks(pages) <=> l + 1 \in Live(pages[b])
      BY <1>3, <1>5, <2>2, RowIsChunk
    <3>. QED
      BY <3>1, <2>2
  <2>4. c[t].id = i
    <3>1. c[t].id = pages[t.block].headers[t.local + 1].id
      BY <1>3, <2>3, ChunksAre
    <3>. QED
      BY <3>1, <2>2
  <2>5. t \in RowsOf(c, i)
    BY <2>3, <2>4 DEF RowsOf
  <2>6. op.prev # NoRow
    BY <2>5, <1>9
  <2>7. rank[b] <= rank[op.prev.block] /\ rank[op.prev.block] \in Nat
    BY <2>2, <2>5, <2>6, <1>3, <1>8 DEF ChainIs, Linked, Apart, RowsOf
  <2>. QED
    BY <2>6, <2>7, <1>5, <1>8
<1>11. /\ PutOn(q, p, r.local, i, data) /\ r.local \in Nat /\ r.local + 1 \notin Live(p)
       /\ n # Len(op.rest) => FreeSpaceForInsert(q) = 0
  <2>1. r \in Add(p, i, data) /\ Len(data) # 0 /\ Len(data) <= FreeSpaceForInsert(p)
    BY <1>1, <1>6, <1>7
  <2>2. /\ PutOn(Forget(r.page), p, r.local, i, data)
        /\ r.local + 1 \notin Live(p)
        /\ Len(data) = FreeSpaceForInsert(p) => FreeSpaceForInsert(Forget(r.page)) = 0
    BY <2>1, <1>4, <1>5, <1>7, <1>10, PlaceOnPage
  <2>. QED
    BY <2>2, <1>6, <1>7 DEF PutOn
<1>12. row \notin DOMAIN c
  <2>1. [block |-> b, local |-> r.local] \in DOMAIN Chunks(pages) <=> r.local + 1 \in Live(pages[b])
    BY <1>3, <1>5, <1>11, RowIsChunk
  <2>. QED
    BY <2>1, <1>11
<1>13. PutIn([pages EXCEPT ![row.block] = q], row, rank, q, Chunk(i, data))
  <2>1. PutOn(q, pages[b], r.local, i, data) /\ b \in ListBlocks
    BY <1>4, <1>11
  <2>. QED
    BY <2>1, PutInIs
<1>14. row.block = b /\ row.block \in ListBlocks
  BY <1>4
<1>15. PutChunk(rank, q, row, n)
  BY <1>2, <1>6, <1>11, <1>13, <1>14 DEF PutChunk
<1>16. FirstChunk(row) \/ NextChunk(rank, row)
  <2>1. op.prev = NoRow => FirstChunk(row)
    BY <1>9, <1>12 DEF FirstChunk
  <2>2. op.prev # NoRow => NextChunk(rank, row)
    BY <1>8, <1>12, <1>14 DEF NextChunk
  <2>. QED
    BY <2>1, <2>2
<1>. QED
  BY <1>4, <1>15, <1>16 DEF Writing

\* An update writes the first chunk anew, at its place (record_allocator.go:239-249).
LEMMA RewriteWrites ==
    ASSUME CoreInv, NEW rank, Core(rank), Rewrite, ~Defect
    PROVE  \E q, row, n : Writing(rank, q, row, n)
<1> PICK c : c = Chunks(pages)
  OBVIOUS
<1> PICK i : i = op.id
  OBVIOUS
<1> PICK row : row = op.row
  OBVIOUS
<1> PICK b : b = row.block
  OBVIOUS
<1> PICK l : l = row.local
  OBVIOUS
<1>1. op.pc = "rewrite"
  BY DEF Rewrite
<1>2. /\ Rewriting(op, c) /\ PagesOK(pages) /\ ListIs(ListBlocks, pages, first, avail, rank)
      /\ Apart(c, rank)
  BY <1>1, CoreIs, OpByPc
<1>3. /\ Working(op) /\ Writes(op) /\ i \in RecordIDs /\ op.at = b /\ op.prev = NoRow
      /\ RowsOf(c, i) = {row}
  BY <1>2 DEF Rewriting, Working, Keeps
<1>4. row \in DOMAIN c /\ c[row].id = i
  BY <1>3 DEF RowsOf
<1>5. /\ b \in ListBlocks /\ b \in Nat /\ l \in Nat /\ row = [block |-> b, local |-> l]
      /\ l + 1 \in Live(pages[b]) /\ pages[b].headers[l + 1].id = i
  BY <1>2, <1>4, ChunksAre
<1> PICK p : p = pages[b]
  OBVIOUS
<1>6. b \in Blocks /\ PageOK(p) /\ l + 1 \in Live(p) /\ i = p.headers[l + 1].id
  BY <1>2, <1>5 DEF ListIs, PagesOK
<1> PICK soft : soft = SoftRemove(p, l)
  OBVIOUS
<1> PICK n : n = Shorter(Len(op.rest), FreeSpaceForInsert(soft))
  OBVIOUS
<1> PICK data : data = SubSeq(op.rest, 1, n)
  OBVIOUS
<1>7. FreeSpaceForInsert(soft) # 0 /\ (l = 0 => p.prev = 0) /\ ~CutsID(p, l)
  BY <1>1, <1>3 DEF Defect, EmptyChunk, PrevLost, IdCut
<1>8. FreeSpaceForInsert(soft) \in Nat
  BY <1>5, <1>6, <1>7, SoftRemoveOnPage
<1>9. /\ n \in 1 .. Len(op.rest) /\ n <= FreeSpaceForInsert(soft)
      /\ n # Len(op.rest) => n = FreeSpaceForInsert(soft)
  <2>1. Len(op.rest) \in Nat /\ Len(op.rest) # 0
    BY <1>3 DEF Writes, IsBytes
  <2>2. FreeSpaceForInsert(soft) > 0
    BY <1>7, <1>8
  <2>. QED
    BY <2>1, <2>2, <1>8, ShorterIs
<1>10. IsBytes(data) /\ Len(data) = n
  BY <1>3, <1>9, BytesCut DEF Writes
<1>11. PICK r \in Add(soft, i, data) :
        IF r.local = row.local THEN WroteChunk(Forget(r.page), row, n)
        ELSE Continue(Panicked) /\ UNCHANGED <<pages, list, dirty>>
  BY <1>3 DEF Rewrite
<1> PICK q : q = Forget(r.page)
  OBVIOUS
<1>12. /\ r.local = l /\ PutOn(q, p, l, i, data)
       /\ n # Len(op.rest) => FreeSpaceForInsert(q) = 0
  <2>1. Len(data) # 0 /\ Len(data) <= FreeSpaceForInsert(SoftRemove(p, l)) /\ r \in Add(SoftRemove(p, l), i, data)
    BY <1>9, <1>10, <1>11
  <2>2. /\ PageOK(p) /\ l \in Nat /\ l + 1 \in Live(p) /\ i = p.headers[l + 1].id
        /\ l = 0 => p.prev = 0
        /\ ~CutsID(p, l) /\ IsBytes(data)
    BY <1>5, <1>6, <1>7, <1>10
  <2>3. Rewrote(r, p, l, i, data)
    BY <2>1, <2>2, RewriteOnPage
  <2>. QED
    BY <2>3, <1>9, <1>10 DEF Rewrote
<1>13. WroteChunk(q, row, n)
  BY <1>11, <1>12
<1>14. PutIn([pages EXCEPT ![row.block] = q], row, rank, q, Chunk(i, data))
  <2>1. PutOn(q, pages[b], l, i, data) /\ b \in ListBlocks
    BY <1>5, <1>12
  <2>. QED
    BY <2>1, <1>5, PutInIs
<1>15. PutChunk(rank, q, row, n)
  BY <1>5, <1>9, <1>12, <1>13, <1>14 DEF PutChunk
<1>16. FirstChunk(row)
  BY <1>3, <1>4 DEF FirstChunk
<1>. QED
  BY <1>3, <1>15, <1>16 DEF Writing

\* Both loops keep the invariant.
LEMMA PlaceStep ==
    ASSUME CoreInv, MapInv, Place
    PROVE  CoreInv' /\ MapInv'
<1> PICK rank : Core(rank)
  BY DEF CoreInv
<1>1. PICK q, row, n : Writing(rank, q, row, n)
  BY PlaceWrites
<1>. QED
  BY <1>1, WritingStep

\* The second of them, that begins with what an update left (record_allocator.go:239-249).
LEMMA RewriteStep ==
    ASSUME CoreInv, MapInv, Rewrite, ~Defect
    PROVE  CoreInv' /\ MapInv'
<1> PICK rank : Core(rank)
  BY DEF CoreInv
<1>1. PICK q, row, n : Writing(rank, q, row, n)
  BY RewriteWrites
<1>. QED
  BY <1>1, WritingStep

-----------------------------------------------------------------------------
(* The theorems about the list                                             *)

\* Only blocks of the file are marked (data_buffer.go:89-98).
DirtyOK == dirty \subseteq {ControlBlock, MapBlock} \cup Blocks

\* The inductive invariant.
AllocInv == CoreInv /\ MapInv /\ DirtyOK

\* A step of the map, or none.
MapStep == MapProofs!Next \/ UNCHANGED <<bits, held>>

\* A step that leaves the list and the map.
LEMMA MapRests ==
    ASSUME MapInv, UNCHANGED list
    PROVE  MapInv' /\ MapStep
<1>1. MapInv'
  BY ListKept
<1>2. UNCHANGED <<bits, held>>
  BY DEF list, map
<1>. QED
  BY <1>1, <1>2 DEF MapStep

\* A new block (data_file_formatter.go:9-32).
LEMMA EmptyPageOK == PageOK(EmptyPage) /\ EmptyPage.headers = <<>> /\ EmptyPage.next = 0 /\ EmptyPage.prev = 0
<1> PICK p : p = EmptyPage
  OBVIOUS
<1> DEFINE bytes == [a \in Addresses |-> ZeroByte]
<1>1. p = [bytes |-> bytes, headers |-> <<>>, used |-> 0, next |-> 0, prev |-> 0]
  BY Zenon DEF EmptyPage, Addresses
<1>2. bytes = [a \in Addresses |-> bytes[a]]
  OBVIOUS
<1> HIDE DEF bytes
<1>3. p.bytes = bytes /\ p.headers = <<>> /\ p.used = 0 /\ p.next = 0 /\ p.prev = 0
  BY <1>1
<1>4. IsPage(p)
  BY <1>1, <1>2, <1>3 DEF IsPage
<1>5. Packed(Clear(p))
  BY <1>4, ClearIs
<1>6. Clear(p) = p
  <2>1. Clear(p) = [p EXCEPT !.headers = <<>>, !.used = 0]
    BY Zenon DEF Clear
  <2>2. [p EXCEPT !.headers = <<>>] = p
    BY <1>1
  <2>3. [p EXCEPT !.used = 0] = p
    BY <1>1
  <2>. QED
    BY <2>1, <2>2, <2>3
<1>7. Packed(p)
  BY <1>5, <1>6
<1>8. Tidy(p) /\ Roomy(p)
  BY <1>3 DEF Tidy, Roomy
<1>. QED
  BY <1>3, <1>7, <1>8 DEF PageOK

\* The formatted file satisfies the invariant (data_file_formatter.go:9-32).
LEMMA AllocInit == Init => AllocInv
<1> SUFFICES ASSUME Init PROVE AllocInv
  OBVIOUS
<1>1. /\ pages = [b \in Blocks |-> EmptyPage] /\ first = 3 /\ avail = 3 /\ Map!Init
      /\ rows = [id \in RecordIDs |-> NoRow] /\ content = [id \in RecordIDs |-> Absent]
      /\ dirty = {} /\ index = {} /\ op = Idle
  BY DEF Init
<1>2. MapInv
  <2>1. MapProofs!Init
    BY <1>1 DEF Map!Init, MapProofs!Init, Map!BitOf, MapProofs!BitOf
  <2>2. MapProofs!Inv
    BY <2>1, MapProofs!InvInit, AllocatorAssumption
  <2>. QED
    BY <2>2, <1>1 DEF MapInv
<1>3. PagesOK(pages)
  BY <1>1, EmptyPageOK DEF PagesOK
<1>4. ListBlocks = {3} /\ 3 \in Blocks
  BY <1>1, AllocatorAssumption DEF ListBlocks, Map!Init, Blocks
<1>5. \A b \in Blocks : pages[b].headers = <<>> /\ pages[b].next = 0 /\ pages[b].prev = 0
  BY <1>1, EmptyPageOK
<1> PICK rank : rank = [b \in Blocks |-> 0]
  OBVIOUS
<1>6. ListIs(ListBlocks, pages, first, avail, rank)
  BY <1>1, <1>4, <1>5 DEF ListIs, ForwardLinks, BackLinks, Ranked, Filled
<1> PICK c : c = Chunks(pages)
  OBVIOUS
<1>7. DOMAIN c = {}
  <2> SUFFICES ASSUME NEW r \in DOMAIN c PROVE FALSE
    OBVIOUS
  <2>1. r.block \in Blocks /\ r.local + 1 \in Live(pages[r.block]) /\ r.local \in Nat
    BY <1>3, <1>4, <1>6, ChunksAre
  <2>2. IsPage(pages[r.block]) /\ Len(pages[r.block].headers) = 0
    BY <2>1, <1>3, <1>5 DEF PagesOK, PageOK, Packed
  <2>. QED
    BY <2>1, <2>2, LiveIs
<1>8. \A id : RowsOf(c, id) = {}
  BY <1>7 DEF RowsOf
<1>9. Stored(op, rows, content, c, rank)
  BY <1>1, <1>8 DEF Stored, RecordStored
<1>10. OpIs(op, c, rank, ListBlocks, pages)
  BY <1>1 DEF OpIs
<1>11. Core(rank)
  BY <1>6, <1>9, <1>10 DEF Core
<1>12. CoreInv
  BY <1>1, <1>3, <1>11 DEF CoreInv
<1>. QED
  BY <1>1, <1>2, <1>12 DEF AllocInv, DirtyOK

\* A chunk's block, when it is written (record_allocator.go:82, 113, 118).
LEMMA WroteMarks ==
    ASSUME CoreInv, MapInv, DirtyOK, NEW q, NEW row, NEW n, WroteChunk(q, row, n), row.block \in Blocks,
           op.prev # NoRow => op.prev.block \in Blocks
    PROVE  DirtyOK' /\ MapStep
<1>1. MapStep
  BY MapRests DEF WroteChunk
<1>2. dirty' = dirty \cup {row.block} \/ (op.prev # NoRow /\ dirty' = dirty \cup {row.block, op.prev.block})
  BY Zenon DEF WroteChunk, ChangePages
<1>. QED
  BY <1>1, <1>2 DEF DirtyOK

\* The blocks an Add writes to are blocks of the list (record_allocator.go:82, 113, 118).
LEMMA PlaceMarks ==
    ASSUME AllocInv, Place
    PROVE  DirtyOK' /\ MapStep
<1> PICK rank : Core(rank)
  BY DEF AllocInv, CoreInv
<1> PICK q, l, n : WroteChunk(q, [block |-> op.at, local |-> l], n)
  BY Zenon DEF Place
<1>1. Placing(op, Chunks(pages), rank, ListBlocks, pages) /\ ListIs(ListBlocks, pages, first, avail, rank)
  BY CoreIs, OpByPc DEF AllocInv, Place
<1>2. op.at \in Blocks /\ ListBlocks \subseteq Blocks
  BY <1>1 DEF Placing, ListIs
<1>3. op.prev # NoRow => op.prev \in DOMAIN Chunks(pages)
  BY <1>1 DEF Placing, RowsOf
<1>4. op.prev # NoRow => op.prev.block \in Blocks
  BY <1>2, <1>3, RowIsValid DEF AllocInv
<1> PICK row : row = [block |-> op.at, local |-> l]
  OBVIOUS
<1>5. row.block \in Blocks /\ WroteChunk(q, row, n)
  BY <1>2
<1>. QED
  BY <1>4, <1>5, WroteMarks DEF AllocInv

\* So is the block of an update (record_allocator.go:82).
LEMMA RewriteMarks ==
    ASSUME AllocInv, Rewrite
    PROVE  DirtyOK' /\ MapStep
<1> PICK rank : Core(rank)
  BY DEF AllocInv, CoreInv
<1>1. Rewriting(op, Chunks(pages))
  BY CoreIs, OpByPc DEF AllocInv, Rewrite
<1>2. op.prev = NoRow /\ op.row \in DOMAIN Chunks(pages)
  BY <1>1 DEF Rewriting, Keeps, RowsOf
<1>3. op.row.block \in Blocks
  BY <1>2, RowIsValid DEF AllocInv
<1>4. (\E q, n : WroteChunk(q, op.row, n)) \/ UNCHANGED <<pages, list, dirty>>
  BY Zenon DEF Rewrite
<1>5. CASE \E q, n : WroteChunk(q, op.row, n)
  BY <1>2, <1>3, <1>5, WroteMarks DEF AllocInv
<1>6. CASE UNCHANGED <<pages, list, dirty>>
  BY <1>6, MapRests DEF AllocInv, DirtyOK
<1>. QED
  BY <1>4, <1>5, <1>6

\* The blocks before and after a freed one are of the list, or block 0 stands for none, and
\* the freed one was held (record_allocator.go:207-222).
LEMMA RemoveMarks ==
    ASSUME AllocInv, RemoveChunk
    PROVE  DirtyOK' /\ MapStep
<1> PICK rank : Core(rank)
  BY DEF AllocInv, CoreInv
<1> PICK r : r = Lib!Last(op.stack)
  OBVIOUS
<1> PICK page : page = Remove(pages[r.block], r.local)
  OBVIOUS
<1>1. Removing(op, Chunks(pages), rank) /\ ListIs(ListBlocks, pages, first, avail, rank) /\ PagesOK(pages)
  BY CoreIs, OpByPc DEF AllocInv, RemoveChunk
<1>2. r \in DOMAIN Chunks(pages)
  <2>1. Len(op.stack) \in 1 .. Len(op.stack)
    BY <1>1 DEF Removing, Stacked
  <2>. QED
    BY <2>1, <1>1 DEF Removing, Stacked, Lib!Last, RowsOf
<1>3. /\ r.block \in ListBlocks /\ r.block \in Blocks /\ r.local \in Nat
      /\ r.local + 1 \in Live(pages[r.block])
  BY <1>2, RowIsValid DEF AllocInv
<1>4. page.next = pages[r.block].next /\ page.prev = pages[r.block].prev
  <2>1. PageOK(pages[r.block])
    BY <1>1, <1>3 DEF PagesOK
  <2>. QED
    BY <2>1, <1>3, RemoveOnPage
<1>5. page.next \in {0} \cup Blocks /\ page.prev \in {0} \cup Blocks
  BY <1>1, <1>3, <1>4 DEF ListIs, ForwardLinks, BackLinks
<1>6. RemoveFromList(r.block, page) \/ (dirty' = dirty /\ UNCHANGED list)
  BY DEF RemoveChunk, ChangePages
<1>7. CASE RemoveFromList(r.block, page)
  <2>1. MapFrees(r.block)
    BY <1>3, <1>7 DEF RemoveFromList, MapFrees, ListBlocks
  <2>2. MapStep
    BY <2>1, <1>3, MapSteps DEF MapStep, AllocInv
  <2>3. dirty' = dirty \cup {page.prev, page.next, MapBlock}
    BY <1>7 DEF RemoveFromList
  <2>. QED
    BY <2>2, <2>3, <1>5 DEF AllocInv, DirtyOK, ControlBlock, MapBlock
<1>8. CASE dirty' = dirty /\ UNCHANGED list
  BY <1>8, MapRests DEF AllocInv, DirtyOK
<1>. QED
  BY <1>6, <1>7, <1>8

\* A new block and the one before it (record_allocator.go:131-149).
LEMMA ExtendMarks ==
    ASSUME AllocInv, Extend
    PROVE  DirtyOK' /\ MapStep
<1> PICK rank : Core(rank)
  BY DEF AllocInv, CoreInv
<1> PICK b \in Blocks : MapTakes(b) /\ dirty' = dirty \cup {b, op.at, ControlBlock, MapBlock}
  BY DEF Extend, MapTakes, ChangePages
<1>1. op.at \in Blocks
  <2>1. Placing(op, Chunks(pages), rank, ListBlocks, pages) /\ ListIs(ListBlocks, pages, first, avail, rank)
    BY CoreIs, OpByPc DEF AllocInv, Extend
  <2>. QED
    BY <2>1 DEF Placing, ListIs
<1>2. MapStep
  BY MapSteps DEF MapStep, AllocInv
<1>. QED
  BY <1>1, <1>2 DEF AllocInv, DirtyOK

\* Every step from a state in which no defect bites keeps the invariant.
LEMMA AllocStep ==
    ASSUME AllocInv, ~Defect /\ Next
    PROVE  AllocInv' /\ MapStep
<1>1. CoreInv /\ MapInv /\ DirtyOK
  BY DEF AllocInv
<1>2. ASSUME CoreInv', UNCHANGED list, dirty' \subseteq dirty \cup {ControlBlock} \cup index
      PROVE  AllocInv' /\ MapStep
  <2>1. MapInv' /\ MapStep
    BY <1>1, <1>2, MapRests
  <2>2. DirtyOK'
    BY <1>1, <1>2 DEF DirtyOK, MapInv
  <2>. QED
    BY <1>2, <2>1, <2>2 DEF AllocInv
<1>3. ASSUME CoreInv', MapInv', DirtyOK', MapStep
      PROVE  AllocInv' /\ MapStep
  BY <1>3 DEF AllocInv
<1>4. CASE Call
  <2>1. PICK id \in RecordIDs : (\E n \in Sizes : Insert(id, n) \/ Update(id, n)) \/ Delete(id)
    BY <1>4 DEF Call
  <2>2. ASSUME NEW n \in Sizes, Insert(id, n) PROVE AllocInv' /\ MapStep
    <3>1. CoreInv'
      BY <1>1, <2>2, InsertStep
    <3>2. UNCHANGED list /\ dirty' = dirty \cup {ControlBlock}
      BY <2>2 DEF Insert
    <3>. QED
      BY <3>1, <3>2, <1>2
  <2>3. ASSUME NEW n \in Sizes, Update(id, n) PROVE AllocInv' /\ MapStep
    <3>1. CoreInv'
      BY <1>1, <2>3, UpdateStep
    <3>2. UNCHANGED list /\ dirty' = dirty
      BY <2>3 DEF Update
    <3>. QED
      BY <3>1, <3>2, <1>2
  <2>4. ASSUME Delete(id) PROVE AllocInv' /\ MapStep
    <3>1. CoreInv'
      BY <1>1, <2>4, DeleteStep
    <3>2. UNCHANGED list /\ dirty' = dirty
      BY <2>4 DEF Delete
    <3>. QED
      BY <3>1, <3>2, <1>2
  <2>. QED
    BY <2>1, <2>2, <2>3, <2>4
<1>5. CASE Place
  BY <1>1, <1>3, <1>5, PlaceStep, PlaceMarks
<1>6. CASE MoveOn
  <2>1. CoreInv'
    BY <1>1, <1>6, MoveOnStep
  <2>2. UNCHANGED list /\ dirty' = dirty
    BY <1>6 DEF MoveOn
  <2>. QED
    BY <2>1, <2>2, <1>2
<1>7. CASE Extend
  BY <1>1, <1>3, <1>7, ExtendStep, ExtendMarks
<1>8. CASE Descend
  <2>1. CoreInv'
    BY <1>1, <1>8, DescendStep
  <2>2. UNCHANGED list /\ dirty' = dirty
    BY <1>8 DEF Descend
  <2>. QED
    BY <2>1, <2>2, <1>2
<1>9. CASE RemoveChunk
  BY <1>1, <1>3, <1>9, RemoveChunkStep, RemoveMarks
<1>10. CASE Rewrite
  <2>1. CoreInv' /\ MapInv'
    BY <1>1, <1>10, RewriteStep
  <2>. QED
    BY <2>1, <1>3, <1>10, RewriteMarks
<1>11. CASE IndexInsert
  <2>1. CoreInv'
    BY <1>1, <1>11, IndexInsertStep
  <2>2. UNCHANGED list /\ dirty' = dirty \cup index
    BY <1>11 DEF IndexInsert
  <2>. QED
    BY <2>1, <2>2, <1>2
<1>12. CASE IndexDelete
  <2>1. CoreInv'
    BY <1>1, <1>12, IndexDeleteStep
  <2>2. UNCHANGED list /\ dirty' = dirty \cup index
    BY <1>12 DEF IndexDelete
  <2>. QED
    BY <2>1, <2>2, <1>2
<1>13. CASE IndexBlocks
  <2>1. PICK b \in Blocks : IndexTakes(b) \/ IndexFrees(b)
    BY <1>13 DEF IndexBlocks
  <2>2. CoreInv' /\ MapInv'
    BY <2>1, <1>1, IndexTakesStep, IndexFreesStep
  <2>3. MapTakes(b) \/ MapFrees(b)
    BY <2>1, <1>1 DEF IndexTakes, IndexFrees, MapTakes, MapFrees, MapInv
  <2>4. MapStep
    BY <2>3, <1>1, MapSteps DEF MapStep
  <2>5. DirtyOK'
    BY <2>1, <1>1 DEF IndexTakes, IndexFrees, DirtyOK
  <2>. QED
    BY <2>2, <2>4, <2>5, <1>3
<1>. QED
  BY <1>4, <1>5, <1>6, <1>7, <1>8, <1>9, <1>10, <1>11, <1>12, <1>13 DEF Next, Step

\* A step that changes nothing.
LEMMA AllocStutters ==
    ASSUME AllocInv, UNCHANGED vars
    PROVE  AllocInv' /\ MapStep
<1>1. /\ UNCHANGED <<pages, first, avail, rows, content, op>> /\ UNCHANGED list /\ dirty' = dirty
  BY DEF vars, list
<1>2. MapInv' /\ MapStep /\ ListBlocks' = ListBlocks
  BY <1>1, MapRests, ListKept DEF AllocInv
<1>3. CoreInv'
  BY <1>1, <1>2, ListLeft DEF AllocInv
<1>. QED
  BY <1>1, <1>2, <1>3 DEF AllocInv, DirtyOK

\* AllocInv holds in every reachable state, up to a defect
\* (record_allocator.go, record_block.go, data_blocks_map.go).
THEOREM AllocInvariant == SafeSpec => []AllocInv
<1>1. AllocInv /\ [~Defect /\ Next]_vars => AllocInv'
  BY AllocStep, AllocStutters
<1>. QED
  BY <1>1, AllocInit, PTL DEF SafeSpec

\* The fields of the allocator have their types and no call panics: an update finds its
\* first chunk where it was (record_allocator.go:239-249).
THEOREM AllocatorTypes == SafeSpec => []TypeOK
<1>1. AllocInv => TypeOK
  <2> SUFFICES ASSUME AllocInv PROVE TypeOK
    OBVIOUS
  <2> PICK rank : Core(rank)
    BY DEF AllocInv, CoreInv
  <2>1. /\ PagesOK(pages) /\ ListIs(ListBlocks, pages, first, avail, rank)
        /\ OpIs(op, Chunks(pages), rank, ListBlocks, pages)
    BY CoreIs DEF AllocInv
  <2>2. first \in Blocks /\ avail \in Blocks
    BY <2>1 DEF ListIs
  <2>3. index \subseteq held /\ held \subseteq 0 .. Positions - 1
    BY DEF AllocInv, MapInv, MapProofs!Inv, MapProofs!TypeOK, MapProofs!Ids
  <2>4. ASSUME NEW b \in Blocks PROVE pages[b].used \in 0 .. PageSize
    <3>1. Packed(pages[b]) /\ pages[b].used \in Nat
      BY <2>1 DEF PagesOK, PageOK, Packed, IsPage
    <3>2. Utilization(pages[b]) <= PageSize
      BY <3>1, UtilizationFits
    <3>. QED
      BY <3>1, <3>2, PageAssumption DEF Utilization
  <2>5. op.pc \in {"idle", "place", "descend", "remove", "rewrite", "index", "unindex"}
    BY <2>1, OpByPc
  <2>6. dirty \subseteq {ControlBlock, MapBlock} \cup Blocks
    BY DEF AllocInv, DirtyOK
  <2>. QED
    BY <2>2, <2>3, <2>4, <2>5, <2>6 DEF TypeOK
<1>. QED
  BY <1>1, AllocInvariant, PTL

\* Between calls the record blocks are one list, linked both ways
\* (record_allocator.go:131-149, 181-225).
THEOREM ListStaysLinked == SafeSpec => []ListIsLinked
<1>1. AllocInv => ListIsLinked
  <2> SUFFICES ASSUME AllocInv PROVE ListIsLinked
    OBVIOUS
  <2> PICK rank : Core(rank)
    BY DEF AllocInv, CoreInv
  <2>1. ListIs(ListBlocks, pages, first, avail, rank)
    BY CoreIs DEF AllocInv
  <2>. QED
    BY <2>1 DEF ListIs, ForwardLinks, BackLinks, ListIsLinked
<1>. QED
  BY <1>1, AllocInvariant, PTL

\* Blocks without records are given back, but for the last of the list
\* (record_allocator.go:171-176).
THEOREM EmptyBlocksLeave == SafeSpec => []NoEmptyBlock
<1>1. AllocInv => NoEmptyBlock
  <2> SUFFICES ASSUME AllocInv, NEW b \in ListBlocks, b # avail PROVE TotalRecords(pages[b]) > 0
    BY DEF NoEmptyBlock
  <2> PICK rank : Core(rank)
    BY DEF AllocInv, CoreInv
  <2>1. PagesOK(pages) /\ ListIs(ListBlocks, pages, first, avail, rank)
    BY CoreIs DEF AllocInv
  <2>2. Live(pages[b]) # {} /\ IsPage(pages[b])
    BY <2>1 DEF ListIs, Filled, PagesOK, PageOK, Packed
  <2>. QED
    BY <2>2, TotalRecordsIs
<1>. QED
  BY <1>1, AllocInvariant, PTL

\* On every block, freed ones included and half way through a call, chunks share no byte
\* and none lies under the headers (record_block.go:109, 117).
THEOREM ChunksDoNotOverlap == SafeSpec => []Layout
<1>1. AllocInv => Layout
  <2>1. AllocInv => \A b \in Blocks : Packed(pages[b])
    BY DEF AllocInv, CoreInv, PagesOK, PageOK
  <2>. QED
    BY <2>1, PackedIsLaidOut DEF Layout
<1>. QED
  BY <1>1, AllocInvariant, PTL

\* The utilization of every block is the sum of the chunks on it
\* (record_block.go:103, 134, 167, 197).
THEOREM UtilizationsStayExact == SafeSpec => []UtilizationIsExact
<1>1. AllocInv => UtilizationIsExact
  <2>1. AllocInv => \A b \in Blocks : Packed(pages[b]) /\ Counted(pages[b])
    BY DEF AllocInv, CoreInv, PagesOK, PageOK, Packed
  <2>. QED
    BY <2>1, PackedCounts DEF UtilizationIsExact
<1>. QED
  BY <1>1, AllocInvariant, PTL

\* The allocator and the index take blocks from the map and give them back as the map's
\* specification allows: no block is freed that nobody holds
\* (record_allocator.go:131-149, 181-225).
THEOREM AllocatorUsesMap == SafeSpec => UsesMap
<1>1. Init => Map!Init
  BY DEF Init
<1>2. AllocInv /\ [~Defect /\ Next]_vars => [Map!Next]_<<bits, held>>
  <2> SUFFICES ASSUME AllocInv, [~Defect /\ Next]_vars PROVE MapProofs!Next \/ UNCHANGED <<bits, held>>
    BY DEF Map!Next, MapProofs!Next, Map!Allocate, MapProofs!Allocate, Map!Free, MapProofs!Free,
       Map!FirstFree, MapProofs!FirstFree, Map!AllInUse, MapProofs!AllInUse, Map!IsInUse, MapProofs!IsInUse,
       Map!BitOf, MapProofs!BitOf, Map!Ids, MapProofs!Ids
  <2>1. MapStep
    BY AllocStep, AllocStutters
  <2>. QED
    BY <2>1 DEF MapStep
<1>. QED
  BY <1>1, <1>2, AllocInvariant, PTL DEF SafeSpec, UsesMap, Map!Spec, Map!vars

-----------------------------------------------------------------------------
(* The bytes of a record                                                   *)

\* The record's chunks from row on hold the first n bytes of data: off[r] of them come
\* before chunk r.
Spelled(c, id, row, data, n, off) ==
    /\ off[row] = 0
    /\ \A r \in RowsOf(c, id) :
          /\ off[r] \in Nat /\ IsBytes(c[r].data)
          /\ \A k \in 1 .. Len(c[r].data) : data[off[r] + k] = c[r].data[k]
          /\ IF c[r].chain = NoRow THEN off[r] + Len(c[r].data) = n
             ELSE off[c[r].chain] = off[r] + Len(c[r].data)

Spells(c, id, row, data, n) == \E off : Spelled(c, id, row, data, n, off)

\* The record is what the last call that returned gave it.
RecordTold(id, rw, ct, c) ==
    IF ct[id] = Absent THEN rw[id] = NoRow
    ELSE IsBytes(ct[id]) /\ Spells(c, id, rw[id], ct[id], Len(ct[id]))

\* So is every record no call is busy with.
Told(o, rw, ct, c) == \A id \in RecordIDs : o.pc = "idle" \/ o.id # id => RecordTold(id, rw, ct, c)

\* All but the first n bytes are left to be written.
LeftAfter(o, n) ==
    /\ IsBytes(o.data) /\ n \in Nat /\ n + Len(o.rest) = Len(o.data)
    /\ \A k \in 1 .. Len(o.rest) : o.rest[k] = o.data[n + k]

\* The call has written n bytes, and still has to write the others.
Wrote(o, c, n) ==
    LeftAfter(o, n) /\ IF o.prev = NoRow THEN n = 0 ELSE Spells(c, o.id, o.row, o.data, n)

CallTold(o, c) ==
    /\ o.pc \in {"place", "descend", "remove", "rewrite"} /\ o.data # Absent => \E n : Wrote(o, c, n)
    /\ o.pc = "index" => IsBytes(o.data) /\ Spells(c, o.id, o.row, o.data, Len(o.data))

TextInv == Told(op, rows, content, Chunks(pages)) /\ CallTold(op, Chunks(pages))

\* A record whose chunks a step leaves keeps its bytes.
LEMMA SpellsSame ==
    ASSUME NEW c, NEW d, NEW id, SameOf(d, c, id), NEW row, NEW data, NEW n, Spells(c, id, row, data, n)
    PROVE  Spells(d, id, row, data, n)
<1>1. PICK off : Spelled(c, id, row, data, n, off)
  BY Zenon DEF Spells
<1>2. RowsOf(d, id) = RowsOf(c, id) /\ \A r \in RowsOf(c, id) : d[r] = c[r]
  BY Zenon DEF SameOf
<1>3. \A r \in RowsOf(d, id) : d[r].data = c[r].data /\ d[r].chain = c[r].chain
  BY <1>2, Zenon
<1>4. Spelled(d, id, row, data, n, off)
  BY <1>1, <1>2, <1>3 DEF Spelled
<1>. QED
  BY <1>4, Zenon DEF Spells

\* The records a step does not work on keep their bytes.
LEMMA OthersTold ==
    ASSUME NEW o, NEW rw, NEW ct, NEW c, Told(o, rw, ct, c),
           NEW i, NEW d, NEW place, NEW rank, Others(i, d, c, place, rank),
           o.pc = "idle" \/ o.id = i, NEW id \in RecordIDs, id # i
    PROVE  RecordTold(id, rw, ct, d)
<1>1. SameOf(d, c, id)
  BY DEF Others
<1>2. RecordTold(id, rw, ct, c)
  BY DEF Told
<1>3. \A row, data, n : Spells(c, id, row, data, n) => Spells(d, id, row, data, n)
  BY <1>1, SpellsSame
<1>. QED
  BY <1>2, <1>3, Zenon DEF RecordTold

\* The call goes on.
LEMMA ToldStep ==
    ASSUME NEW o, NEW rw, NEW ct, NEW c, Told(o, rw, ct, c),
           NEW i, NEW d, NEW place, NEW rank, Others(i, d, c, place, rank),
           o.pc = "idle" \/ o.id = i, NEW q, q.id = i, q.pc # "idle"
    PROVE  Told(q, rw, ct, d)
<1>1. ASSUME NEW id \in RecordIDs, id # i PROVE RecordTold(id, rw, ct, d)
  BY <1>1, OthersTold
<1>. QED
  BY <1>1, Zenon DEF Told

\* The call returns: the index and the caller know the row and the data.
LEMMA ToldReturn ==
    ASSUME NEW o, NEW rw, NEW ct, NEW c, Told(o, rw, ct, c),
           NEW i \in RecordIDs, NEW d, NEW place, NEW rank, Others(i, d, c, place, rank),
           o.pc = "idle" \/ o.id = i,
           rw = [id \in RecordIDs |-> rw[id]], ct = [id \in RecordIDs |-> ct[id]],
           NEW row, NEW data,
           IF data = Absent THEN row = NoRow ELSE IsBytes(data) /\ Spells(d, i, row, data, Len(data)),
           NEW rw2, rw2 = [rw EXCEPT ![i] = row], NEW ct2, ct2 = [ct EXCEPT ![i] = data]
    PROVE  Told(Idle, rw2, ct2, d)
<1>1. ASSUME NEW id \in RecordIDs, id # i PROVE RecordTold(id, rw2, ct2, d)
  <2>1. RecordTold(id, rw, ct, d)
    BY <1>1, OthersTold
  <2>2. rw2[id] = rw[id] /\ ct2[id] = ct[id]
    BY <1>1
  <2>. QED
    BY <2>1, <2>2, Zenon DEF RecordTold
<1>2. rw2[i] = row /\ ct2[i] = data
  BY Zenon
<1>3. RecordTold(i, rw2, ct2, d)
  BY <1>2, Zenon DEF RecordTold
<1>. QED
  BY <1>1, <1>3, Zenon DEF Told

-----------------------------------------------------------------------------
(* The steps that write no bytes                                           *)

\* The call is about the same bytes, at the same place in the record.
SameWords(q, o) ==
    q.id = o.id /\ q.data = o.data /\ q.rest = o.rest /\ q.row = o.row /\ q.prev = o.prev

\* What the call has written stays, as long as the record's chunks do.
LEMMA WroteSame ==
    ASSUME NEW o, NEW q, SameWords(q, o), NEW c, NEW d, NEW n, Wrote(o, c, n),
           o.prev # NoRow => SameOf(d, c, o.id)
    PROVE  Wrote(q, d, n)
<1>1. LeftAfter(q, n)
  BY DEF Wrote, LeftAfter, SameWords
<1>2. CASE o.prev = NoRow
  BY <1>1, <1>2 DEF Wrote, SameWords
<1>3. CASE o.prev # NoRow
  <2>1. Spells(c, o.id, o.row, o.data, n)
    BY <1>3 DEF Wrote
  <2>2. Spells(d, o.id, o.row, o.data, n)
    BY <1>3, <2>1, SpellsSame
  <2>. QED
    BY <1>1, <1>3, <2>2 DEF Wrote, SameWords
<1>. QED
  BY <1>2, <1>3

\* The call goes on, and writes nothing.
LEMMA TextGoesOn ==
    ASSUME TextInv, rows' = rows, content' = content,
           NEW c, c = Chunks(pages), NEW d, d = Chunks(pages'),
           op.pc \in {"place", "descend", "remove", "rewrite"},
           op'.pc \in {"place", "descend", "remove", "rewrite"}, SameWords(op', op),
           NEW place, NEW rank, Others(op.id, d, c, place, rank),
           op.data # Absent /\ op.prev # NoRow => SameOf(d, c, op.id)
    PROVE  TextInv'
<1>1. Told(op, rows, content, c) /\ CallTold(op, c)
  BY DEF TextInv
<1>2. op'.id = op.id /\ op'.data = op.data /\ op'.pc # "idle" /\ op'.pc # "index"
  BY DEF SameWords
<1>3. Told(op', rows, content, d)
  BY <1>1, <1>2, ToldStep
<1>4. CallTold(op', d)
  <2>1. ASSUME op.data # Absent PROVE \E n : Wrote(op', d, n)
    <3>1. PICK n : Wrote(op, c, n)
      BY <1>1, <2>1 DEF CallTold
    <3>2. Wrote(op', d, n)
      BY <3>1, <2>1, WroteSame
    <3>. QED
      BY <3>2
  <2>. QED
    BY <2>1, <1>2 DEF CallTold
<1>. QED
  BY <1>3, <1>4 DEF TextInv

\* A call begins; it has written nothing.
LEMMA TextBegins ==
    ASSUME TextInv, op = Idle, UNCHANGED <<pages, rows, content>>,
           op'.pc \in {"place", "descend", "rewrite"}, op'.prev = NoRow,
           op'.data # Absent => op'.rest = op'.data /\ IsBytes(op'.data)
    PROVE  TextInv'
<1> PICK c : c = Chunks(pages)
  OBVIOUS
<1>1. Told(op, rows, content, c) /\ op.pc = "idle"
  BY DEF TextInv, Idle
<1>2. Told(op', rows, content, c)
  BY <1>1, Zenon DEF Told
<1>3. CallTold(op', c)
  <2>1. ASSUME op'.data # Absent PROVE Wrote(op', c, 0)
    <3>1. op'.rest = op'.data /\ IsBytes(op'.data) /\ Len(op'.data) \in Nat
      BY <2>1 DEF IsBytes
    <3>2. LeftAfter(op', 0)
      BY <3>1 DEF LeftAfter
    <3>. QED
      BY <3>2 DEF Wrote
  <2>. QED
    BY <2>1 DEF CallTold
<1>. QED
  BY <1>2, <1>3 DEF TextInv

\* Insert, Update and Delete begin (record_allocator.go:26-30, 151-165, 227-237).
LEMMA TextCall ==
    ASSUME TextInv, Call
    PROVE  TextInv'
<1>1. PICK id \in RecordIDs : (\E n \in Sizes : Insert(id, n) \/ Update(id, n)) \/ Delete(id)
  BY DEF Call
<1>2. ASSUME NEW n \in Sizes PROVE IsBytes(Data(id, n))
  <2>1. id \in Nat \ {0} /\ n \in Nat
    BY RecordsAssumption
  <2>. QED
    BY <2>1, DataIs
<1>3. ASSUME NEW n \in Sizes, Insert(id, n) PROVE TextInv'
  <2>1. /\ op = Idle /\ UNCHANGED <<pages, rows, content>>
        /\ op'.pc = "place" /\ op'.prev = NoRow /\ op'.data = Data(id, n) /\ op'.rest = op'.data
    BY <1>3 DEF Insert
  <2>. QED
    BY <2>1, <1>2, TextBegins
<1>4. ASSUME NEW n \in Sizes, Update(id, n) PROVE TextInv'
  <2>1. /\ op = Idle /\ UNCHANGED <<pages, rows, content>>
        /\ op'.pc \in {"descend", "rewrite"} /\ op'.prev = NoRow
        /\ op'.data = Data(id, n) /\ op'.rest = op'.data
    BY <1>4 DEF Update
  <2>. QED
    BY <2>1, <1>2, TextBegins
<1>5. ASSUME Delete(id) PROVE TextInv'
  <2>1. /\ op = Idle /\ UNCHANGED <<pages, rows, content>>
        /\ op'.pc = "descend" /\ op'.prev = NoRow /\ op'.data = Absent
    BY <1>5 DEF Delete
  <2>. QED
    BY <2>1, TextBegins
<1>. QED
  BY <1>1, <1>3, <1>4, <1>5

\* A call in one of its loops has the fields of one.
LEMMA InALoop ==
    ASSUME CoreInv, op.pc \in {"place", "descend", "remove", "rewrite"}
    PROVE  Working(op)
<1> PICK rank : Core(rank)
  BY DEF CoreInv
<1> PICK c : c = Chunks(pages)
  OBVIOUS
<1>1. /\ op.pc = "place" => Placing(op, c, rank, ListBlocks, pages)
      /\ op.pc = "descend" => Descending(op, c, rank)
      /\ op.pc = "remove" => Removing(op, c, rank)
      /\ op.pc = "rewrite" => Rewriting(op, c)
  BY CoreIs, OpByPc
<1>. QED
  BY <1>1 DEF Placing, Descending, Removing, Rewriting

\* Another block is tried (record_allocator.go:102-105).
LEMMA TextMoveOn ==
    ASSUME CoreInv, TextInv, MoveOn
    PROVE  TextInv'
<1> PICK x : x = pages[op.at].next
  OBVIOUS
<1>1. /\ op.pc = "place" /\ op' = [op EXCEPT !.at = x] /\ rows' = rows /\ content' = content
      /\ pages' = pages
  BY DEF MoveOn, Continue
<1>2. Working(op)
  BY <1>1, InALoop
<1>3. SameWords(op', op) /\ op'.pc = "place"
  BY <1>1, <1>2, WorkingAt DEF SameWords
<1> PICK c : c = Chunks(pages)
  OBVIOUS
<1>4. c = Chunks(pages') /\ SameOf(c, c, op.id)
  BY <1>1 DEF SameOf
<1>5. \A rank : Others(op.id, c, c, rank, rank)
  BY NothingMoved
<1>. QED
  BY <1>1, <1>3, <1>4, <1>5, TextGoesOn

\* A block is appended (record_allocator.go:131-149).
LEMMA TextExtend ==
    ASSUME CoreInv, MapInv, TextInv, Extend, ~Defect
    PROVE  TextInv'
<1> PICK rank : Core(rank)
  BY DEF CoreInv
<1> PICK a : a = op.at
  OBVIOUS
<1> PICK b \in Blocks :
        /\ Map!FirstFree(b)
        /\ pages' = [pages EXCEPT ![b].prev = op.at, ![op.at].next = b]
        /\ op' = [op EXCEPT !.at = b] /\ rows' = rows /\ content' = content
  BY DEF Extend, ChangePages, Continue
<1> PICK c : c = Chunks(pages)
  OBVIOUS
<1>1. op.pc = "place"
  BY DEF Extend
<1>2. /\ Placing(op, c, rank, ListBlocks, pages) /\ PagesOK(pages)
      /\ ListIs(ListBlocks, pages, first, avail, rank)
  BY <1>1, CoreIs, OpByPc
<1>3. Working(op) /\ a \in ListBlocks /\ a \in Blocks
  BY <1>2 DEF Placing, ListIs
<1>4. a # b
  <2>1. b \notin held
    BY FreshBlock
  <2>. QED
    BY <2>1, <1>3 DEF ListBlocks
<1> PICK qs : qs = pages'
  OBVIOUS
<1>5. qs = [e \in Blocks |-> qs[e]] /\ Appended(qs, pages, a, b)
  <2>1. qs = [pages EXCEPT ![b].prev = a, ![a].next = b]
    OBVIOUS
  <2>2. PagesOK(pages) /\ a \in Blocks /\ b \in Blocks /\ a # b
    BY <1>2, <1>3, <1>4
  <2>3. qs = [e \in Blocks |-> qs[e]]
    BY <2>1, <2>2 DEF PagesOK
  <2>4. Appended(qs, pages, a, b)
    BY <2>1, <2>2, PagesExtended
  <2>. QED
    BY <2>3, <2>4
<1>6. c = Chunks(qs)
  <2>1. AllRelinked(qs, pages)
    BY <1>5, Zenon DEF Appended, AllRelinked
  <2>. QED
    BY <2>1, <1>2, PagesRelinked
<1>7. SameWords(op', op) /\ op'.pc = "place"
  <2>1. op' = [op EXCEPT !.at = b]
    OBVIOUS
  <2>. QED
    BY <2>1, <1>1, <1>3, WorkingAt DEF SameWords
<1>8. Others(op.id, c, c, rank, rank) /\ SameOf(c, c, op.id)
  BY NothingMoved DEF SameOf
<1>9. c = Chunks(pages')
  BY <1>6
<1>. QED
  BY <1>1, <1>7, <1>8, <1>9, TextGoesOn

\* The chunk found last is one of the record's.
LEMMA StackTop ==
    ASSUME CoreInv, NEW rank, Core(rank), op.pc \in {"descend", "remove"},
           NEW r, r = Lib!Last(op.stack)
    PROVE  /\ r \in RowsOf(Chunks(pages), op.id) /\ r \in DOMAIN Chunks(pages)
           /\ op.data # Absent => op.prev = NoRow
<1> PICK c : c = Chunks(pages)
  OBVIOUS
<1>1. Keeps(op, c) /\ Stacked(op, c, rank)
  <2>1. /\ op.pc = "descend" => Descending(op, c, rank)
        /\ op.pc = "remove" => Removing(op, c, rank)
    BY CoreIs, OpByPc
  <2>. QED
    BY <2>1 DEF Descending, Removing
<1>2. Len(op.stack) \in 1 .. Len(op.stack)
  BY <1>1 DEF Stacked
<1>3. r = op.stack[Len(op.stack)]
  BY DEF Lib!Last
<1>4. r \in RowsOf(c, op.id)
  BY <1>1, <1>2, <1>3 DEF Stacked
<1>5. op.data # Absent => op.prev = NoRow
  BY <1>1 DEF Keeps
<1>. QED
  BY <1>4, <1>5 DEF RowsOf

\* The next chunk is looked for (record_allocator.go:151-164).
LEMMA TextDescend ==
    ASSUME CoreInv, TextInv, Descend
    PROVE  TextInv'
<1> PICK rank : Core(rank)
  BY DEF CoreInv
<1> PICK r : r = Lib!Last(op.stack)
  OBVIOUS
<1> PICK t : t = ChainedRowID(pages[r.block], r.local)
  OBVIOUS
<1> PICK s : s = Append(op.stack, t)
  OBVIOUS
<1> PICK c : c = Chunks(pages)
  OBVIOUS
<1>1. op.pc = "descend" /\ pages' = pages
  BY DEF Descend
<1>2. Working(op)
  BY <1>1, InALoop
<1>3. ValidLocalID(pages[r.block], r.local)
  <2>1. r \in DOMAIN Chunks(pages)
    BY <1>1, StackTop
  <2>. QED
    BY <2>1, RowIsValid
<1>4. /\ op' = [op EXCEPT !.stack = s] \/ op' = [op EXCEPT !.pc = "remove"]
      /\ rows' = rows /\ content' = content
  BY <1>3 DEF Descend, Continue
<1>5. SameWords(op', op) /\ op'.pc \in {"descend", "remove"}
  <2>1. CASE op' = [op EXCEPT !.stack = s]
    BY <2>1, <1>1, <1>2, WorkingStack DEF SameWords
  <2>2. CASE op' = [op EXCEPT !.pc = "remove"]
    BY <2>2, <1>1, <1>2, WorkingPc DEF SameWords
  <2>. QED
    BY <1>4, <2>1, <2>2
<1>6. Others(op.id, c, c, rank, rank) /\ SameOf(c, c, op.id)
  BY NothingMoved DEF SameOf
<1>7. c = Chunks(pages')
  BY <1>1
<1>. QED
  BY <1>1, <1>4, <1>5, <1>6, <1>7, TextGoesOn

\* A chunk is removed (record_allocator.go:166-178).
LEMMA TextRemove ==
    ASSUME CoreInv, MapInv, TextInv, RemoveChunk
    PROVE  TextInv'
<1> PICK rank : Core(rank)
  BY DEF CoreInv
<1> PICK r : r = Lib!Last(op.stack)
  OBVIOUS
<1> PICK c : c = Chunks(pages)
  OBVIOUS
<1> PICK d : d = Without(c, r)
  OBVIOUS
<1> PICK s : s = Lib!Front(op.stack)
  OBVIOUS
<1>1. op.pc = "remove"
  BY DEF RemoveChunk
<1>2. Working(op)
  BY <1>1, InALoop
<1>3. r \in RowsOf(c, op.id) /\ r \in DOMAIN c /\ (op.data # Absent => op.prev = NoRow)
  BY <1>1, StackTop
<1>4. d = Chunks(pages')
  <2> PICK page : page = Remove(pages[r.block], r.local)
    OBVIOUS
  <2>1. IF TotalRecords(page) = 0 /\ page.next # 0
          THEN RemoveFromList(r.block, page)
          ELSE ChangePages([pages EXCEPT ![r.block] = Forget(page)], {}) /\ UNCHANGED list
    BY Zenon DEF RemoveChunk
  <2>. QED
    BY <2>1, <1>3, ChunkRemoved
<1>5. Others(op.id, d, c, rank, rank)
  BY <1>3, ChunkGone
<1>6. /\ rows' = rows /\ content' = content
      /\ \/ op' = [op EXCEPT !.stack = s]
         \/ op' = [op EXCEPT !.pc = "rewrite", !.stack = <<>>] /\ op.data # Absent
         \/ op' = [pc |-> "unindex", id |-> op.id]
  BY DEF RemoveChunk, Removed, Continue
<1>7. ASSUME SameWords(op', op), op'.pc \in {"remove", "rewrite"} PROVE TextInv'
  BY <1>7, <1>1, <1>3, <1>4, <1>5, <1>6, TextGoesOn
<1>8. CASE op' = [op EXCEPT !.stack = s]
  <2>1. SameWords(op', op) /\ op'.pc = "remove"
    BY <1>8, <1>1, <1>2, WorkingStack DEF SameWords
  <2>. QED
    BY <2>1, <1>7
<1>9. CASE op' = [op EXCEPT !.pc = "rewrite", !.stack = <<>>]
  <2>1. op' = [pc |-> "rewrite", id |-> op.id, stack |-> <<>>, data |-> op.data, rest |-> op.rest,
               at |-> op.at, row |-> op.row, prev |-> op.prev]
    BY <1>9, <1>2 DEF Working
  <2>2. SameWords(op', op) /\ op'.pc = "rewrite"
    BY <2>1 DEF SameWords
  <2>. QED
    BY <2>2, <1>7
<1>10. CASE op' = [pc |-> "unindex", id |-> op.id]
  <2>1. op'.pc = "unindex" /\ op'.id = op.id
    BY <1>10
  <2>2. Told(op, rows, content, c)
    BY DEF TextInv
  <2>3. Told(op', rows, content, d)
    BY <2>1, <2>2, <1>5, ToldStep
  <2>4. CallTold(op', d)
    BY <2>1 DEF CallTold
  <2>. QED
    BY <2>3, <2>4, <1>4, <1>6 DEF TextInv
<1>. QED
  BY <1>6, <1>8, <1>9, <1>10

\* The call returns, and the chunks are as they were.
LEMMA TextReturns ==
    ASSUME CoreInv, TextInv, pages' = pages, op.id \in RecordIDs, NEW row, NEW data,
           Return(op.id, row, data),
           IF data = Absent THEN row = NoRow ELSE IsBytes(data) /\ Spells(Chunks(pages), op.id, row, data, Len(data))
    PROVE  TextInv'
<1> PICK c : c = Chunks(pages)
  OBVIOUS
<1>1. /\ op' = Idle /\ rows' = [rows EXCEPT ![op.id] = row] /\ content' = [content EXCEPT ![op.id] = data]
  BY DEF Return
<1>2. rows = [id \in RecordIDs |-> rows[id]] /\ content = [id \in RecordIDs |-> content[id]]
  BY DEF CoreInv
<1>3. Told(op, rows, content, c)
  BY DEF TextInv
<1>4. \A rank : Others(op.id, c, c, rank, rank)
  BY NothingMoved
<1>5. Told(Idle, rows', content', c)
  BY <1>1, <1>2, <1>3, <1>4, ToldReturn
<1>6. CallTold(op', c)
  BY <1>1 DEF CallTold, Idle
<1>. QED
  BY <1>1, <1>5, <1>6 DEF TextInv

\* An insert returns (actions/insert.go:24).
LEMMA TextIndexInsert ==
    ASSUME CoreInv, TextInv, IndexInsert
    PROVE  TextInv'
<1> PICK rank : Core(rank)
  BY DEF CoreInv
<1> PICK c : c = Chunks(pages)
  OBVIOUS
<1>1. op.pc = "index" /\ pages' = pages /\ Return(op.id, op.row, op.data)
  BY DEF IndexInsert
<1>2. op.id \in RecordIDs /\ op.data # Absent
  <2>1. Indexing(op, c, rank)
    BY <1>1, CoreIs, OpByPc
  <2>. QED
    BY <2>1 DEF Indexing
<1>3. IsBytes(op.data) /\ Spells(c, op.id, op.row, op.data, Len(op.data))
  BY <1>1 DEF TextInv, CallTold
<1>. QED
  BY <1>1, <1>2, <1>3, TextReturns

\* A delete returns (actions/delete.go:19).
LEMMA TextIndexDelete ==
    ASSUME CoreInv, TextInv, IndexDelete
    PROVE  TextInv'
<1> PICK rank : Core(rank)
  BY DEF CoreInv
<1>1. op.pc = "unindex" /\ pages' = pages /\ Return(op.id, NoRow, Absent)
  BY DEF IndexDelete
<1>2. op.id \in RecordIDs
  <2>1. Unindexing(op, Chunks(pages))
    BY <1>1, CoreIs, OpByPc
  <2>. QED
    BY <2>1 DEF Unindexing
<1>. QED
  BY <1>1, <1>2, TextReturns

-----------------------------------------------------------------------------
(* The steps that write bytes                                              *)

\* b are the first n of the bytes s, and z the others.
Parted(s, n, b, z) ==
    /\ IsBytes(b) /\ Len(b) = n /\ \A k \in 1 .. n : b[k] = s[k]
    /\ IsBytes(z) /\ Len(z) = Len(s) - n /\ \A k \in 1 .. Len(z) : z[k] = s[n + k]

\* The bytes are cut in two (record_allocator.go:112, 121).
LEMMA BytesParted ==
    ASSUME NEW s, IsBytes(s), NEW n \in 1 .. Len(s)
    PROVE  Parted(s, n, SubSeq(s, 1, n), SubSeq(s, n + 1, Len(s)))
<1> PICK S : S = {s[k] : k \in 1 .. Len(s)}
  OBVIOUS
<1>1. s \in Seq(S)
  BY DEF IsBytes
<1> PICK l \in Nat : l = Len(s)
  BY <1>1
<1>2. n \in Nat /\ n # 0 /\ n <= l
  OBVIOUS
<1>3. /\ IsBytes(SubSeq(s, 1, n)) /\ Len(SubSeq(s, 1, n)) = n
      /\ IsBytes(SubSeq(s, n + 1, l)) /\ Len(SubSeq(s, n + 1, l)) = l - n
  BY BytesCut
<1>4. \A k \in 1 .. n : SubSeq(s, 1, n)[k] = s[k]
  BY <1>1, <1>2
<1>5. \A k \in 1 .. l - n : SubSeq(s, n + 1, l)[k] = s[n + k]
  BY <1>1, <1>2
<1>. QED
  BY <1>3, <1>4, <1>5 DEF Parted

\* s is what data has behind its first m bytes.
Follows(data, m, s) == \A k \in 1 .. Len(s) : data[m + k] = s[k]

\* The bytes written, those written next and those left are all there are.
LengthsAdd(m, n, s, d, z) ==
    m + n + Len(z) = Len(d) /\ m + n \in Nat /\ (n = Len(s) => m + n = Len(d))

\* They are, when nothing was lost so far.
LEMMA LengthsOf ==
    ASSUME NEW s, NEW d, NEW m, NEW n, NEW z, Len(s) \in Nat, Len(d) \in Nat, m \in Nat, n \in Nat,
           m + Len(s) = Len(d), n <= Len(s), Len(z) = Len(s) - n
    PROVE  LengthsAdd(m, n, s, d, z)
BY DEF LengthsAdd

\* What is written next follows what was written, and what is left follows that.
LEMMA BytesLeft ==
    ASSUME NEW o, NEW m, LeftAfter(o, m), IsBytes(o.rest), NEW n \in 1 .. Len(o.rest), NEW b, NEW z,
           Parted(o.rest, n, b, z)
    PROVE  /\ Follows(o.data, m, b) /\ Follows(o.data, m + n, z)
           /\ LengthsAdd(m, n, o.rest, o.data, z)
<1>1. /\ Len(o.rest) \in Nat /\ Len(o.data) \in Nat /\ m \in Nat /\ n \in Nat
      /\ m + Len(o.rest) = Len(o.data) /\ n <= Len(o.rest) /\ Len(z) = Len(o.rest) - n
  BY DEF LeftAfter, IsBytes, Parted
<1>2. \A k \in 1 .. Len(o.rest) : o.rest[k] = o.data[m + k]
  BY DEF LeftAfter
<1>3. ASSUME NEW k \in 1 .. Len(b) PROVE o.data[m + k] = b[k]
  <2>1. k \in 1 .. n /\ k \in 1 .. Len(o.rest)
    BY <1>1 DEF Parted
  <2>. QED
    BY <2>1, <1>2 DEF Parted
<1>4. ASSUME NEW k \in 1 .. Len(z) PROVE o.data[m + n + k] = z[k]
  <2>1. n + k \in 1 .. Len(o.rest) /\ m + (n + k) = m + n + k
    BY <1>1
  <2>2. z[k] = o.rest[n + k]
    BY DEF Parted
  <2>. QED
    BY <2>1, <2>2, <1>2
<1>5. LengthsAdd(m, n, o.rest, o.data, z)
  BY <1>1, LengthsOf
<1>. QED
  BY <1>3, <1>4, <1>5 DEF Follows

\* The first chunk of the record.
LEMMA SpellsFirst ==
    ASSUME NEW c, NEW i, NEW row, RowsOf(c, i) \subseteq {row},
           NEW e, e.id = i, e.chain = NoRow, IsBytes(e.data), NEW d, d = With(c, row, e),
           NEW data, Follows(data, 0, e.data)
    PROVE  Spells(d, i, row, data, Len(e.data))
<1> PICK off : off = [r \in {row} |-> 0]
  OBVIOUS
<1>1. DOMAIN d = DOMAIN c \cup {row} /\ d[row] = e /\ \A y \in DOMAIN c : y # row => d[y] = c[y]
  BY Zenon DEF With
<1>2. RowsOf(d, i) = {row}
  BY <1>1 DEF RowsOf
<1>3. off[row] = 0 /\ Len(e.data) \in Nat
  BY DEF IsBytes
<1>4. \A k \in 1 .. Len(e.data) : data[0 + k] = e.data[k]
  BY DEF Follows
<1>5. 0 + Len(e.data) = Len(e.data)
  BY <1>3
<1>6. Spelled(d, i, row, data, Len(e.data), off)
  BY <1>1, <1>2, <1>3, <1>4, <1>5 DEF Spelled
<1>. QED
  BY <1>6, Zenon DEF Spells

\* Only the last chunk of a record has no chunk behind it.
LEMMA LastIsOne ==
    ASSUME NEW c, NEW rank, Apart(c, rank), NEW i, Linked(c, i, rank),
           NEW r \in RowsOf(c, i), NEW t \in RowsOf(c, i), c[r].chain = NoRow, c[t].chain = NoRow
    PROVE  r = t
<1>1. rank[r.block] <= rank[t.block] /\ rank[t.block] <= rank[r.block]
  BY DEF Linked
<1>2. r \in DOMAIN c /\ t \in DOMAIN c /\ c[r].id = c[t].id
  BY DEF RowsOf
<1>3. rank[r.block] \in Nat /\ rank[t.block] \in Nat
  BY <1>2 DEF Apart
<1>. QED
  BY <1>1, <1>2, <1>3 DEF Apart

\* What the record's chunks are when one is added and the last one is wired to it.
Chained(d, c, i, row, e, last, w) ==
    /\ RowsOf(d, i) = RowsOf(c, i) \cup {row}
    /\ d[row] = e /\ d[last] = w /\ row \notin RowsOf(c, i)
    /\ \A r \in RowsOf(c, i) : r # last => d[r] = c[r]

\* So they are after both are written (record_allocator.go:116-118).
LEMMA ChainedIs ==
    ASSUME NEW c, NEW i, NEW row, row \notin DOMAIN c, NEW e, e.id = i,
           NEW last \in RowsOf(c, i), NEW w, w.id = i, NEW d, d = With(With(c, row, e), last, w)
    PROVE  Chained(d, c, i, row, e, last, w)
<1> PICK a : a = With(c, row, e)
  OBVIOUS
<1>1. DOMAIN a = DOMAIN c \cup {row} /\ a[row] = e /\ \A y \in DOMAIN c : y # row => a[y] = c[y]
  BY Zenon DEF With
<1>2. last \in DOMAIN c /\ c[last].id = i /\ last # row
  BY DEF RowsOf
<1>3. DOMAIN d = DOMAIN a \cup {last} /\ d[last] = w /\ \A y \in DOMAIN a : y # last => d[y] = a[y]
  BY Zenon DEF With
<1>4. DOMAIN d = DOMAIN c \cup {row} /\ d[row] = e /\ d[last] = w
      /\ \A y \in DOMAIN c : y # last => d[y] = c[y]
  <2>1. DOMAIN d = DOMAIN c \cup {row}
    BY <1>1, <1>2, <1>3
  <2>2. d[row] = e
    BY <1>1, <1>2, <1>3
  <2>3. \A y \in DOMAIN c : y # last => d[y] = c[y]
    BY <1>1, <1>2, <1>3
  <2>. QED
    BY <2>1, <2>2, <2>3, <1>3
<1>5. RowsOf(d, i) = RowsOf(c, i) \cup {row}
  <2>1. \A r : r \in RowsOf(d, i) <=> r \in DOMAIN d /\ d[r].id = i
    BY Zenon DEF RowsOf
  <2>2. \A r : r \in RowsOf(c, i) <=> r \in DOMAIN c /\ c[r].id = i
    BY Zenon DEF RowsOf
  <2>3. \A r : r \in RowsOf(d, i) <=> r \in RowsOf(c, i) \/ r = row
    BY <2>1, <2>2, <1>2, <1>4
  <2>. QED
    BY <2>3
<1>6. row \notin RowsOf(c, i) /\ \A r \in RowsOf(c, i) : r # last => d[r] = c[r]
  BY <1>4 DEF RowsOf
<1>. QED
  BY <1>4, <1>5, <1>6 DEF Chained

\* A chunk is added behind the others.
LEMMA SpellsNext ==
    ASSUME NEW c, NEW rank, Apart(c, rank), NEW i, NEW start, ChainIs(c, i, rank, start),
           NEW last \in RowsOf(c, i), c[last].chain = NoRow,
           NEW row, row # NoRow, NEW e, e.chain = NoRow, IsBytes(e.data),
           NEW w, w.chain = row, w.data = c[last].data,
           NEW d, Chained(d, c, i, row, e, last, w),
           NEW data, NEW m \in Nat, Spells(c, i, start, data, m),
           Follows(data, m, e.data)
    PROVE  Spells(d, i, start, data, m + Len(e.data))
<1> PICK R : R = RowsOf(c, i)
  OBVIOUS
<1>1. PICK off : Spelled(c, i, start, data, m, off)
  BY Zenon DEF Spells
<1> PICK aft : aft = [r \in R \cup {row} |-> IF r = row THEN m ELSE off[r]]
  OBVIOUS
<1>2. /\ RowsOf(d, i) = R \cup {row} /\ d[row] = e /\ d[last] = w /\ row \notin R
      /\ \A r \in R : r # last => d[r] = c[r]
      /\ \A k \in 1 .. Len(e.data) : data[m + k] = e.data[k]
  BY DEF Chained, Follows
<1>3. aft[row] = m /\ \A r \in R : aft[r] = off[r]
  BY <1>2
<1>4. Linked(c, i, rank) /\ start \in R
  BY DEF ChainIs
<1>5. /\ off[start] = 0
      /\ \A r \in R :
            /\ off[r] \in Nat /\ IsBytes(c[r].data)
            /\ \A k \in 1 .. Len(c[r].data) : data[off[r] + k] = c[r].data[k]
            /\ IF c[r].chain = NoRow THEN off[r] + Len(c[r].data) = m
               ELSE off[c[r].chain] = off[r] + Len(c[r].data)
  BY <1>1 DEF Spelled
<1>6. \A r \in R : r # last => c[r].chain \in R /\ c[r].chain # NoRow
  <2> SUFFICES ASSUME NEW r \in R, r # last PROVE c[r].chain \in R /\ c[r].chain # NoRow
    OBVIOUS
  <2>1. c[r].chain # NoRow
    BY <1>4, LastIsOne
  <2>. QED
    BY <2>1, <1>4 DEF Linked
<1>7. ASSUME NEW r \in R \cup {row}
      PROVE  /\ aft[r] \in Nat /\ IsBytes(d[r].data)
             /\ \A k \in 1 .. Len(d[r].data) : data[aft[r] + k] = d[r].data[k]
             /\ IF d[r].chain = NoRow THEN aft[r] + Len(d[r].data) = m + Len(e.data)
                ELSE aft[d[r].chain] = aft[r] + Len(d[r].data)
  <2>1. CASE r = row
    BY <2>1, <1>2, <1>3
  <2>2. CASE r = last
    <3>1. d[r].data = c[r].data /\ d[r].chain = row /\ aft[r] = off[r] /\ r \in R
      BY <2>2, <1>2, <1>3
    <3>2. off[r] + Len(c[r].data) = m
      BY <2>2, <3>1, <1>5
    <3>3. aft[d[r].chain] = aft[r] + Len(d[r].data)
      BY <3>1, <3>2, <1>3
    <3>. QED
      BY <3>1, <3>3, <1>5
  <2>3. CASE r # row /\ r # last
    <3>1. r \in R /\ d[r] = c[r] /\ aft[r] = off[r]
      BY <2>3, <1>2, <1>3
    <3>2. c[r].chain \in R /\ c[r].chain # NoRow /\ aft[c[r].chain] = off[c[r].chain]
      BY <2>3, <3>1, <1>3, <1>6
    <3>. QED
      BY <3>1, <3>2, <1>5
  <2>. QED
    BY <2>1, <2>2, <2>3
<1>8. aft[start] = 0
  BY <1>3, <1>4, <1>5
<1>9. Spelled(d, i, start, data, m + Len(e.data), aft)
  BY <1>2, <1>7, <1>8 DEF Spelled
<1>. QED
  BY <1>9, Zenon DEF Spells

\* After a chunk is written: the record is told, or what is left of it
\* (record_allocator.go:84-90, 120-125).
LEMMA TextWent ==
    ASSUME CoreInv, TextInv, Working(op), Writes(op), NEW rank, NEW d, d = Chunks(pages'),
           Others(op.id, d, Chunks(pages), rank, rank), NEW row, row # NoRow, NEW start,
           NEW n \in 1 .. Len(op.rest), WentOn(start, row, n),
           NEW m, LeftAfter(op, m), Spells(d, op.id, start, op.data, m + n)
    PROVE  TextInv'
<1> PICK c : c = Chunks(pages)
  OBVIOUS
<1> PICK z : z = SubSeq(op.rest, n + 1, Len(op.rest))
  OBVIOUS
<1>1. op.id \in RecordIDs /\ op.data # Absent /\ IsBytes(op.rest) /\ IsBytes(op.data)
  BY DEF Working, Writes, LeftAfter
<1>2. /\ IsBytes(z) /\ m + n \in Nat /\ (n = Len(op.rest) => m + n = Len(op.data))
      /\ m + n + Len(z) = Len(op.data) /\ Follows(op.data, m + n, z)
  <2> PICK b : b = SubSeq(op.rest, 1, n)
    OBVIOUS
  <2>1. Parted(op.rest, n, b, z)
    BY <1>1, BytesParted
  <2>2. LengthsAdd(m, n, op.rest, op.data, z)
    BY <1>1, <2>1, BytesLeft
  <2>3. Follows(op.data, m + n, z)
    BY <1>1, <2>1, BytesLeft
  <2>. QED
    BY <2>1, <2>2, <2>3 DEF Parted, LengthsAdd
<1>3. Told(op, rows, content, c)
  BY DEF TextInv
<1>4. Others(op.id, d, c, rank, rank)
  OBVIOUS
<1>5. ASSUME rows' = rows, content' = content, op'.id = op.id, op'.pc # "idle", CallTold(op', d)
      PROVE  TextInv'
  <2>1. Told(op', rows, content, d)
    BY <1>3, <1>4, <1>5, ToldStep
  <2>. QED
    BY <2>1, <1>5 DEF TextInv
<1>6. CASE n = Len(op.rest) /\ Present(op.id)
  <2>1. op' = Idle /\ rows' = [rows EXCEPT ![op.id] = start] /\ content' = [content EXCEPT ![op.id] = op.data]
    BY <1>6 DEF WentOn, Placed, Return
  <2>2. rows = [id \in RecordIDs |-> rows[id]] /\ content = [id \in RecordIDs |-> content[id]]
    BY DEF CoreInv
  <2>3. Spells(d, op.id, start, op.data, Len(op.data))
    BY <1>2, <1>6
  <2>4. Told(Idle, rows', content', d)
    BY <1>1, <1>3, <1>4, <2>1, <2>2, <2>3, ToldReturn
  <2>5. CallTold(op', d)
    BY <2>1 DEF CallTold, Idle
  <2>. QED
    BY <2>1, <2>4, <2>5 DEF TextInv
<1>7. CASE n = Len(op.rest) /\ ~Present(op.id)
  <2>1. /\ op' = [pc |-> "index", id |-> op.id, data |-> op.data, row |-> start]
        /\ rows' = rows /\ content' = content
    BY <1>7 DEF WentOn, Placed, Continue
  <2>2. Spells(d, op.id, start, op.data, Len(op.data))
    BY <1>2, <1>7
  <2>3. CallTold(op', d) /\ op'.id = op.id /\ op'.pc # "idle"
    BY <2>1, <2>2, <1>1 DEF CallTold
  <2>. QED
    BY <2>1, <2>3, <1>5
<1>8. CASE n # Len(op.rest)
  <2>1. /\ op' = [op EXCEPT !.rest = z, !.at = row.block, !.row = start, !.prev = row, !.pc = "place"]
        /\ rows' = rows /\ content' = content
    BY <1>8 DEF WentOn, Continue
  <2>2. op' = [pc |-> "place", id |-> op.id, stack |-> op.stack, data |-> op.data, rest |-> z,
               at |-> row.block, row |-> start, prev |-> row]
    BY <2>1 DEF Working
  <2>3. /\ op'.pc = "place" /\ op'.id = op.id /\ op'.data = op.data /\ op'.rest = z
        /\ op'.row = start /\ op'.prev = row
    BY <2>2
  <2>4. LeftAfter(op', m + n)
    BY <2>3, <1>1, <1>2 DEF LeftAfter, Follows
  <2>5. Wrote(op', d, m + n)
    BY <2>3, <2>4 DEF Wrote
  <2>6. CallTold(op', d)
    BY <2>3, <2>5 DEF CallTold
  <2>. QED
    BY <2>1, <2>3, <2>6, <1>5
<1>. QED
  BY <1>6, <1>7, <1>8

\* A chunk is written: the bytes (record_allocator.go:72-129).
LEMMA TextWriting ==
    ASSUME CoreInv, TextInv, NEW rank, Core(rank), NEW q, NEW row, NEW n, Writing(rank, q, row, n),
           op.pc \in {"place", "rewrite"}
    PROVE  TextInv'
<1> PICK c : c = Chunks(pages)
  OBVIOUS
<1> PICK i : i = op.id
  OBVIOUS
<1> PICK b : b = SubSeq(op.rest, 1, n)
  OBVIOUS
<1> PICK e : e = Chunk(i, b)
  OBVIOUS
<1>1. /\ Working(op) /\ Writes(op) /\ n \in 1 .. Len(op.rest) /\ WroteChunk(q, row, n)
  BY DEF Writing, PutChunk
<1>2. WentOn(StartIs(row), row, n)
  <2> PICK put : put = [pages EXCEPT ![row.block] = q]
    OBVIOUS
  <2>. QED
    BY <1>1, WroteChunkIs
<1>3. PICK m : Wrote(op, c, m)
  BY <1>1 DEF TextInv, CallTold, Writes
<1>4. LeftAfter(op, m) /\ m \in Nat
  BY <1>3 DEF Wrote, LeftAfter
<1>5. IsBytes(b) /\ Len(b) = n /\ Follows(op.data, m, b)
  <2>1. IsBytes(op.rest)
    BY <1>1 DEF Writes
  <2> PICK z : z = SubSeq(op.rest, n + 1, Len(op.rest))
    OBVIOUS
  <2>2. Parted(op.rest, n, b, z)
    BY <1>1, <2>1, BytesParted
  <2>3. Follows(op.data, m, b)
    BY <1>1, <1>4, <2>1, <2>2, BytesLeft
  <2>. QED
    BY <2>2, <2>3 DEF Parted
<1>6. e.id = i /\ e.chain = NoRow /\ e.data = b
  BY DEF Chunk
<1>7. ASSUME NEW d, WroteTo(rank, q, row, d), Spells(d, i, StartIs(row), op.data, m + n) PROVE TextInv'
  <2>1. d = Chunks(pages') /\ row # NoRow /\ Others(op.id, d, Chunks(pages), rank, rank)
    BY <1>7 DEF WroteTo, ChunkAdded
  <2> PICK start : start = StartIs(row)
    OBVIOUS
  <2>2. Spells(d, op.id, start, op.data, m + n) /\ WentOn(start, row, n)
    BY <1>2, <1>7
  <2>. QED
    BY <2>1, <2>2, <1>1, <1>4, TextWent
<1>8. CASE FirstChunk(row)
  <2> PICK d : d = With(c, row, e)
    OBVIOUS
  <2>1. WroteTo(rank, q, row, d) /\ StartIs(row) = row
    BY <1>8, WroteFirst
  <2>2. RowsOf(c, i) \subseteq {row} /\ m = 0
    BY <1>3, <1>8 DEF FirstChunk, Wrote
  <2>3. Follows(op.data, 0, e.data)
    BY <1>5, <1>6, <2>2
  <2>4. Spells(d, i, row, op.data, Len(e.data))
    BY <1>5, <1>6, <2>2, <2>3, SpellsFirst
  <2>5. Len(e.data) = m + n
    BY <1>1, <1>5, <1>6, <2>2
  <2>. QED
    BY <2>1, <2>4, <2>5, <1>7
<1>9. CASE NextChunk(rank, row)
  <2> PICK last : last = op.prev
    OBVIOUS
  <2> PICK start : start = op.row
    OBVIOUS
  <2>1. WroteBehind(rank, q, row, e) /\ StartIs(row) = start /\ row # NoRow
    BY <1>9, WroteNext
  <2>2. PICK w : /\ w.id = i /\ w.chain = row /\ w.data = c[last].data
                 /\ WroteTo(rank, q, row, With(With(c, row, e), last, w))
    BY <2>1, Zenon DEF WroteBehind
  <2> PICK d : d = With(With(c, row, e), last, w)
    OBVIOUS
  <2>3. /\ ChainIs(c, i, rank, start) /\ last \in RowsOf(c, i) /\ c[last].chain = NoRow
        /\ row \notin DOMAIN c /\ last # NoRow
    BY <1>9 DEF NextChunk
  <2>4. Chained(d, c, i, row, e, last, w)
    BY <1>6, <2>2, <2>3, ChainedIs
  <2>5. Apart(c, rank)
    BY CoreIs
  <2>6. Spells(c, i, start, op.data, m)
    BY <1>3, <2>3 DEF Wrote
  <2>7. IsBytes(e.data) /\ Follows(op.data, m, e.data)
    BY <1>5, <1>6
  <2>8. Spells(d, i, start, op.data, m + Len(e.data))
    BY <1>4, <1>6, <2>1, <2>2, <2>3, <2>4, <2>5, <2>6, <2>7, SpellsNext
  <2>9. Spells(d, i, start, op.data, m + n)
    BY <2>8, <1>5, <1>6
  <2>. QED
    BY <2>1, <2>2, <2>9, <1>7
<1>. QED
  BY <1>8, <1>9 DEF Writing

-----------------------------------------------------------------------------
(* Loading                                                                 *)

\* The rounds of the loader, and what they return.
LoadLoop(loaded, row) ==
    /\ loaded[0] = [row |-> row, data |-> <<>>, from |-> {}]
    /\ \A k \in 1 .. Positions : loaded[k] = LoadChunk(loaded[k - 1])
    /\ Load(row) = loaded[Positions]

\* The loader, chunk by chunk (record_loader.go:21-54).
LEMMA LoadIs ==
    ASSUME NEW row
    PROVE  \E loaded : LoadLoop(loaded, row)
<1> DEFINE start == [row |-> row, data |-> <<>>, from |-> {}]
           Turn(l) == LoadChunk(l)
           Loop(f, m) == f = [k \in 0 .. m |-> IF k = 0 THEN start ELSE Turn(f[k - 1])]
           n == Positions
           bad == {m \in 0 .. n : ~\E f : Loop(f, m)}
<1>0. n \in Nat
  BY AllocatorAssumption
<1>1. Load(row) = (CHOOSE f : Loop(f, n))[n]
  BY DEF Load
<1> HIDE DEF Turn, start, n
<1>2. \E f : Loop(f, 0)
  <2> DEFINE f == [k \in 0 .. 0 |-> start]
  <2>1. \A k \in 0 .. 0 : k = 0
    OBVIOUS
  <2>2. f = [k \in 0 .. 0 |-> IF k = 0 THEN start ELSE Turn(f[k - 1])]
    BY <2>1, Zenon
  <2>. QED
    BY <2>2
<1>3. ASSUME NEW m \in 0 .. n, m # 0, \E f : Loop(f, m - 1)
      PROVE  \E f : Loop(f, m)
  <2>1. PICK f : Loop(f, m - 1)
    BY <1>3
  <2> DEFINE g == [k \in 0 .. m |-> IF k = m THEN Turn(f[m - 1]) ELSE f[k]]
  <2>2. \A k \in 0 .. m : k # 0 => k - 1 \in 0 .. m /\ k - 1 # m
    BY <1>0, <1>3
  <2>3. ASSUME NEW k \in 0 .. m PROVE g[k] = IF k = 0 THEN start ELSE Turn(g[k - 1])
    <3>1. CASE k = m
      <4>1. g[m] = Turn(f[m - 1]) /\ g[m - 1] = f[m - 1]
        BY <1>0, <1>3, <2>2
      <4>. QED
        BY <4>1, <3>1, <1>3, Zenon
    <3>2. CASE k # m
      <4>1. k \in 0 .. m - 1 /\ g[k] = f[k]
        BY <3>2, <1>0
      <4>2. f[k] = IF k = 0 THEN start ELSE Turn(f[k - 1])
        BY <4>1, <2>1
      <4>3. k # 0 => g[k - 1] = f[k - 1]
        BY <2>2
      <4>. QED
        BY <4>1, <4>2, <4>3, Zenon
    <3>. QED
      BY <3>1, <3>2
  <2>4. g = [k \in 0 .. m |-> IF k = 0 THEN start ELSE Turn(g[k - 1])]
    <3>1. g = [k \in 0 .. m |-> g[k]]
      BY Zenon
    <3> HIDE DEF g
    <3>. QED
      BY <2>3, <3>1, Zenon
  <2>. QED
    BY <2>4
<1> HIDE DEF Loop
<1>4. bad = {}
  <2> SUFFICES ASSUME bad # {} PROVE FALSE
    OBVIOUS
  <2>1. PICK m \in bad : \A k \in bad : m <= k
    <3>1. bad \in SUBSET Nat
      BY <1>0
    <3> HIDE DEF bad
    <3>. QED
      BY <3>1, LeastNatural, Zenon
  <2>2. m # 0
    BY <1>2
  <2>3. m - 1 \in 0 .. n /\ m - 1 \notin bad
    BY <1>0, <2>1, <2>2
  <2>4. \E f : Loop(f, m - 1)
    BY <2>3, Zenon
  <2>. QED
    BY <1>3, <2>2, <2>4, Zenon
<1>5. \E f : Loop(f, n)
  <2>1. n \in 0 .. n
    BY <1>0
  <2>. QED
    BY <2>1, <1>4, Zenon
<1> DEFINE f == CHOOSE f : Loop(f, n)
<1>6. Loop(f, n)
  BY <1>5, Zenon
<1>7. Load(row) = f[n]
  BY <1>1, Zenon
<1> HIDE DEF f
<1>8. f[0] = start
  <2>1. 0 \in 0 .. n
    BY <1>0
  <2>. QED
    BY <1>6, <2>1, Zenon DEF Loop
<1>9. \A k \in 1 .. n : f[k] = Turn(f[k - 1])
  <2>1. \A k \in 1 .. n : k \in 0 .. n /\ k # 0
    BY <1>0
  <2>. QED
    BY <1>6, <2>1, Zenon DEF Loop
<1>. QED
  BY <1>7, <1>8, <1>9, Zenon DEF Turn, start, n, LoadLoop

\* Two parts put together.
Joined(u, s, t) ==
    /\ IsBytes(u) /\ Len(u) = Len(s) + Len(t)
    /\ \A k \in 1 .. Len(s) : u[k] = s[k]
    /\ \A k \in 1 .. Len(t) : u[Len(s) + k] = t[k]

\* The loader appends the bytes of a chunk (record_loader.go:38-45).
LEMMA BytesJoined ==
    ASSUME NEW s, IsBytes(s), NEW t, IsBytes(t), NEW u, u = s \o t
    PROVE  Joined(u, s, t)
<1> DEFINE S == {s[k] : k \in 1 .. Len(s)} \cup {t[k] : k \in 1 .. Len(t)}
<1>1. s \in Seq(S) /\ t \in Seq(S)
  BY SMTT(30) DEF IsBytes
<1> HIDE DEF S
<1>2. u \in Seq(S) /\ Len(u) = Len(s) + Len(t)
  BY <1>1
<1>3. \A v \in Seq(S) : IsBytes(v)
  BY DEF IsBytes
<1>4. \A k \in 1 .. Len(s) : u[k] = s[k]
  BY <1>1
<1>5. \A k \in 1 .. Len(t) : u[Len(s) + k] = t[k]
  BY <1>1
<1>. QED
  BY <1>2, <1>3, <1>4, <1>5 DEF Joined

\* Bytes that are the same one by one.
LEMMA BytesEqual ==
    ASSUME NEW s, IsBytes(s), NEW t, IsBytes(t), Len(s) = Len(t), \A k \in 1 .. Len(s) : s[k] = t[k]
    PROVE  s = t
<1>1. s = [k \in 1 .. Len(s) |-> s[k]] /\ t = [k \in 1 .. Len(s) |-> t[k]]
  BY DEF IsBytes
<1>2. [k \in 1 .. Len(s) |-> s[k]] = [k \in 1 .. Len(s) |-> t[k]]
  BY Zenon
<1>. QED
  BY <1>1, <1>2, Zenon

\* What the loader has: the bytes of the chunks that come before the one to be read next ...
BlocksOf(rs) == {r.block : r \in rs}

LoadedBefore(l, c, id, rank, data, off, k) ==
    /\ l.row \in RowsOf(c, id)
    /\ IsBytes(l.data) /\ Len(l.data) = off[l.row] /\ \A j \in 1 .. Len(l.data) : l.data[j] = data[j]
    /\ l.from = {r \in RowsOf(c, id) : rank[r.block] < rank[l.row.block]}
    /\ Cardinality(BlocksOf(l.from)) = k

\* ... or all of them.
LoadedAll(l, c, id, data) == l.row = NoRow /\ l.data = data /\ l.from = RowsOf(c, id)

\* What has been loaded is a record of three fields.
HasLoaded(l, row, data, from) == l.row = row /\ l.data = data /\ l.from = from

\* Its fields are these.
LEMMA LoadedFields ==
    ASSUME NEW row, NEW data, NEW from, NEW m, m = [row |-> row, data |-> data, from |-> from]
    PROVE  HasLoaded(m, row, data, from)
BY DEF HasLoaded

\* A chunk of a record is read (record_loader.go:27-51).
LEMMA LoadChunkIs ==
    ASSUME CoreInv, NEW rank, Core(rank), NEW l, l.row \in DOMAIN Chunks(pages)
    PROVE  HasLoaded(LoadChunk(l), Chunks(pages)[l.row].chain,
                     l.data \o Chunks(pages)[l.row].data, l.from \cup {l.row})
<1> PICK row : row = l.row
  OBVIOUS
<1> PICK c : c = Chunks(pages)
  OBVIOUS
<1>1. /\ row.block \in Blocks /\ row.local \in Nat /\ ValidLocalID(pages[row.block], row.local)
      /\ ChainedRowID(pages[row.block], row.local) = c[row].chain
  BY RowIsValid
<1>2. ReadRecordData(pages[row.block], row.local) = c[row].data
  <2>1. c[row] = Entry(pages[row.block], row.local + 1)
    <3>1. PagesOK(pages) /\ ListIs(ListBlocks, pages, first, avail, rank)
      BY CoreIs
    <3>. QED
      BY <3>1, ChunksAre
  <2>2. (row.local + 1) - 1 = row.local
    BY <1>1
  <2>3. c[row].data = ReadRecordData(pages[row.block], (row.local + 1) - 1)
    <3>1. \A p, m : Entry(p, m).data = ReadRecordData(p, m - 1)
      BY DEF Entry
    <3>. QED
      BY <2>1, <3>1, Zenon
  <2>. QED
    BY <2>2, <2>3, Zenon
<1>3. row.block # 0
  BY <1>1, BlocksAre
<1>4. LoadChunk(l) = [row |-> c[row].chain, data |-> l.data \o c[row].data, from |-> l.from \cup {row}]
  BY <1>1, <1>2, <1>3, Zenon DEF LoadChunk
<1>5. HasLoaded(LoadChunk(l), c[row].chain, l.data \o c[row].data, l.from \cup {row})
  BY <1>4, LoadedFields
<1>. QED
  BY <1>5, Zenon

\* The next chunk is read.
LEMMA LoadedMore ==
    ASSUME CoreInv, NEW rank, Core(rank), NEW c, c = Chunks(pages), NEW id, Linked(c, id, rank),
           NEW row, NEW data, IsBytes(data), NEW off, Spelled(c, id, row, data, Len(data), off),
           NEW k \in Nat, NEW l, LoadedBefore(l, c, id, rank, data, off, k), NEW m, m = LoadChunk(l)
    PROVE  LoadedBefore(m, c, id, rank, data, off, k + 1) \/ LoadedAll(m, c, id, data)
<1> PICK r : r = l.row
  OBVIOUS
<1> PICK x : x = c[r].data
  OBVIOUS
<1> PICK t : t = c[r].chain
  OBVIOUS
<1>1. /\ r \in RowsOf(c, id) /\ IsBytes(l.data) /\ Len(l.data) = off[r]
      /\ \A j \in 1 .. Len(l.data) : l.data[j] = data[j]
      /\ l.from = {u \in RowsOf(c, id) : rank[u.block] < rank[r.block]}
      /\ Cardinality(BlocksOf(l.from)) = k
  BY DEF LoadedBefore
<1>2. r \in DOMAIN c
  BY <1>1 DEF RowsOf
<1>3. m.row = t /\ m.data = l.data \o x /\ m.from = l.from \cup {r}
  <2>1. l.row \in DOMAIN Chunks(pages)
    BY <1>2
  <2>2. HasLoaded(LoadChunk(l), Chunks(pages)[l.row].chain,
                  l.data \o Chunks(pages)[l.row].data, l.from \cup {l.row})
    BY <2>1, LoadChunkIs
  <2>3. HasLoaded(m, t, l.data \o x, l.from \cup {r})
    BY <2>2, Zenon
  <2>. QED
    BY <2>3, Zenon DEF HasLoaded
<1>4. /\ off[r] \in Nat /\ IsBytes(x) /\ \A j \in 1 .. Len(x) : data[off[r] + j] = x[j]
      /\ IF t = NoRow THEN off[r] + Len(x) = Len(data) ELSE off[t] = off[r] + Len(x)
  BY <1>1 DEF Spelled
<1>5. /\ IsBytes(m.data) /\ Len(m.data) = off[r] + Len(x)
      /\ \A j \in 1 .. Len(m.data) : m.data[j] = data[j]
  <2>1. /\ IsBytes(m.data) /\ Len(m.data) = Len(l.data) + Len(x)
        /\ \A j \in 1 .. Len(l.data) : m.data[j] = l.data[j]
        /\ \A j \in 1 .. Len(x) : m.data[Len(l.data) + j] = x[j]
    <3>1. IsBytes(l.data) /\ IsBytes(x) /\ m.data = l.data \o x
      BY <1>1, <1>3, <1>4
    <3>2. Joined(m.data, l.data, x)
      BY <3>1, BytesJoined
    <3>. QED
      BY <3>2, Zenon DEF Joined
  <2>2. Len(l.data) = off[r] /\ Len(x) \in Nat /\ off[r] \in Nat
    BY <1>1, <1>4 DEF IsBytes
  <2>3. ASSUME NEW j \in 1 .. Len(m.data) PROVE m.data[j] = data[j]
    <3>1. CASE j \in 1 .. Len(l.data)
      BY <3>1, <2>1, <1>1, Zenon
    <3>2. CASE j \notin 1 .. Len(l.data)
      <4>1. PICK i \in 1 .. Len(x) : j = off[r] + i
        <5>1. PICK n \in Nat : n = off[r]
          BY <2>2, Zenon
        <5>2. PICK size \in Nat : size = Len(x)
          BY <2>2, Zenon
        <5>3. Len(m.data) = n + size /\ Len(l.data) = n
          BY <2>1, <2>2, <5>1, <5>2, Zenon
        <5>4. j \in 1 .. n + size /\ j \notin 1 .. n
          BY <3>2, <5>3, Zenon
        <5>5. j - n \in 1 .. size /\ j = n + (j - n)
          BY <5>4, SMTT(30)
        <5>. QED
          BY <5>1, <5>2, <5>5, Zenon
      <4>2. m.data[off[r] + i] = x[i]
        BY <2>1, <2>2
      <4>. QED
        BY <4>1, <4>2, <1>4
    <3>. QED
      BY <3>1, <3>2
  <2>. QED
    BY <2>1, <2>2, <2>3
<1>6. /\ \A u \in RowsOf(c, id) : rank[u.block] \in Nat /\ u.block \in Blocks
      /\ \A u, v \in RowsOf(c, id) : rank[u.block] = rank[v.block] => u = v
  <2>1. Apart(c, rank) /\ \A u \in DOMAIN c : u.block \in Blocks
    BY CoreIs, RowIsValid
  <2>. QED
    BY <2>1 DEF Apart, RowsOf
<1>7. m.from = {u \in RowsOf(c, id) : rank[u.block] <= rank[r.block]}
  <2>1. ASSUME NEW u \in RowsOf(c, id)
        PROVE  rank[u.block] <= rank[r.block] <=> rank[u.block] < rank[r.block] \/ u = r
    BY <1>1, <1>6
  <2>. QED
    BY <2>1, <1>1, <1>3
<1>8. CASE t = NoRow
  <2>1. \A u \in RowsOf(c, id) : rank[u.block] <= rank[r.block]
    BY <1>1, <1>8 DEF Linked
  <2>2. m.from = RowsOf(c, id)
    BY <2>1, <1>7
  <2>3. m.data = data
    BY <1>4, <1>5, <1>8, BytesEqual
  <2>. QED
    BY <2>2, <2>3, <1>3, <1>8 DEF LoadedAll
<1>9. CASE t # NoRow
  <2>1. /\ t \in RowsOf(c, id) /\ rank[r.block] < rank[t.block]
        /\ \A u \in RowsOf(c, id) : rank[u.block] <= rank[r.block] \/ rank[t.block] <= rank[u.block]
    BY <1>1, <1>9 DEF Linked
  <2>2. ASSUME NEW u \in RowsOf(c, id)
        PROVE  rank[u.block] <= rank[r.block] <=> rank[u.block] < rank[t.block]
    BY <2>1, <1>1, <1>6
  <2>3. m.from = {u \in RowsOf(c, id) : rank[u.block] < rank[t.block]}
    BY <2>2, <1>7
  <2>4. Cardinality(BlocksOf(m.from)) = k + 1
    <3>1. BlocksOf(m.from) = BlocksOf(l.from) \cup {r.block}
      BY <1>3 DEF BlocksOf
    <3>2. r.block \notin BlocksOf(l.from)
      BY <1>1, <1>6 DEF BlocksOf
    <3>3. IsFiniteSet(BlocksOf(l.from))
      <4>1. BlocksOf(l.from) \subseteq Blocks
        BY <1>1, <1>6 DEF BlocksOf
      <4>2. IsFiniteSet(Blocks)
        <5>1. 3 \in Int /\ Positions - 1 \in Int
          BY AllocatorAssumption
        <5>. QED
          BY <5>1, FS_Interval DEF Blocks
      <4>. QED
        BY <4>1, <4>2, FS_Subset
    <3>. QED
      BY <3>1, <3>2, <3>3, <1>1, FS_AddElement
  <2>. QED
    BY <2>1, <2>3, <2>4, <1>3, <1>4, <1>5, <1>9 DEF LoadedBefore
<1>. QED
  BY <1>8, <1>9

\* After the last chunk the loader is done.
LEMMA LoadedStays ==
    ASSUME NEW c, NEW id, NEW data, NEW l, LoadedAll(l, c, id, data)
    PROVE  LoadedAll(LoadChunk(l), c, id, data)
BY DEF LoadedAll, LoadChunk, NoRow

\* A record is read back whole, from all of its chunks (record_loader.go:21-54).
LEMMA LoadReads ==
    ASSUME CoreInv, NEW rank, Core(rank), NEW c, c = Chunks(pages), NEW id, NEW row, ChainIs(c, id, rank, row),
           NEW data, IsBytes(data), Spells(c, id, row, data, Len(data))
    PROVE  Load(row).data = data /\ Load(row).from = RowsOf(c, id)
<1> PICK off : Spelled(c, id, row, data, Len(data), off)
  BY Zenon DEF Spells
<1> PICK f : LoadLoop(f, row)
  BY LoadIs
<1> DEFINE Good(k) == LoadedBefore(f[k], c, id, rank, data, off, k) \/ LoadedAll(f[k], c, id, data)
           bad == {k \in 0 .. Positions : ~Good(k)}
<1>1. Linked(c, id, rank) /\ row \in RowsOf(c, id) /\ Positions \in Nat
  BY AllocatorAssumption DEF ChainIs
<1>2. Good(0)
  <2>1. f[0].row = row /\ f[0].data = <<>> /\ f[0].from = {}
    BY DEF LoadLoop
  <2>2. {u \in RowsOf(c, id) : rank[u.block] < rank[row.block]} = {}
    <3>1. \A u \in RowsOf(c, id) : rank[row.block] <= rank[u.block]
      BY DEF ChainIs
    <3>2. \A u \in RowsOf(c, id) : rank[u.block] \in Nat
      BY CoreIs DEF Apart, RowsOf
    <3>. QED
      BY <3>1, <3>2, <1>1
  <2>3. Cardinality(BlocksOf(f[0].from)) = 0
    BY <2>1, FS_EmptySet DEF BlocksOf
  <2>4. IsBytes(<<>>) /\ Len(<<>>) = 0 /\ off[row] = 0
    BY DEF IsBytes, Spelled
  <2>. QED
    BY <2>1, <2>2, <2>3, <2>4, <1>1 DEF LoadedBefore
<1>3. ASSUME NEW k \in 0 .. Positions, k # 0, Good(k - 1) PROVE Good(k)
  <2>1. f[k] = LoadChunk(f[k - 1]) /\ k - 1 \in Nat /\ (k - 1) + 1 = k
    BY <1>1, <1>3 DEF LoadLoop
  <2>2. CASE LoadedBefore(f[k - 1], c, id, rank, data, off, k - 1)
    <3>1. LoadedBefore(f[k], c, id, rank, data, off, (k - 1) + 1) \/ LoadedAll(f[k], c, id, data)
      BY <2>1, <2>2, <1>1, LoadedMore
    <3>. QED
      BY <2>1, <3>1
  <2>3. CASE LoadedAll(f[k - 1], c, id, data)
    BY <2>1, <2>3, LoadedStays
  <2>. QED
    BY <1>3, <2>2, <2>3
<1> HIDE DEF Good
<1>4. bad = {}
  <2> SUFFICES ASSUME bad # {} PROVE FALSE
    OBVIOUS
  <2>1. PICK m \in bad : \A k \in bad : m <= k
    <3>1. bad \in SUBSET Nat
      BY <1>1
    <3> HIDE DEF bad
    <3>. QED
      BY <3>1, LeastNatural, Zenon
  <2>2. m # 0
    BY <1>2
  <2>3. m - 1 \in 0 .. Positions /\ m - 1 \notin bad
    BY <1>1, <2>1, <2>2
  <2>. QED
    BY <1>3, <2>2, <2>3
<1>5. Good(Positions)
  BY <1>1, <1>4
<1>6. ~LoadedBefore(f[Positions], c, id, rank, data, off, Positions)
  <2> SUFFICES ASSUME LoadedBefore(f[Positions], c, id, rank, data, off, Positions) PROVE FALSE
    OBVIOUS
  <2> PICK S : S = BlocksOf(f[Positions].from)
    OBVIOUS
  <2>1. Cardinality(S) = Positions /\ f[Positions].from \subseteq RowsOf(c, id)
    BY DEF LoadedBefore
  <2>2. S \subseteq Blocks
    <3>1. \A u \in DOMAIN c : u.block \in Blocks
      BY RowIsValid
    <3>. QED
      BY <2>1, <3>1 DEF BlocksOf, RowsOf
  <2>3. IsFiniteSet(Blocks) /\ Cardinality(Blocks) = Positions - 3
    <3>1. 3 \in Int /\ Positions - 1 \in Int /\ Positions - 1 - 3 + 1 = Positions - 3 /\ 3 <= Positions - 1
      BY AllocatorAssumption
    <3>. QED
      BY <3>1, FS_Interval DEF Blocks
  <2>4. Cardinality(S) <= Cardinality(Blocks)
    BY <2>2, <2>3, FS_Subset
  <2>. QED
    BY <2>1, <2>3, <2>4, <1>1
<1>7. LoadedAll(f[Positions], c, id, data)
  BY <1>5, <1>6 DEF Good
<1>. QED
  BY <1>7 DEF LoadedAll, LoadLoop

\* No chunk is read without a row id.
LEMMA LoadNothing == Load(NoRow).from = {}
<1> PICK f : LoadLoop(f, NoRow)
  BY LoadIs
<1> DEFINE Good(k) == f[k].row = NoRow /\ f[k].from = {}
           bad == {k \in 0 .. Positions : ~Good(k)}
<1>1. Positions \in Nat
  BY AllocatorAssumption
<1>2. Good(0)
  BY DEF LoadLoop
<1>3. ASSUME NEW k \in 0 .. Positions, k # 0, Good(k - 1) PROVE Good(k)
  <2>1. f[k] = LoadChunk(f[k - 1])
    BY <1>1, <1>3 DEF LoadLoop
  <2>2. NoRow.block = 0
    BY DEF NoRow
  <2>3. f[k] = f[k - 1]
    BY <2>1, <2>2, <1>3, Zenon DEF LoadChunk
  <2>. QED
    BY <2>3, <1>3, Zenon
<1> HIDE DEF Good
<1>4. bad = {}
  <2> SUFFICES ASSUME bad # {} PROVE FALSE
    OBVIOUS
  <2>1. PICK m \in bad : \A k \in bad : m <= k
    <3>1. bad \in SUBSET Nat
      BY <1>1
    <3> HIDE DEF bad
    <3>. QED
      BY <3>1, LeastNatural, Zenon
  <2>2. m # 0
    BY <1>2
  <2>3. m - 1 \in 0 .. Positions /\ m - 1 \notin bad
    BY <1>1, <2>1, <2>2
  <2>. QED
    BY <1>3, <2>2, <2>3
<1>5. Good(Positions)
  BY <1>1, <1>4
<1>. QED
  BY <1>5, Zenon DEF LoadLoop, Good

\* Every record no call is busy with is read back whole, from all of its chunks.
LEMMA ReadsRecord ==
    ASSUME AllocInv, TextInv, NEW rank, Core(rank), NEW id \in RecordIDs, op.pc = "idle" \/ op.id # id
    PROVE  /\ Present(id) => Load(rows[id]).data = content[id]
           /\ Load(rows[id]).from = RowsOf(Chunks(pages), id)
<1> PICK c : c = Chunks(pages)
  OBVIOUS
<1>1. CoreInv
  BY DEF AllocInv
<1>2. RecordStored(id, rows, content, c, rank)
  BY <1>1, CoreIs DEF Stored
<1>3. RecordTold(id, rows, content, c)
  BY DEF TextInv, Told
<1>4. CASE Present(id)
  <2>1. ChainIs(c, id, rank, rows[id]) /\ IsBytes(content[id]) /\ Spells(c, id, rows[id], content[id], Len(content[id]))
    BY <1>2, <1>3, <1>4 DEF RecordStored, RecordTold, Present
  <2>. QED
    BY <1>1, <2>1, LoadReads
<1>5. CASE ~Present(id)
  <2>1. rows[id] = NoRow /\ RowsOf(c, id) = {}
    BY <1>2, <1>3, <1>5 DEF RecordStored, RecordTold, Present
  <2>. QED
    BY <2>1, <1>5, LoadNothing
<1>. QED
  BY <1>4, <1>5

\* What follows from the two parts of the invariant.
LEMMA TextReadsBack == AllocInv /\ TextInv => ReadBack
<1> SUFFICES ASSUME AllocInv, TextInv, NEW id \in RecordIDs, Present(id), op = Idle \/ op.id # id
             PROVE  Load(rows[id]).data = content[id]
  BY DEF ReadBack
<1> PICK rank : Core(rank)
  BY DEF AllocInv, CoreInv
<1>1. op.pc = "idle" \/ op.id # id
  BY DEF Idle
<1>. QED
  BY <1>1, ReadsRecord

\* Whatever lives on a block is read.
LEMMA TextHasNoOrphans == AllocInv /\ TextInv => NoOrphans
<1> SUFFICES ASSUME AllocInv, TextInv, op = Idle PROVE NoOrphans
  BY DEF NoOrphans
<1> PICK rank : Core(rank)
  BY DEF AllocInv, CoreInv
<1> PICK c : c = Chunks(pages)
  OBVIOUS
<1> DEFINE chunks == UNION {Load(rows[id]).from : id \in RecordIDs}
           live == UNION {{[block |-> b, local |-> i - 1] : i \in Live(pages[b])} : b \in Blocks}
           On(r, b) == \E i \in Live(pages[b]) : r = [block |-> b, local |-> i - 1]
<1>0. \A r : r \in live <=> \E b \in Blocks : On(r, b)
  OBVIOUS
<1> HIDE DEF live
<1>1. PagesOK(pages) /\ ListIs(ListBlocks, pages, first, avail, rank) /\ CoreInv
  BY CoreIs DEF AllocInv
<1>2. \A id \in RecordIDs : Load(rows[id]).from = RowsOf(c, id)
  <2>1. op.pc = "idle"
    BY DEF Idle
  <2>. QED
    BY <2>1, ReadsRecord
<1>3. \A r \in DOMAIN c : c[r].id \in RecordIDs /\ r.block \in ListBlocks
  BY <1>1, ChunksAre
<1>4. chunks = DOMAIN c
  <2>1. chunks = UNION {RowsOf(c, id) : id \in RecordIDs}
    BY <1>2, Zenon
  <2> HIDE DEF chunks
  <2>. QED
    BY <2>1, <1>3 DEF RowsOf
<1>5. \A r \in DOMAIN c : r \in live
  <2> SUFFICES ASSUME NEW r \in DOMAIN c PROVE r \in live
    OBVIOUS
  <2>1. r.block \in Blocks /\ r = [block |-> r.block, local |-> r.local]
        /\ r.local + 1 \in Live(pages[r.block]) /\ r.local \in Nat
    BY <1>1, RowIsValid
  <2>2. (r.local + 1) - 1 = r.local
    BY <2>1
  <2>3. r = [block |-> r.block, local |-> (r.local + 1) - 1]
    BY <2>1, <2>2, Zenon
  <2>4. On(r, r.block)
    BY <2>1, <2>3, Zenon
  <2>. QED
    BY <1>0, <2>1, <2>4, Zenon
<1>6. \A r \in live : r \in DOMAIN c
  <2> SUFFICES ASSUME NEW r, NEW b \in Blocks, NEW i \in Live(pages[b]), r = [block |-> b, local |-> i - 1]
               PROVE  r \in DOMAIN c
    BY <1>0
  <2>1. i \in Nat /\ i >= 1
    <3>1. IsPage(pages[b])
      BY <1>1 DEF PagesOK, PageOK, Packed
    <3>. QED
      BY <3>1, LiveIs
  <2>2. i - 1 \in Nat /\ (i - 1) + 1 = i
    BY <2>1
  <2>. QED
    BY <1>1, <2>2, RowIsChunk
<1>7. chunks = live
  BY <1>4, <1>5, <1>6, Zenon
<1>8. \A row \in chunks : row.block \in ListBlocks
  BY <1>3, <1>4, Zenon
<1>. QED
  BY <1>7, <1>8, Zenon DEF NoOrphans, live

-----------------------------------------------------------------------------
(* The theorems about what is read                                         *)

\* Every step from a state in which no defect bites keeps the bytes.
LEMMA TextStep ==
    ASSUME AllocInv, TextInv, ~Defect /\ Next
    PROVE  TextInv'
<1>1. CoreInv /\ MapInv
  BY DEF AllocInv
<1> PICK rank : Core(rank)
  BY <1>1 DEF CoreInv
<1>2. CASE Place
  <2>1. PICK q, row, n : Writing(rank, q, row, n)
    BY <1>1, <1>2, PlaceWrites
  <2>. QED
    BY <2>1, <1>1, <1>2, TextWriting DEF Place
<1>3. CASE Rewrite
  <2>1. PICK q, row, n : Writing(rank, q, row, n)
    BY <1>1, <1>3, RewriteWrites
  <2>. QED
    BY <2>1, <1>1, <1>3, TextWriting DEF Rewrite
<1>4. CASE IndexBlocks
  <2>1. UNCHANGED <<pages, rows, content, op>>
    BY <1>4 DEF IndexBlocks, IndexTakes, IndexFrees
  <2>. QED
    BY <2>1 DEF TextInv
<1>5. CASE Call
  BY <1>5, TextCall
<1>6. CASE MoveOn
  BY <1>1, <1>6, TextMoveOn
<1>7. CASE Extend
  BY <1>1, <1>7, TextExtend
<1>8. CASE Descend
  BY <1>1, <1>8, TextDescend
<1>9. CASE RemoveChunk
  BY <1>1, <1>9, TextRemove
<1>10. CASE IndexInsert
  BY <1>1, <1>10, TextIndexInsert
<1>11. CASE IndexDelete
  BY <1>1, <1>11, TextIndexDelete
<1>. QED
  BY <1>2, <1>3, <1>4, <1>5, <1>6, <1>7, <1>8, <1>9, <1>10, <1>11 DEF Next, Step

\* The chunks of every record hold its bytes, each once and in order, and those of a call
\* half way the bytes it has written (record_allocator.go:72-129, 227-250).
THEOREM TextInvariant == SafeSpec => []TextInv
<1>1. Init => TextInv
  <2> SUFFICES ASSUME Init PROVE TextInv
    OBVIOUS
  <2>1. op.pc = "idle" /\ \A id \in RecordIDs : rows[id] = NoRow /\ content[id] = Absent
    BY DEF Init, Idle
  <2>2. \A id \in RecordIDs : RecordTold(id, rows, content, Chunks(pages))
    BY <2>1, Zenon DEF RecordTold
  <2>3. CallTold(op, Chunks(pages))
    BY <2>1 DEF CallTold
  <2>. QED
    BY <2>2, <2>3, Zenon DEF TextInv, Told
<1>2. AllocInv /\ TextInv /\ [~Defect /\ Next]_vars => TextInv'
  <2> SUFFICES ASSUME AllocInv, TextInv, UNCHANGED vars PROVE TextInv'
    BY TextStep
  <2>. QED
    BY DEF vars, TextInv
<1>. QED
  BY <1>1, <1>2, AllocInvariant, PTL DEF SafeSpec

\* FindRecord returns what the last insert or update of the record stored
\* (record_loader.go:21-54, record_allocator.go:72-129).
THEOREM RecordsReadWhole == SafeSpec => []ReadBack
<1>1. AllocInv /\ TextInv => ReadBack
  BY TextReadsBack
<1>. QED
  BY <1>1, AllocInvariant, TextInvariant, PTL

\* The chunks on the blocks are those of the records the index names, and are on blocks
\* of the list: nothing is left of what was deleted or replaced
\* (record_allocator.go:151-179, 227-250).
THEOREM NothingOrphaned == SafeSpec => []NoOrphans
<1>1. AllocInv /\ TextInv => NoOrphans
  BY TextHasNoOrphans
<1>. QED
  BY <1>1, AllocInvariant, TextInvariant, PTL
=============================================================================
