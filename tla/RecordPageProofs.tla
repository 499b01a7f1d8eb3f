-------------------------- MODULE RecordPageProofs --------------------------
(***************************************************************************)
(* The theorems about one record block under inserts, updates and deletes: *)
(* its records never overlap, its utilization is exact, and every record   *)
(* reads back as last written.  They are for blocks, records and ids of    *)
(* any size, up to the two steps SafeSpec leaves out.                      *)
(***************************************************************************)
EXTENDS RecordPage, RecordBlockProofs

-----------------------------------------------------------------------------
(* The inductive invariant                                                 *)

\* Of the records c, but for record i (0: of all): each is in the header its row id l
\* names and reads back, and headers in use are those of records.
RecordsAre(p, c, l, i) ==
    /\ \A m \in 1 .. Len(p.headers) : p.headers[m].id \notin {0, i} =>
          /\ p.headers[m].id \in RecordIDs /\ c[p.headers[m].id] # Absent
          /\ l[p.headers[m].id] = m - 1 /\ p.headers[m].size # 0
    /\ \A id \in RecordIDs \ {i} : c[id] # Absent =>
          /\ l[id] \in Nat /\ l[id] + 1 <= Len(p.headers)
          /\ p.headers[l[id] + 1].id = id
          /\ ReadRecordData(p, l[id]) = c[id]

\* What holds of the block between two calls.
PageInv ==
    /\ Packed(page)
    /\ chunk = [id \in RecordIDs |-> chunk[id]]
    /\ local = [id \in RecordIDs |-> local[id]]
    /\ RecordsAre(page, chunk, local, 0)

-----------------------------------------------------------------------------
(* What the operations do to the records                                   *)

\* Bytes of no record do not matter to any (record_block.go:283-302).
LEMMA RecordsForgotten ==
    ASSUME NEW p, Packed(p), NEW q, Forgotten(q, p), NEW c, NEW l, NEW i, RecordsAre(p, c, l, i)
    PROVE  RecordsAre(q, c, l, i)
<1>1. q.headers = p.headers /\ p.headers \in Seq(HeaderRec)
  BY DEF Forgotten, Packed, IsPage
<1>2. ASSUME NEW id \in RecordIDs \ {i}, c[id] # Absent
      PROVE  ReadRecordData(q, l[id]) = c[id]
  <2> DEFINE h == l[id] + 1
  <2>1. /\ l[id] \in Nat /\ h <= Len(p.headers) /\ p.headers[h].id = id
        /\ ReadRecordData(p, l[id]) = c[id]
    BY <1>2 DEF RecordsAre
  <2>2. h \in 1 .. Len(p.headers) /\ h \in Nat \ {0} /\ h - 1 = l[id]
    BY <2>1, <1>1
  <2>3. id # 0
    BY RecordsAssumption
  <2> HIDE DEF h
  <2>4. p.headers[h].start \in Nat /\ p.headers[h].size \in Nat
    BY <2>2, <1>1, HeaderNumbers
  <2>5. \A o \in 0 .. p.headers[h].size - 1 :
           q.bytes[q.headers[h].start + o] = p.bytes[p.headers[h].start + o]
    BY <2>1, <2>2, <2>3, <1>1 DEF Forgotten
  <2> DEFINE n == p.headers[h].size
  <2>6. ReadRecordData(q, h - 1) = ReadRecordData(p, h - 1)
    <3>1. q.headers[h].size = n /\ p.headers[h].size = n /\ n \in Nat /\ q.headers[h].start \in Nat
      BY <2>4, <1>1
    <3>2. \A o \in 0 .. n - 1 : q.bytes[q.headers[h].start + o] = p.bytes[p.headers[h].start + o]
      BY <2>5
    <3> HIDE DEF n
    <3>. QED
      BY <3>1, <3>2, <2>2, <2>4, SameRead
  <2>. QED
    BY <2>1, <2>2, <2>6
<1>. QED
  BY <1>1, <1>2 DEF RecordsAre

\* No header but h has this id.
OnlyIn(q, id, h) == \A m \in 1 .. Len(q.headers) : q.headers[m].id = id => m = h

\* Once record i has left its header the others are as before, and no other header has
\* its id (record_block.go:148-205).
LEMMA RecordsVacated ==
    ASSUME NEW p, IsPage(p), NEW c, NEW l, RecordsAre(p, c, l, 0),
           NEW i \in RecordIDs, c[i] # Absent,
           NEW q, NEW e, Vacated(q, p, l[i] + 1, e), e.id \in {0, i}
    PROVE  RecordsAre(q, c, l, i) /\ OnlyIn(q, i, l[i] + 1)
<1> DEFINE h == l[i] + 1
           n == Len(p.headers)
<1>1. /\ p.headers \in Seq(HeaderRec) /\ n \in Nat
      /\ l[i] \in Nat /\ h \in 1 .. n /\ p.headers[h].id = i /\ i # 0
  <2>1. l[i] \in Nat /\ h <= n /\ p.headers[h].id = i /\ i # 0
    BY RecordsAssumption DEF RecordsAre
  <2>. QED
    BY <2>1 DEF IsPage
<1>2. /\ IsPage(q) /\ Len(q.headers) = n /\ q.headers[h] = e /\ q.bytes = p.bytes
      /\ \A m \in 1 .. n : m # h => q.headers[m] = p.headers[m]
  BY DEF Vacated
<1>3. \A m \in 1 .. n : p.headers[m].id # 0 =>
        /\ p.headers[m].id \in RecordIDs /\ c[p.headers[m].id] # Absent
        /\ l[p.headers[m].id] = m - 1 /\ p.headers[m].size # 0
  BY DEF RecordsAre
<1>4. ASSUME NEW m \in 1 .. n, q.headers[m].id \notin {0, i}
      PROVE  /\ q.headers[m].id \in RecordIDs /\ c[q.headers[m].id] # Absent
             /\ l[q.headers[m].id] = m - 1 /\ q.headers[m].size # 0
  <2>1. m # h
    BY <1>2, <1>4
  <2>2. q.headers[m] = p.headers[m]
    BY <2>1, <1>2
  <2>. QED
    BY <2>2, <1>3, <1>4
<1>5. ASSUME NEW id \in RecordIDs \ {i}, c[id] # Absent
      PROVE  /\ l[id] \in Nat /\ l[id] + 1 <= n
             /\ q.headers[l[id] + 1].id = id
             /\ ReadRecordData(q, l[id]) = c[id]
  <2>1. /\ l[id] \in Nat /\ l[id] + 1 <= n /\ p.headers[l[id] + 1].id = id
        /\ ReadRecordData(p, l[id]) = c[id]
    <3>1. id \in RecordIDs \ {0}
      BY RecordsAssumption
    <3>. QED
      BY <3>1, <1>5 DEF RecordsAre
  <2>2. l[id] + 1 \in 1 .. n /\ l[id] + 1 # h
    BY <2>1, <1>1, <1>5
  <2>3. q.headers[l[id] + 1] = p.headers[l[id] + 1]
    BY <2>2, <1>2
  <2>4. ReadRecordData(q, l[id]) = ReadRecordData(p, l[id])
    BY <2>3, <1>2, Zenon DEF ReadRecordData
  <2>. QED
    BY <2>1, <2>3, <2>4
<1>6. ASSUME NEW m \in 1 .. n, q.headers[m].id = i PROVE m = h
  <2> SUFFICES ASSUME m # h PROVE FALSE
    OBVIOUS
  <2>1. p.headers[m].id = i
    BY <1>2, <1>6
  <2>2. l[i] = m - 1
    BY <2>1, <1>1, <1>3
  <2>. QED
    BY <2>2, <1>1
<1>. QED
  BY <1>2, <1>4, <1>5, <1>6 DEF RecordsAre, OnlyIn

\* After Add record i reads back as the data given, the others as before
\* (record_block.go:72-146).
LEMMA RecordsPlaced ==
    ASSUME NEW p, IsPage(p), NEW c, NEW l, NEW i \in RecordIDs, RecordsAre(p, c, l, i),
           NEW n \in Nat \ {0}, NEW r, Added(r, p, i, Data(i, n)),
           NEW d, NEW k, d[i] = Data(i, n), k[i] = r.local,
           \A id \in RecordIDs \ {i} : d[id] = c[id] /\ k[id] = l[id]
    PROVE  RecordsAre(r.page, d, k, 0)
<1> DEFINE q == r.page
           h == r.local + 1
           data == Data(i, n)
           np == Len(p.headers)
           nq == Len(q.headers)
<1>1. /\ Len(data) = n /\ data # Absent /\ IsBytes(data) /\ i \in Nat /\ i # 0
  BY DataIs, RecordsAssumption
<1>2. p.headers \in Seq(HeaderRec) /\ np \in Nat
  BY DEF IsPage
<1>3. /\ r.local \in Nat /\ IsPlaced(q, h, p, i, data)
      /\ \A m \in 1 .. np : p.headers[m].id = i => h = m
      /\ h <= np => p.headers[h].id \in {0, i}
  BY DEF Added
<1> HIDE DEF data, q
<1>4. /\ q.headers \in Seq(HeaderRec) /\ nq \in Nat /\ np <= nq
      /\ OthersKept(q, h, p) /\ Holds(q, h, i, data)
  <2>1. nq \in Nat
    BY <1>3 DEF IsPlaced, Packed, IsPage
  <2>. QED
    BY <2>1, <1>3 DEF IsPlaced, Packed, IsPage
<1>5. /\ h \in 1 .. nq /\ q.headers[h].id = i /\ q.headers[h].size = n
      /\ \A o \in 0 .. n - 1 : q.bytes[q.headers[h].start + o] = data[o + 1]
  BY <1>1, <1>4 DEF Holds
<1>6. ASSUME NEW m \in 1 .. nq, q.headers[m].id # 0
      PROVE  /\ q.headers[m].id \in RecordIDs /\ d[q.headers[m].id] # Absent
             /\ k[q.headers[m].id] = m - 1 /\ q.headers[m].size # 0
  <2>1. CASE m = h
    <3>1. q.headers[m].id = i /\ q.headers[m].size = n
      BY <2>1, <1>5
    <3>2. d[i] = data
      BY DEF data
    <3>. QED
      BY <3>1, <3>2, <2>1, <1>1, <1>3
  <2>2. CASE m # h
    <3>1. /\ m \in 1 .. np /\ q.headers[m].id = p.headers[m].id
          /\ p.headers[m].id # 0 => q.headers[m].size = p.headers[m].size
      BY <2>2, <1>2, <1>4 DEF OthersKept
    <3>2. p.headers[m].id # 0 /\ p.headers[m].id # i
      BY <3>1, <2>2, <1>3, <1>6
    <3>3. /\ p.headers[m].id \in RecordIDs /\ c[p.headers[m].id] # Absent
          /\ l[p.headers[m].id] = m - 1 /\ p.headers[m].size # 0
      BY <3>1, <3>2 DEF RecordsAre
    <3>. QED
      BY <3>1, <3>2, <3>3
  <2>. QED
    BY <2>1, <2>2
<1>7. ASSUME NEW id \in RecordIDs, d[id] # Absent
      PROVE  /\ k[id] \in Nat /\ k[id] + 1 <= nq
             /\ q.headers[k[id] + 1].id = id
             /\ ReadRecordData(q, k[id]) = d[id]
  <2>1. CASE id = i
    <3>1. k[id] = r.local /\ d[id] = data
      BY <2>1 DEF data
    <3>2. q.headers[h].start \in Nat /\ h \in Nat \ {0} /\ h - 1 = r.local
      <4>1. q.headers[h] \in HeaderRec
        BY <1>4, <1>5
      <4>2. q.headers[h].start \in Nat
        BY <4>1, HeaderNumbers
      <4>. QED
        BY <4>2, <1>3
    <3>3. ReadRecordData(q, h - 1) = data
      <4>1. ReadsAs(q, h, data)
        BY <1>1, <1>4, ReadIs
      <4>. QED
        BY <4>1 DEF ReadsAs
    <3>. QED
      BY <3>1, <3>2, <3>3, <2>1, <1>3, <1>5
  <2>2. CASE id # i
    <3>1. d[id] = c[id] /\ k[id] = l[id]
      BY <2>2
    <3> DEFINE m == l[id] + 1
    <3>2. /\ l[id] \in Nat /\ m <= np /\ p.headers[m].id = id
          /\ ReadRecordData(p, l[id]) = c[id]
      BY <3>1, <2>2, <1>7 DEF RecordsAre
    <3>3. m \in 1 .. np /\ m \in 1 .. nq /\ m - 1 = l[id] /\ m \in Nat \ {0} /\ id # 0
      BY <3>2, <1>2, <1>4, RecordsAssumption, SMTT(30)
    <3> HIDE DEF m
    <3>4. m # h
      BY <3>2, <3>3, <2>2, <1>3
    <3> DEFINE z == p.headers[m].size
    <3>5. /\ q.headers[m].id = id /\ q.headers[m].size = z
          /\ \A o \in 0 .. z - 1 : q.bytes[q.headers[m].start + o] = p.bytes[p.headers[m].start + o]
      BY <3>2, <3>3, <3>4, <1>4 DEF OthersKept
    <3>6. z \in Nat /\ p.headers[m].start \in Nat /\ q.headers[m].start \in Nat /\ p.headers[m].size = z
      BY <3>3, <1>2, <1>4, HeaderNumbers
    <3> HIDE DEF z
    <3>7. ReadRecordData(q, m - 1) = ReadRecordData(p, m - 1)
      BY <3>3, <3>5, <3>6, SameRead
    <3>8. k[id] \in Nat /\ k[id] + 1 = m /\ k[id] + 1 <= nq
      BY <3>1, <3>2, <3>3
    <3>. QED
      BY <3>1, <3>2, <3>3, <3>5, <3>7, <3>8
  <2>. QED
    BY <2>1, <2>2
<1>8. RecordsAre(q, d, k, 0)
  BY <1>6, <1>7 DEF RecordsAre
<1>. QED
  BY <1>8 DEF q

\* A block and a record new to it: Add may be called (record_allocator.go:77-92).
LEMMA NewRecordReady ==
    ASSUME NEW p, Packed(p), NEW c, NEW l, RecordsAre(p, c, l, 0),
           NEW i \in RecordIDs, c[i] = Absent
    PROVE  \E z, E : Ready(p, z, E, i)
<1>1. PICK E : Fill(p.headers, SizesOf(p.headers), E)
  BY DEF Packed
<1> DEFINE z == SizesOf(p.headers)
           n == Len(p.headers)
<1>2. IsPage(p) /\ Counted(p)
  BY DEF Packed
<1>3. \A m \in 1 .. n : z[m] = p.headers[m].size
  BY DEF SizesOf
<1>4. \A m \in 1 .. n : p.headers[m].id # 0 => p.headers[m].id # i /\ p.headers[m].size # 0
  BY DEF RecordsAre
<1>5. i # 0
  BY RecordsAssumption
<1>6. Owned(p.headers, z)
  <2> HIDE DEF z
  <2>. QED
    BY <1>3, <1>4 DEF Owned
<1>7. Ready(p, z, E, i)
  <2> HIDE DEF z
  <2>1. Fill(p.headers, z, E)
    BY <1>1 DEF z
  <2>2. \A m \in 1 .. n : p.headers[m].id # i
    BY <1>4, <1>5
  <2>. QED
    BY <2>1, <2>2, <1>2, <1>4, <1>6 DEF Ready
<1>. QED
  BY <1>7

\* A block one of whose records has been soft removed: Add may be called for that record
\* (record_allocator.go:231-247).
LEMMA SoftRemovedReady ==
    ASSUME NEW p, Packed(p), NEW c, NEW l, RecordsAre(p, c, l, 0),
           NEW i \in RecordIDs, c[i] # Absent,
           NEW q, NEW e, Vacated(q, p, l[i] + 1, e), e.id = i, e.size = 0
    PROVE  \E z, E : Ready(q, z, E, i)
<1>1. PICK E : Fill(p.headers, SizesOf(p.headers), E)
  BY DEF Packed
<1> DEFINE z == SizesOf(p.headers)
           n == Len(p.headers)
           h == l[i] + 1
<1>2. /\ IsPage(q) /\ Counted(q) /\ Len(q.headers) = n /\ Fill(q.headers, z, E)
      /\ q.headers[h] = e
      /\ \A m \in 1 .. n : m # h => q.headers[m] = p.headers[m]
  BY <1>1 DEF Vacated
<1>3. RecordsAre(q, c, l, i) /\ \A m \in 1 .. n : q.headers[m].id = i => m = h
  <2>1. IsPage(p) /\ e.id \in {0, i}
    BY DEF Packed
  <2> HIDE DEF z
  <2>2. RecordsAre(q, c, l, i)
    BY <2>1, RecordsVacated
  <2>3. OnlyIn(q, i, l[i] + 1)
    BY <2>1, RecordsVacated
  <2>. QED
    BY <2>2, <2>3, <1>2 DEF OnlyIn
<1>4. \A m \in 1 .. n : p.headers[m].id # 0 => p.headers[m].size # 0
  BY DEF RecordsAre
<1>5. h \in 1 .. n /\ p.headers[h].id = i /\ i # 0
  <2>1. l[i] \in Nat /\ h <= n /\ p.headers[h].id = i /\ i # 0
    BY RecordsAssumption DEF RecordsAre
  <2>. QED
    BY <2>1, <1>2 DEF IsPage
<1>6. \A m \in 1 .. n : z[m] = p.headers[m].size
  BY DEF SizesOf
<1> HIDE DEF z, h
<1>7. ASSUME NEW m \in 1 .. n
      PROVE  /\ q.headers[m].size # 0 => z[m] = q.headers[m].size
             /\ q.headers[m].id = 0 /\ q.headers[m].size = 0 => z[m] = 0
             /\ q.headers[m].id # 0 => z[m] # 0
  <2>1. CASE m = h
    BY <2>1, <1>2, <1>4, <1>5, <1>6
  <2>2. CASE m # h
    BY <2>2, <1>2, <1>4, <1>6
  <2>. QED
    BY <2>1, <2>2
<1>8. Owned(q.headers, z)
  BY <1>2, <1>7 DEF Owned
<1>9. \A m \in 1 .. n : q.headers[m].id \notin {0, i} => q.headers[m].size # 0
  BY <1>2, <1>3 DEF RecordsAre
<1>10. \A m \in 1 .. n : q.headers[m].id = i => q.headers[m].size = 0
  BY <1>2, <1>3
<1>11. Ready(q, z, E, i)
  BY <1>2, <1>3, <1>8, <1>9, <1>10 DEF Ready
<1>. QED
  BY <1>11

-----------------------------------------------------------------------------
(* The invariant holds                                                     *)

\* A new block file has no records (simplejsondb.go:48-60, data_block.go:14-20).
LEMMA InitInv == Init => PageInv
<1> SUFFICES ASSUME Init PROVE PageInv
  OBVIOUS
<1>1. PICK next \in Links, prev \in Links : page = [EmptyPage EXCEPT !.next = next, !.prev = prev]
  BY DEF Init
<1> DEFINE bs == [a \in Addresses |-> ZeroByte]
           empty(x, y) == [bytes |-> bs, headers |-> <<>>, used |-> 0, next |-> x, prev |-> y]
<1>2. page = empty(next, prev)
  <2>1. EmptyPage = empty(0, 0)
    BY Zenon DEF EmptyPage, Addresses
  <2> HIDE DEF bs
  <2>2. [EmptyPage EXCEPT !.next = next] = empty(next, 0)
    BY <2>1
  <2>3. [empty(next, 0) EXCEPT !.prev = prev] = empty(next, prev)
    OBVIOUS
  <2>4. [EmptyPage EXCEPT !.next = next, !.prev = prev] = empty(next, prev)
    <3> HIDE DEF empty
    <3>. QED
      BY <2>2, <2>3
  <2>. QED
    BY <2>4, <1>1
<1>3. bs = [a \in Addresses |-> bs[a]]
  OBVIOUS
<1> HIDE DEF bs
<1>4. page.bytes = bs /\ page.headers = <<>> /\ page.used = 0 /\ page.next = next /\ page.prev = prev
  BY <1>2, PageFields, Zenon
<1>5. IsPage(page)
  BY <1>2, <1>3, <1>4 DEF IsPage
<1>6. Len(page.headers) = 0
  BY <1>4
<1>7. Fill(page.headers, SizesOf(page.headers), 0)
  BY <1>6, PageAssumption DEF Fill, Addresses
<1>8. Cardinality(LiveKeys(page.headers)) = 0
  <2>1. LiveKeys(page.headers) = {}
    BY <1>6 DEF LiveKeys
  <2>. QED
    BY <2>1, FS_EmptySet
<1>9. 0 + MinUsed + 0 * HeaderSize <= PageSize /\ Utilization(page) = MinUsed + 0 * HeaderSize + 0
  BY <1>4, PageAssumption DEF Utilization
<1>10. Packed(page)
  BY <1>5, <1>6, <1>7, <1>8, <1>9 DEF Packed, Counted
<1>11. chunk = [id \in RecordIDs |-> Absent] /\ local = [id \in RecordIDs |-> 0]
  BY DEF Init
<1>12. RecordsAre(page, chunk, local, 0)
  BY <1>6, <1>11 DEF RecordsAre
<1>. QED
  BY <1>10, <1>11, <1>12 DEF PageInv

\* Adding what fits of a record keeps the block in order, and gives a record that has a
\* header its own again (record_allocator.go:77-92, 231-247; record_block.go:72-146).
LEMMA AddKeepsInv ==
    ASSUME PageInv, NEW i \in RecordIDs,
           NEW p, RecordsAre(p, chunk, local, i), \E z, E : Ready(p, z, E, i),
           NEW n \in Nat \ {0}, n <= FreeSpaceForInsert(p),
           NEW r \in Add(p, i, Data(i, n)),
           page' = Forget(r.page),
           local' = [local EXCEPT ![i] = r.local],
           chunk' = [chunk EXCEPT ![i] = Data(i, n)]
    PROVE  /\ PageInv'
           /\ \A m \in 1 .. Len(p.headers) : p.headers[m].id = i => r.local = m - 1
<1> DEFINE data == Data(i, n)
<1>1. i \in Nat \ {0} /\ Len(data) = n
  BY RecordsAssumption, DataIs
<1>2. PICK z, E : Ready(p, z, E, i)
  OBVIOUS
<1>3. Added(r, p, i, data)
  BY <1>1, <1>2, AddIs
<1>4. Packed(r.page)
  BY <1>3 DEF Added, IsPlaced
<1>5. IsPage(p)
  BY <1>2 DEF Ready
<1>6. /\ chunk = [id \in RecordIDs |-> chunk[id]] /\ local = [id \in RecordIDs |-> local[id]]
  BY DEF PageInv
<1> HIDE DEF data
<1>7. /\ chunk'[i] = data /\ local'[i] = r.local
      /\ \A id \in RecordIDs \ {i} : chunk'[id] = chunk[id] /\ local'[id] = local[id]
      /\ chunk' = [id \in RecordIDs |-> chunk'[id]] /\ local' = [id \in RecordIDs |-> local'[id]]
  BY <1>6 DEF data
<1>8. RecordsAre(r.page, chunk', local', 0)
  BY <1>3, <1>5, <1>7, RecordsPlaced DEF data
<1>9. Forgotten(page', r.page) /\ Packed(page')
  BY <1>4, ForgetIs
<1>10. RecordsAre(page', chunk', local', 0)
  BY <1>4, <1>8, <1>9, RecordsForgotten
<1>11. PageInv'
  BY <1>7, <1>9, <1>10 DEF PageInv
<1>12. ASSUME NEW m \in 1 .. Len(p.headers), p.headers[m].id = i PROVE r.local = m - 1
  BY <1>3, <1>12 DEF Added
<1>. QED
  BY <1>11, <1>12

\* Insert (record_allocator.go:66-110).
LEMMA InsertKeepsInv ==
    ASSUME PageInv, NEW i \in RecordIDs, NEW n \in Sizes, Insert(i, n)
    PROVE  PageInv'
<1> DEFINE m == Shorter(n, FreeSpaceForInsert(page))
<1>1. Packed(page) /\ RecordsAre(page, chunk, local, 0)
  BY DEF PageInv
<1>2. FreeSpaceForInsert(page) \in Nat
  BY <1>1, UtilizationFits, FreeSpaceIs
<1>3. chunk[i] = Absent /\ FreeSpaceForInsert(page) > 0
  BY DEF Insert, Present
<1>4. m \in Nat \ {0} /\ m <= FreeSpaceForInsert(page)
  BY <1>2, <1>3, RecordsAssumption DEF Shorter
<1>5. PICK r \in Add(page, i, Data(i, m)) :
        /\ page' = Forget(r.page)
        /\ local' = [local EXCEPT ![i] = r.local]
        /\ chunk' = [chunk EXCEPT ![i] = Data(i, m)]
  BY DEF Insert
<1>6. RecordsAre(page, chunk, local, i)
  <2>1. i # 0
    BY RecordsAssumption
  <2>. QED
    BY <1>1, <2>1, RecordsAssumption DEF RecordsAre
<1>7. \E z, E : Ready(page, z, E, i)
  BY <1>1, <1>3, NewRecordReady
<1> HIDE DEF m
<1>. QED
  BY <1>4, <1>5, <1>6, <1>7, AddKeepsInv

\* SoftRemove that cuts no id hits only its own header
\* (record_block.go:175-205).
LEMMA SoftRemoveHits ==
    ASSUME PageInv, NEW i \in RecordIDs, Present(i), ~IdCut(i)
    PROVE  Vacated(SoftRemove(page, local[i]), page, local[i] + 1,
                   [page.headers[local[i] + 1] EXCEPT !.size = 0, !.chain = NoRow])
<1> DEFINE l == local[i]
           hs == page.headers
<1>1. IsPage(page) /\ Counted(page) /\ RecordsAre(page, chunk, local, 0) /\ hs \in Seq(HeaderRec)
  BY DEF PageInv, Packed, IsPage
<1>2. i # 0 /\ chunk[i] # Absent
  BY RecordsAssumption DEF Present
<1>3. l \in Nat /\ l + 1 <= Len(hs) /\ hs[l + 1].id = i
  BY <1>1, <1>2 DEF RecordsAre
<1>4. l + 1 \in 1 .. Len(hs)
  BY <1>1, <1>3
<1>5. ASSUME l # 0 PROVE hs[l].id < LowIDs
  <2>1. l \in 1 .. Len(hs)
    BY <1>3, <1>4, <1>5
  <2>2. hs[l].id \in Nat
    BY <1>1, <2>1, HeaderNumbers
  <2>3. ~(hs[l].id >= LowIDs)
    BY <1>5 DEF IdCut, CutsID
  <2>. QED
    BY <2>2, <2>3, PageAssumption
<1> HIDE DEF l
<1>6. hs[l + 1].id # 0
  BY <1>2, <1>3
<1>7. Vacated(SoftRemove(page, l), page, l + 1, [hs[l + 1] EXCEPT !.size = 0, !.chain = NoRow])
  BY <1>1, <1>3, <1>4, <1>5, <1>6, SoftRemoveIs
<1>. QED
  BY <1>7 DEF l

\* Update, which leaves the record where it was (record_allocator.go:214-247).
LEMMA UpdateKeepsInv ==
    ASSUME PageInv, NEW i \in RecordIDs, ~IdCut(i), NEW n \in Sizes, Update(i, n), NoEmptyChunk'
    PROVE  PageInv' /\ local' = local
<1> DEFINE h == local[i] + 1
           e == [page.headers[h] EXCEPT !.size = 0, !.chain = NoRow]
           soft == SoftRemove(page, local[i])
           m == Shorter(n, FreeSpaceForInsert(soft))
<1>1. Packed(page) /\ RecordsAre(page, chunk, local, 0) /\ IsPage(page) /\ page.headers \in Seq(HeaderRec)
  BY DEF PageInv, Packed, IsPage
<1>2. chunk[i] # Absent /\ i # 0
  BY RecordsAssumption DEF Update, Present
<1>3. Vacated(soft, page, h, e)
  BY <1>2, SoftRemoveHits DEF Present
<1>4. local[i] \in Nat /\ h \in 1 .. Len(page.headers) /\ page.headers[h].id = i
  <2>1. local[i] \in Nat /\ local[i] + 1 <= Len(page.headers) /\ page.headers[h].id = i
    BY <1>1, <1>2 DEF RecordsAre
  <2>. QED
    BY <2>1, <1>1
<1>5. page.headers[h] \in HeaderRec
  BY <1>1, <1>4
<1>6. e.id = i /\ e.size = 0
  BY <1>4, <1>5 DEF HeaderRec
<1>7. PICK r \in Add(soft, i, Data(i, m)) :
        /\ page' = Forget(r.page)
        /\ local' = [local EXCEPT ![i] = r.local]
        /\ chunk' = [chunk EXCEPT ![i] = Data(i, m)]
  BY DEF Update
<1> HIDE DEF soft, e
<1>8. RecordsAre(soft, chunk, local, i)
  <2>1. e.id \in {0, i}
    BY <1>6
  <2>. QED
    BY <2>1, <1>1, <1>2, <1>3, RecordsVacated
<1>9. \E z, E : Ready(soft, z, E, i)
  BY <1>1, <1>2, <1>3, <1>6, SoftRemovedReady
<1>10. FreeSpaceForInsert(soft) \in Nat
  <2>1. Utilization(soft) = Utilization(page) - page.headers[h].size
    BY <1>3 DEF Vacated
  <2>2. Utilization(page) \in Nat /\ Utilization(page) <= PageSize
    BY <1>1, UtilizationFits
  <2>3. page.headers[h].size \in Nat
    BY <1>5, HeaderNumbers
  <2>4. Utilization(soft) \in Nat
    <3> DEFINE room == Len(soft.headers) * HeaderSize
               K == Cardinality(LiveKeys(soft.headers))
    <3>1. Utilization(soft) = MinUsed + room + K /\ soft.headers \in Seq(HeaderRec)
      BY <1>3 DEF Vacated, Counted, IsPage
    <3>2. K \in Nat /\ Len(soft.headers) \in Nat
      BY <3>1, KeysAreFinite
    <3>3. room \in Nat /\ MinUsed \in Nat
      BY <3>2, PageAssumption
    <3> HIDE DEF room, K
    <3>. QED
      BY <3>1, <3>2, <3>3
  <2>5. Utilization(soft) <= PageSize
    BY <2>1, <2>2, <2>3, PageAssumption
  <2>. QED
    BY <2>4, <2>5, FreeSpaceIs
<1>11. m \in Nat /\ m <= FreeSpaceForInsert(soft)
  BY <1>10, RecordsAssumption DEF Shorter
<1> HIDE DEF m
<1>12. chunk = [id \in RecordIDs |-> chunk[id]] /\ local = [id \in RecordIDs |-> local[id]]
  BY DEF PageInv
<1>13. m # 0
  <2>1. chunk'[i] = Data(i, m) /\ chunk'[i] # <<>>
    BY <1>7, <1>12 DEF NoEmptyChunk
  <2>. QED
    BY <2>1, <1>2, <1>11, DataIs, RecordsAssumption
<1>14. PageInv' /\ \A k \in 1 .. Len(soft.headers) : soft.headers[k].id = i => r.local = k - 1
  BY ZenonT(30), <1>7, <1>8, <1>9, <1>11, <1>13, AddKeepsInv
<1>15. r.local = local[i]
  <2>1. h \in 1 .. Len(soft.headers) /\ soft.headers[h].id = i
    BY <1>3, <1>4, <1>6 DEF Vacated
  <2>. QED
    BY <2>1, <1>4, <1>14
<1>16. local' = local
  BY <1>7, <1>12, <1>15
<1>. QED
  BY <1>14, <1>16

\* Delete, which clears the block when nothing is left and it is unlinked
\* (record_allocator.go:257-277; record_block.go:148-173, 205-208).
LEMMA DeleteKeepsInv ==
    ASSUME PageInv, NEW i \in RecordIDs, Delete(i)
    PROVE  PageInv' /\ local' = local
<1> DEFINE l == local[i]
           h == l + 1
           e == [page.headers[h] EXCEPT !.id = 0]
           p == Remove(page, l)
           n == Len(page.headers)
<1>1. Packed(page) /\ RecordsAre(page, chunk, local, 0) /\ IsPage(page) /\ Counted(page)
      /\ page.headers \in Seq(HeaderRec) /\ n \in Nat
  BY DEF PageInv, Packed, IsPage
<1>2. chunk[i] # Absent /\ i # 0
  BY RecordsAssumption DEF Delete, Present
<1>3. l \in Nat /\ h \in 1 .. n /\ page.headers[h].id = i
  <2>1. l \in Nat /\ h <= n /\ page.headers[h].id = i
    BY <1>1, <1>2 DEF RecordsAre
  <2>. QED
    BY <2>1, <1>1
<1>4. page.headers[h] \in HeaderRec
  BY <1>1, <1>3
<1>5. e.id = 0 /\ e.size = page.headers[h].size
  BY <1>4 DEF HeaderRec
<1>6. Vacated(p, page, h, e)
  BY <1>1, <1>2, <1>3, RemoveIs
<1>7. /\ page' = IF TotalRecords(p) = 0 /\ p.next # 0 THEN Forget(Clear(p)) ELSE Forget(p)
      /\ chunk' = [chunk EXCEPT ![i] = Absent]
      /\ local' = local
  BY DEF Delete
<1> HIDE DEF p, e
<1>8. chunk = [id \in RecordIDs |-> chunk[id]] /\ local = [id \in RecordIDs |-> local[id]]
  BY DEF PageInv
<1>9. /\ chunk'[i] = Absent /\ \A id \in RecordIDs \ {i} : chunk'[id] = chunk[id]
      /\ chunk' = [id \in RecordIDs |-> chunk'[id]] /\ local' = [id \in RecordIDs |-> local'[id]]
  BY <1>7, <1>8
<1>10. IsPage(p) /\ Counted(p) /\ Len(p.headers) = n /\ p.headers[h] = e
       /\ \A m \in 1 .. n : m # h => p.headers[m] = page.headers[m]
  BY <1>6 DEF Vacated
<1>11. Packed(p)
  <2>1. PICK E : /\ Fill(page.headers, SizesOf(page.headers), E)
                 /\ E + MinUsed + Len(page.headers) * HeaderSize <= PageSize
    BY <1>1 DEF Packed
  <2>2. Fill(p.headers, SizesOf(page.headers), E)
    BY <2>1, <1>6 DEF Vacated
  <2>3. SizesOf(p.headers) = SizesOf(page.headers)
    <3>1. \A m \in 1 .. n : p.headers[m].size = page.headers[m].size
      BY <1>5, <1>10
    <3>. QED
      BY <3>1, <1>10 DEF SizesOf
  <2>. QED
    BY <2>1, <2>2, <2>3, <1>10 DEF Packed
<1>12. RecordsAre(p, chunk, local, i)
  <2>1. e.id \in {0, i}
    BY <1>5
  <2>. QED
    BY <2>1, <1>1, <1>2, <1>6, RecordsVacated
<1>13. \A m \in 1 .. n : p.headers[m].id # i
  <2>1. OnlyIn(p, i, local[i] + 1)
    <3>1. e.id \in {0, i}
      BY <1>5
    <3>. QED
      BY <3>1, <1>1, <1>2, <1>6, RecordsVacated
  <2>. QED
    BY <2>1, <1>2, <1>5, <1>10 DEF OnlyIn
<1>14. RecordsAre(p, chunk', local', 0)
  <2>1. ASSUME NEW m \in 1 .. Len(p.headers), p.headers[m].id \notin {0, 0}
        PROVE  /\ p.headers[m].id \in RecordIDs /\ chunk'[p.headers[m].id] # Absent
               /\ local'[p.headers[m].id] = m - 1 /\ p.headers[m].size # 0
    <3>1. p.headers[m].id \notin {0, i}
      BY <2>1, <1>10, <1>13
    <3>2. /\ p.headers[m].id \in RecordIDs /\ chunk[p.headers[m].id] # Absent
          /\ local[p.headers[m].id] = m - 1 /\ p.headers[m].size # 0
      BY <3>1, <1>12 DEF RecordsAre
    <3>. QED
      BY <3>1, <3>2, <1>7, <1>9
  <2>2. ASSUME NEW id \in RecordIDs \ {0}, chunk'[id] # Absent
        PROVE  /\ local'[id] \in Nat /\ local'[id] + 1 <= Len(p.headers)
               /\ p.headers[local'[id] + 1].id = id
               /\ ReadRecordData(p, local'[id]) = chunk'[id]
    <3>1. id \in RecordIDs \ {i} /\ chunk[id] # Absent /\ chunk'[id] = chunk[id]
      BY <2>2, <1>9
    <3>. QED
      BY <3>1, <1>7, <1>12 DEF RecordsAre
  <2>. QED
    BY <2>1, <2>2 DEF RecordsAre
<1>15. CASE TotalRecords(p) = 0 /\ p.next # 0
  <2>1. \A id \in RecordIDs : chunk'[id] = Absent
    <3> SUFFICES ASSUME NEW id \in RecordIDs, chunk'[id] # Absent PROVE FALSE
      OBVIOUS
    <3>1. local'[id] + 1 \in 1 .. n /\ p.headers[local'[id] + 1].id = id /\ id # 0
      <4>1. id # 0
        BY RecordsAssumption
      <4>2. local'[id] \in Nat /\ local'[id] + 1 <= n /\ p.headers[local'[id] + 1].id = id
        BY <4>1, <1>10, <1>14 DEF RecordsAre
      <4>. QED
        BY <4>1, <4>2, <1>1
    <3> DEFINE used == {m \in DOMAIN p.headers : p.headers[m].id # 0}
    <3>2. DOMAIN p.headers = 1 .. n
      BY <1>10 DEF IsPage
    <3>3. local'[id] + 1 \in used
      BY <3>1, <3>2
    <3>4. IsFiniteSet(used)
      <4>1. IsFiniteSet(1 .. n)
        BY <1>1, FS_Interval
      <4>2. used \subseteq 1 .. n
        BY <3>2
      <4>. QED
        BY <4>1, <4>2, FS_Subset
    <3>5. Cardinality(used) = 0
      BY <1>15 DEF TotalRecords
    <3> HIDE DEF used
    <3>. QED
      BY <3>3, <3>4, <3>5, FS_EmptySet
  <2> DEFINE q == Clear(p)
  <2>2. Packed(q) /\ q.headers = <<>>
    BY <1>10, ClearIs
  <2> HIDE DEF q
  <2>3. RecordsAre(q, chunk', local', 0)
    BY <2>1, <2>2 DEF RecordsAre
  <2>4. page' = Forget(q)
    BY <1>7, <1>15 DEF q
  <2>5. Forgotten(page', q) /\ Packed(page')
    BY <2>2, <2>4, ForgetIs
  <2>6. RecordsAre(page', chunk', local', 0)
    BY <2>2, <2>3, <2>5, RecordsForgotten
  <2>. QED
    BY <2>5, <2>6, <1>7, <1>9 DEF PageInv
<1>16. CASE ~(TotalRecords(p) = 0 /\ p.next # 0)
  <2>1. page' = Forget(p)
    BY <1>7, <1>16
  <2>2. Forgotten(page', p) /\ Packed(page')
    BY <2>1, <1>11, ForgetIs
  <2>3. RecordsAre(page', chunk', local', 0)
    BY <2>2, <1>11, <1>14, RecordsForgotten
  <2>. QED
    BY <2>2, <2>3, <1>7, <1>9 DEF PageInv
<1>. QED
  BY <1>15, <1>16

\* The block stays in order under every call.
THEOREM PageIsInOrder == SafeSpec => []PageInv
<1>1. Init => PageInv
  BY InitInv
<1>2. PageInv /\ [SafeNext /\ NoEmptyChunk']_vars => PageInv'
  <2> SUFFICES ASSUME PageInv, [SafeNext /\ NoEmptyChunk']_vars PROVE PageInv'
    OBVIOUS
  <2>1. CASE UNCHANGED vars
    BY <2>1 DEF vars, PageInv
  <2>2. ASSUME NEW id \in RecordIDs, NEW n \in Sizes, Insert(id, n) PROVE PageInv'
    BY <2>2, InsertKeepsInv
  <2>3. ASSUME NEW id \in RecordIDs, NEW n \in Sizes, ~IdCut(id), Update(id, n), NoEmptyChunk' PROVE PageInv'
    BY <2>3, UpdateKeepsInv
  <2>4. ASSUME NEW id \in RecordIDs, Delete(id) PROVE PageInv'
    BY <2>4, DeleteKeepsInv
  <2>. QED
    BY <2>1, <2>2, <2>3, <2>4 DEF SafeNext
<1>. QED
  BY <1>1, <1>2, PTL DEF SafeSpec

-----------------------------------------------------------------------------
(* What follows from it                                                    *)

\* The 16-bit fields of a block never leave its range (record_block.go:33-40, 210-216).
THEOREM PageTypes == SafeSpec => []TypeOK
<1>1. PageInv => TypeOK
  <2> SUFFICES ASSUME PageInv PROVE TypeOK
    OBVIOUS
  <2>1. Packed(page) /\ IsPage(page) /\ RecordsAre(page, chunk, local, 0) /\ page.headers \in Seq(HeaderRec)
        /\ page.used \in Nat
    BY DEF PageInv, Packed, IsPage
  <2>2. page.used \in 0 .. PageSize
    <3>1. Utilization(page) \in Nat /\ Utilization(page) <= PageSize
      BY <2>1, UtilizationFits
    <3>. QED
      BY <2>1, <3>1, PageAssumption DEF Utilization
  <2>3. DOMAIN page.bytes = 0 .. PageSize - 1
    BY <2>1 DEF IsPage, Addresses
  <2>4. ASSUME NEW i \in DOMAIN page.headers
        PROVE  /\ page.headers[i].id \in Nat
               /\ page.headers[i].start \in 0 .. PageSize - 1
               /\ page.headers[i].size \in 0 .. PageSize
    <3>1. page.headers[i] \in HeaderRec
      BY <2>1
    <3>. QED
      BY <3>1 DEF HeaderRec, Addresses
  <2>5. ASSUME NEW id \in RecordIDs, Present(id) PROVE local[id] \in 0 .. Len(page.headers) - 1
    <3>1. id # 0
      BY RecordsAssumption
    <3>2. local[id] \in Nat /\ local[id] + 1 <= Len(page.headers)
      BY <3>1, <2>1, <2>5 DEF RecordsAre, Present
    <3>. QED
      BY <3>2, <2>1
  <2>. QED
    BY <2>2, <2>3, <2>4, <2>5 DEF TypeOK
<1>. QED
  BY <1>1, PageIsInOrder, PTL

\* Every record reads back as last written, whatever happened to its neighbours
\* (record_block.go:283-302, 327-364).
THEOREM RecordsReadBack == SafeSpec => []ReadBack
<1>1. PageInv => ReadBack
  <2> SUFFICES ASSUME PageInv, NEW id \in RecordIDs, Present(id)
               PROVE  /\ ValidLocalID(page, local[id])
                      /\ page.headers[local[id] + 1].id = id
                      /\ ReadRecordData(page, local[id]) = chunk[id]
    BY DEF ReadBack
  <2>1. id # 0
    BY RecordsAssumption
  <2>2. /\ local[id] \in Nat /\ local[id] + 1 <= Len(page.headers)
        /\ page.headers[local[id] + 1].id = id
        /\ ReadRecordData(page, local[id]) = chunk[id]
    BY <2>1 DEF PageInv, RecordsAre, Present
  <2>3. Len(page.headers) \in Nat
    BY DEF PageInv, Packed, IsPage
  <2>. QED
    BY <2>1, <2>2, <2>3 DEF ValidLocalID
<1>. QED
  BY <1>1, PageIsInOrder, PTL

\* Records share no byte and none lies under the headers (record_block.go:109, 117).
THEOREM RecordsDoNotOverlap == SafeSpec => []Layout
<1>1. PageInv => Layout
  BY PackedIsLaidOut DEF PageInv, Layout
<1>. QED
  BY <1>1, PageIsInOrder, PTL

\* The running utilization loses no byte and hands none out twice
\* (record_block.go:103, 134, 167, 197).
THEOREM UtilizationStaysExact == SafeSpec => []UtilizationIsExact
<1>1. PageInv => UtilizationIsExact
  <2>1. PageInv => Packed(page) /\ Counted(page)
    BY DEF PageInv, Packed
  <2>. QED
    BY <2>1, PackedCounts DEF UtilizationIsExact
<1>. QED
  BY <1>1, PageIsInOrder, PTL

\* The assertion after an update's Add, "Something weird happened while updating the
\* record, its local ID changed", never fails (record_allocator.go:245-247).
THEOREM UpdatesStayPut == SafeSpec => LocalIDStays
<1> DEFINE Stays == \A id \in RecordIDs : Present(id) /\ Present(id)' => local'[id] = local[id]
<1>1. PageInv /\ [SafeNext /\ NoEmptyChunk']_vars => [Stays]_vars
  <2> SUFFICES ASSUME PageInv, SafeNext, NoEmptyChunk' PROVE Stays
    BY DEF vars
  <2>1. ASSUME NEW i \in RecordIDs, NEW n \in Sizes, Insert(i, n) PROVE Stays
    <3> SUFFICES ASSUME NEW id \in RecordIDs, Present(id) PROVE local'[id] = local[id]
      OBVIOUS
    <3>1. id # i
      BY <2>1 DEF Insert
    <3>2. PICK x : local' = [local EXCEPT ![i] = x]
      BY <2>1 DEF Insert
    <3>3. local = [k \in RecordIDs |-> local[k]]
      BY DEF PageInv
    <3>. QED
      BY <3>1, <3>2, <3>3
  <2>2. ASSUME NEW i \in RecordIDs, NEW n \in Sizes, ~IdCut(i), Update(i, n) PROVE Stays
    BY <2>2, UpdateKeepsInv
  <2>3. ASSUME NEW i \in RecordIDs, Delete(i) PROVE Stays
    BY <2>3, DeleteKeepsInv
  <2>. QED
    BY <2>1, <2>2, <2>3 DEF SafeNext
<1>. QED
  BY <1>1, PageIsInOrder, PTL DEF SafeSpec, LocalIDStays
=============================================================================
