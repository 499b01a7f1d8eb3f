-------------------------- MODULE IndexNodesProofs --------------------------
(***************************************************************************)
(* Theorems about IndexNodes, for nodes of every capacity and size of block. *)
(* Where the cells of each operation end up is worked out once, against    *)
(* the sequence in memory; the invariant then needs these lemmas only.     *)
(* The second part shows that the node is the one the tree expects         *)
(* (NodeContract): every step of IndexNodes is a step of the contract.  It *)
(* goes from entries, which have a key and what belongs to it, to the keys *)
(* and the items or children that the tree sees.                           *)
(***************************************************************************)
EXTENDS IndexNodes, SequenceTheorems, FiniteSetTheorems, WellFoundedInduction, TLAPS

Cells == 0 .. BlockCells - 1

-----------------------------------------------------------------------------
(* Sequences                                                               *)

\* Sequence t is s with e before the element at position p (from 0).
InsertedAt(t, s, p, e) ==
    /\ Len(t) = Len(s) + 1
    /\ \A i \in 1 .. Len(s) + 1 : t[i] = IF i <= p THEN s[i] ELSE IF i = p + 1 THEN e ELSE s[i - 1]

\* Sequence t is s without the element at position p.
RemovedAt(t, s, p) ==
    /\ Len(t) = Len(s) - 1
    /\ \A i \in 1 .. Len(s) - 1 : t[i] = IF i <= p THEN s[i] ELSE s[i + 1]

\* The calls of the community modules' operators, whose positions count from 1.
Put(s, p, e) == Lib!InsertAt(s, p + 1, e)
Take(s, p) == Lib!RemoveAt(s, p + 1)

\* Where the elements of a slice are after an insert (an append is one at the end;
\* in_memory_adapter.go:149-159).
LEMMA Inserted ==
    ASSUME NEW S, NEW s \in Seq(S), NEW p \in 0 .. Len(s), NEW e \in S
    PROVE  Put(s, p, e) \in Seq(S) /\ InsertedAt(Put(s, p, e), s, p, e)
<1> DEFINE t == Put(s, p, e)
           a == SubSeq(s, 1, p)
           q == a \o <<e>>
           c == SubSeq(s, p + 1, Len(s))
<1>1. a \in Seq(S) /\ Len(a) = p /\ \A i \in 1 .. p : a[i] = s[i]
  OBVIOUS
<1>2. c \in Seq(S) /\ Len(c) = Len(s) - p /\ \A i \in 1 .. Len(s) - p : c[i] = s[p + i]
  OBVIOUS
<1>3. t = q \o c
  <2>1. Lib!InsertAt(s, p + 1, e) = SubSeq(s, 1, (p + 1) - 1) \o <<e>> \o c
    BY Zenon DEF Lib!InsertAt
  <2>2. (p + 1) - 1 = p
    OBVIOUS
  <2> QED BY <2>1, <2>2, Zenon DEF Put
<1>4. q \in Seq(S) /\ Len(q) = p + 1 /\ \A i \in 1 .. p + 1 : q[i] = IF i <= p THEN s[i] ELSE e
  BY <1>1
<1> HIDE DEF t, a, q, c
<1>5. Len(q) + Len(c) = Len(s) + 1
  BY <1>2, <1>4
<1>6. /\ q \o c \in Seq(S) /\ Len(q \o c) = Len(q) + Len(c)
      /\ \A i \in 1 .. Len(q) + Len(c) : (q \o c)[i] = IF i <= Len(q) THEN q[i] ELSE c[i - Len(q)]
  BY <1>2, <1>4, ConcatProperties, Zenon
<1>7. /\ t \in Seq(S) /\ Len(t) = Len(s) + 1
      /\ \A i \in 1 .. Len(q) + Len(c) : t[i] = IF i <= Len(q) THEN q[i] ELSE c[i - Len(q)]
  BY <1>3, <1>5, <1>6, Zenon
<1>8. ASSUME NEW i \in 1 .. Len(s) + 1
      PROVE  t[i] = IF i <= p THEN s[i] ELSE IF i = p + 1 THEN e ELSE s[i - 1]
  <2>1. t[i] = IF i <= p + 1 THEN q[i] ELSE c[i - (p + 1)]
    BY <1>4, <1>5, <1>7
  <2>2. i > p + 1 => i - (p + 1) \in 1 .. Len(s) - p /\ p + (i - (p + 1)) = i - 1
    OBVIOUS
  <2> QED BY SMTT(30), <1>2, <1>4, <2>1, <2>2
<1>9. t \in Seq(S) /\ InsertedAt(t, s, p, e)
  BY <1>7, <1>8 DEF InsertedAt
<1> QED
  BY <1>9 DEF t

\* Where they are after one is taken out (in_memory_adapter.go:169-173).
LEMMA Removed ==
    ASSUME NEW S, NEW s \in Seq(S), NEW p \in 0 .. Len(s) - 1
    PROVE  Take(s, p) \in Seq(S) /\ RemovedAt(Take(s, p), s, p)
<1> DEFINE t == Take(s, p)
           a == SubSeq(s, 1, p)
           c == SubSeq(s, p + 2, Len(s))
<1>1. a \in Seq(S) /\ Len(a) = p /\ \A i \in 1 .. p : a[i] = s[i]
  OBVIOUS
<1>2. c \in Seq(S) /\ Len(c) = Len(s) - p - 1 /\ \A i \in 1 .. Len(s) - p - 1 : c[i] = s[p + 1 + i]
  OBVIOUS
<1>3. t = a \o c
  <2>1. Lib!RemoveAt(s, p + 1) = SubSeq(s, 1, (p + 1) - 1) \o SubSeq(s, (p + 1) + 1, Len(s))
    BY Zenon DEF Lib!RemoveAt
  <2>2. (p + 1) - 1 = p /\ (p + 1) + 1 = p + 2
    OBVIOUS
  <2> QED BY <2>1, <2>2, Zenon DEF Take
<1> HIDE DEF t, a, c
<1>4. Len(a) + Len(c) = Len(s) - 1
  BY <1>1, <1>2
<1>5. /\ a \o c \in Seq(S) /\ Len(a \o c) = Len(a) + Len(c)
      /\ \A i \in 1 .. Len(a) + Len(c) : (a \o c)[i] = IF i <= Len(a) THEN a[i] ELSE c[i - Len(a)]
  BY <1>1, <1>2, ConcatProperties, Zenon
<1>6. /\ t \in Seq(S) /\ Len(t) = Len(s) - 1
      /\ \A i \in 1 .. Len(a) + Len(c) : t[i] = IF i <= Len(a) THEN a[i] ELSE c[i - Len(a)]
  BY <1>3, <1>4, <1>5, Zenon
<1>7. ASSUME NEW i \in 1 .. Len(s) - 1 PROVE t[i] = IF i <= p THEN s[i] ELSE s[i + 1]
  <2>1. t[i] = IF i <= p THEN a[i] ELSE c[i - p]
    BY <1>1, <1>4, <1>6
  <2>2. i > p => i - p \in 1 .. Len(s) - p - 1 /\ p + 1 + (i - p) = i + 1
    OBVIOUS
  <2> QED BY <1>1, <1>2, <2>1, <2>2
<1>8. t \in Seq(S) /\ RemovedAt(t, s, p)
  BY <1>6, <1>7 DEF RemovedAt
<1> QED
  BY <1>8 DEF t

-----------------------------------------------------------------------------
(* Leaves in their block                                                   *)

\* The cells of the header but the number of keys.
Header == {TypeCell, ParentCell, LeftCell, RightCell}

\* The entry at position q.
LeafEntryIs(b, q, e) ==
    b[LeafCell(q)] = e.key /\ b[LeafCell(q) + 1] = e.item

\* The block has these entries.
LeafHas(b, s) ==
    /\ DOMAIN b = Cells
    /\ Total(b) = Len(s)
    /\ \A q \in 0 .. Len(s) - 1 : LeafEntryIs(b, q, s[q + 1])

\* Where InsertAt leaves the cells of a leaf (uint32_index_node_adapter.go:227-249).
LEMMA LeafInsertCells ==
    ASSUME NEW b, DOMAIN b = Cells, NEW n \in Nat, Total(b) = n, n < Capacity,
           NEW p \in 0 .. n, NEW e, NEW nb, nb = LeafInsertAt(b, p, e)
    PROVE  /\ DOMAIN nb = Cells
           /\ Total(nb) = n + 1
           /\ \A c \in Header : nb[c] = b[c]
           /\ LeafEntryIs(nb, p, e)
           /\ \A c \in EntriesAt .. LeafCell(p) - 1 : nb[c] = b[c]
           /\ \A c \in LeafCell(p + 1) .. BlockCells - 1 :
                 nb[c] = IF p = n THEN b[c] ELSE b[c - LeafJump]
<1>1. /\ BlockCells \in Nat /\ Capacity \in Nat
      /\ p \in Nat /\ LeafCell(p) = 5 + p * 2 /\ LeafCell(p + 1) = LeafCell(p) + 2
      /\ LeafCell(p) >= 5 /\ LeafCell(p) + 2 <= BlockCells
  BY NodesAssumption DEF LeafCell, EntriesAt, LeafJump
<1> DEFINE room == IF p # n THEN ShiftUp(b, LeafCell(p), LeafJump) ELSE b
<1>2. nb = [room EXCEPT ![1] = @ + 1, ![LeafCell(p)] = e.key, ![LeafCell(p) + 1] = e.item]
  BY DEF LeafInsertAt, TotalCell, Total
<1>3. /\ DOMAIN room = Cells
      /\ \A c \in Cells : c < LeafCell(p) + 2 => room[c] = b[c]
      /\ \A c \in Cells : c >= LeafCell(p) + 2 => room[c] = IF p = n THEN b[c] ELSE b[c - 2]
  BY <1>1 DEF ShiftUp, LeafJump, Cells
<1> HIDE DEF room
<1>4. LeafCell(p) \in Nat
  BY <1>1
<1> DEFINE at == LeafCell(p)
<1> HIDE DEF at
<1>5. /\ DOMAIN nb = Cells /\ nb[1] = room[1] + 1
      /\ nb[at] = e.key /\ nb[at + 1] = e.item
      /\ \A c \in Cells : c \notin {1, at, at + 1} => nb[c] = room[c]
  BY <1>1, <1>2, <1>3 DEF Cells, at
<1>6. room[1] = n
  BY <1>1, <1>3 DEF Cells, Total, TotalCell
<1>7. Header \subseteq Cells /\ \A c \in Header : c < at /\ c # 1
  BY <1>1 DEF Header, TypeCell, ParentCell, LeftCell, RightCell, Cells, at
<1>8. \A c \in Header : nb[c] = b[c]
  BY <1>1, <1>3, <1>5, <1>7 DEF Cells, at
<1>9. \A c \in EntriesAt .. LeafCell(p) - 1 : nb[c] = b[c]
  BY <1>1, <1>3, <1>5 DEF Cells, at, EntriesAt
<1>10. \A c \in LeafCell(p + 1) .. BlockCells - 1 :
                 nb[c] = IF p = n THEN b[c] ELSE b[c - LeafJump]
  BY <1>1, <1>3, <1>5 DEF Cells, at, LeafJump
<1> QED
  BY <1>5, <1>6, <1>8, <1>9, <1>10 DEF Total, TotalCell, LeafEntryIs, at

\* An insert puts the entry at its place among the others
\* (uint32_index_node_adapter.go:227-249).
LEMMA LeafInsertIs ==
    ASSUME NEW S, NEW s \in Seq(S), NEW b, LeafHas(b, s), Len(s) < Capacity,
           NEW p \in 0 .. Len(s), NEW e \in S, NEW nb, nb = LeafInsertAt(b, p, e),
           NEW t, t = Put(s, p, e)
    PROVE  /\ t \in Seq(S) /\ Len(t) = Len(s) + 1
           /\ LeafHas(nb, t)
           /\ \A c \in Header : nb[c] = b[c]
<1> DEFINE n == Len(s)
<1>0. n \in Nat /\ p \in Nat /\ p <= n /\ BlockCells \in Nat /\ Capacity \in Nat
      /\ BlockCells > 5 + Capacity * 2 /\ n < Capacity
  BY NodesAssumption DEF EntriesAt, LeafJump
<1>1. DOMAIN b = Cells /\ Total(b) = n /\ \A q \in 0 .. n - 1 : LeafEntryIs(b, q, s[q + 1])
  BY DEF LeafHas
<1>2. /\ t \in Seq(S) /\ InsertedAt(t, s, p, e)
  BY Inserted
<1>2a. Len(t) = n + 1 /\ \A i \in 1 .. n + 1 : t[i] = IF i <= p THEN s[i] ELSE IF i = p + 1 THEN e ELSE s[i - 1]
  BY <1>2 DEF InsertedAt
<1> HIDE DEF n
<1>3. /\ DOMAIN nb = Cells /\ Total(nb) = n + 1
      /\ \A c \in Header : nb[c] = b[c]
      /\ LeafEntryIs(nb, p, e)
      /\ \A c \in EntriesAt .. LeafCell(p) - 1 : nb[c] = b[c]
      /\ \A c \in LeafCell(p + 1) .. BlockCells - 1 :
            nb[c] = IF p = n THEN b[c] ELSE b[c - LeafJump]
  BY <1>0, <1>1, LeafInsertCells
<1>4. ASSUME NEW q \in 0 .. n PROVE LeafEntryIs(nb, q, t[q + 1])
  <2>0. q \in Nat /\ LeafCell(q) = 5 + q * 2 /\ LeafCell(p) = 5 + p * 2
        /\ LeafCell(p + 1) = 7 + p * 2 /\ LeafCell(q) + 2 <= BlockCells
    BY <1>0 DEF LeafCell, EntriesAt, LeafJump
  <2>1. CASE q < p
    <3>0. q + 1 \in 1 .. n + 1 /\ q + 1 <= p /\ q \in 0 .. n - 1
      BY <1>0, <2>0, <2>1
    <3>1. t[q + 1] = s[q + 1] /\ LeafEntryIs(b, q, s[q + 1])
      BY <1>1, <1>2a, <3>0
    <3>2. \A j \in 0 .. 1 : LeafCell(q) + j \in EntriesAt .. LeafCell(p) - 1
      BY <1>0, <2>0, <2>1 DEF EntriesAt
    <3>3. nb[LeafCell(q)] = b[LeafCell(q)] /\ nb[LeafCell(q) + 1] = b[LeafCell(q) + 1]
      BY <1>3, <2>0, <3>2
    <3> QED BY <3>1, <3>3 DEF LeafEntryIs
  <2>2. CASE q = p
    BY <1>0, <1>2a, <1>3, <2>0, <2>2
  <2>3. CASE q > p
    <3>1. t[q + 1] = s[q] /\ LeafEntryIs(b, q - 1, s[q]) /\ LeafCell(q - 1) = LeafCell(q) - 2
      <4>1. q - 1 \in 0 .. n - 1 /\ (q - 1) + 1 = q /\ q + 1 \in 1 .. n + 1 /\ (q + 1) - 1 = q
        BY <1>0, <2>0, <2>3
      <4>2. LeafCell(q - 1) = LeafCell(q) - 2
        BY <2>0 DEF LeafCell, EntriesAt, LeafJump
      <4>3. ~(q + 1 <= p) /\ q + 1 # p + 1
        BY <1>0, <2>0, <2>3
      <4>4. t[q + 1] = s[q]
        BY <1>2a, <4>1, <4>3
      <4>5. LeafEntryIs(b, q - 1, s[q])
        <5> DEFINE r == q - 1
        <5> HIDE DEF r
        <5>1. LeafEntryIs(b, r, s[r + 1])
          BY <1>1, <4>1 DEF r
        <5> QED BY <4>1, <5>1, Zenon DEF r
      <4> QED BY <4>2, <4>4, <4>5
    <3>2. p # n /\ \A c \in LeafCell(p + 1) .. BlockCells - 1 : nb[c] = b[c - 2]
      BY <1>0, <1>3, <2>0, <2>3 DEF LeafJump
    <3> DEFINE at == LeafCell(q)
    <3>3. at \in Nat /\ at - 2 \in Nat /\ at \in LeafCell(p + 1) .. BlockCells - 1
          /\ at + 1 \in LeafCell(p + 1) .. BlockCells - 1
      BY <1>0, <2>0, <2>3
    <3> HIDE DEF at
    <3>4. nb[at] = b[at - 2] /\ nb[at + 1] = b[at - 2 + 1]
      <4>1. (at + 1) - 2 = at - 2 + 1
        BY <3>3
      <4> QED BY <3>2, <3>3, <4>1
    <3> QED BY <3>1, <3>4 DEF LeafEntryIs, at
  <2> QED BY <1>0, <2>0, <2>1, <2>2, <2>3
<1>5. LeafHas(nb, t)
  BY <1>0, <1>2a, <1>3, <1>4 DEF LeafHas
<1> QED
  BY <1>2, <1>2a, <1>3, <1>5, Zenon DEF n

\* DeleteAt takes the entry out and moves the rest of the block
\* (uint32_index_node_adapter.go:264-279).
LEMMA LeafDeleteIs ==
    ASSUME NEW S, NEW s \in Seq(S), NEW b, LeafHas(b, s), Len(s) <= Capacity,
           NEW p \in 0 .. Len(s) - 1, NEW nb, nb = LeafDeleteAt(b, p),
           NEW t, t = Take(s, p)
    PROVE  /\ t \in Seq(S) /\ Len(t) = Len(s) - 1
           /\ LeafHas(nb, t)
           /\ \A c \in Header : nb[c] = b[c]
<1> DEFINE n == Len(s)
<1>0. n \in Nat /\ p \in Nat /\ p < n /\ BlockCells \in Nat /\ Capacity \in Nat
      /\ BlockCells > 5 + Capacity * 2 /\ n <= Capacity
  BY NodesAssumption DEF EntriesAt, LeafJump
<1>1. DOMAIN b = Cells /\ Total(b) = n /\ \A q \in 0 .. n - 1 : LeafEntryIs(b, q, s[q + 1])
  BY DEF LeafHas
<1>2. t \in Seq(S) /\ RemovedAt(t, s, p)
  BY Removed
<1>2a. Len(t) = n - 1 /\ \A i \in 1 .. n - 1 : t[i] = IF i <= p THEN s[i] ELSE s[i + 1]
  BY <1>2 DEF RemovedAt
<1> HIDE DEF n
<1>3. LeafCell(p) = 5 + p * 2 /\ LeafCell(n) = 5 + n * 2
  BY <1>0 DEF LeafCell, EntriesAt, LeafJump
<1> DEFINE d == CopyDown(b, LeafCell(p), LeafJump)
<1>d. /\ DOMAIN d = Cells
      /\ \A c \in Cells : d[c] = IF c >= LeafCell(p) /\ c + 2 < BlockCells THEN b[c + 2] ELSE b[c]
  BY <1>1 DEF CopyDown, LeafJump
<1>e. nb = [d EXCEPT ![1] = @ - 1]
  BY DEF LeafDeleteAt, TotalCell
<1> HIDE DEF d
<1>4. /\ DOMAIN nb = Cells /\ Total(nb) = n - 1
      /\ \A c \in Cells : c # 1 => nb[c] = IF c >= LeafCell(p) /\ c + 2 < BlockCells THEN b[c + 2] ELSE b[c]
  <2>1. 1 \in Cells /\ 1 < LeafCell(p)
    BY <1>0, <1>3 DEF Cells
  <2>2. d[1] = n
    <3>1. ~(1 >= LeafCell(p))
      BY <1>0, <1>3
    <3> QED BY <1>1, <1>d, <2>1, <3>1 DEF Total, TotalCell
  <2> QED BY <1>0, <1>d, <1>e, <2>1, <2>2 DEF Total, TotalCell
<1>5. \A c \in Header : nb[c] = b[c]
  <2>1. \A c \in Header : c \in Cells /\ c # 1 /\ c < LeafCell(p)
    BY <1>0, <1>3 DEF Header, TypeCell, ParentCell, LeftCell, RightCell, Cells
  <2>2. \A c \in Header : ~(c >= LeafCell(p))
    BY <1>0, <1>3 DEF Header, TypeCell, ParentCell, LeftCell, RightCell
  <2> QED BY <1>4, <2>1, <2>2
<1>6. ASSUME NEW q \in 0 .. n - 2 PROVE LeafEntryIs(nb, q, t[q + 1])
  <2>0. q \in Nat /\ LeafCell(q) = 5 + q * 2 /\ LeafCell(q) + 4 <= BlockCells /\ q + 1 \in 1 .. n - 1
        /\ LeafCell(q + 1) = LeafCell(q) + 2
    BY <1>0 DEF LeafCell, EntriesAt, LeafJump
  <2>1. CASE q < p
    <3>1. t[q + 1] = s[q + 1] /\ LeafEntryIs(b, q, s[q + 1])
      <4>1. q + 1 <= p /\ q \in 0 .. n - 1
        BY <1>0, <2>0, <2>1
      <4> QED BY <1>1, <1>2a, <2>0, <4>1
    <3>2. nb[LeafCell(q)] = b[LeafCell(q)] /\ nb[LeafCell(q) + 1] = b[LeafCell(q) + 1]
      BY <1>0, <1>3, <1>4, <2>0, <2>1 DEF Cells
    <3> QED BY <3>1, <3>2 DEF LeafEntryIs
  <2>2. CASE q >= p
    <3>1. t[q + 1] = s[q + 2] /\ LeafEntryIs(b, q + 1, s[q + 2])
      <4>1. ~(q + 1 <= p) /\ q + 1 \in 0 .. n - 1 /\ (q + 1) + 1 = q + 2
        BY <1>0, <2>0, <2>2
      <4> QED BY <1>1, <1>2a, <2>0, <4>1
    <3>2. nb[LeafCell(q)] = b[LeafCell(q) + 2] /\ nb[LeafCell(q) + 1] = b[LeafCell(q) + 2 + 1]
      BY SMTT(30), <1>0, <1>3, <1>4, <2>0, <2>2 DEF Cells
    <3> QED BY <2>0, <3>1, <3>2 DEF LeafEntryIs
  <2> QED BY <1>0, <2>0, <2>1, <2>2
<1>7. LeafHas(nb, t)
  <2>1. (n - 1) - 1 = n - 2
    BY <1>0
  <2> QED BY <1>2a, <1>4, <1>6, <2>1 DEF LeafHas
<1> QED
  BY <1>2, <1>2a, <1>5, <1>7 DEF n

\* What the first n entries of s and the others are (in_memory_adapter.go:175-179).
LEMMA Cut ==
    ASSUME NEW S, NEW s \in Seq(S), NEW n \in 0 .. Len(s)
    PROVE  /\ SubSeq(s, 1, n) \in Seq(S) /\ Len(SubSeq(s, 1, n)) = n
           /\ \A i \in 1 .. n : SubSeq(s, 1, n)[i] = s[i]
           /\ SubSeq(s, n + 1, Len(s)) \in Seq(S) /\ Len(SubSeq(s, n + 1, Len(s))) = Len(s) - n
           /\ \A i \in 1 .. Len(s) - n : SubSeq(s, n + 1, Len(s))[i] = s[n + i]
OBVIOUS

\* The block with its number of keys cut to n.
CutTo(b, n) == [b EXCEPT ![TotalCell] = n]

\* DeleteFrom leaves the first n entries and returns the others
\* (uint32_index_node_adapter.go:281-297).
LEMMA LeafCutIs ==
    ASSUME NEW s \in Seq(Entries), NEW b, LeafHas(b, s), NEW n \in 0 .. Len(s),
           NEW nb, nb = CutTo(b, n)
    PROVE  /\ LeafHas(nb, SubSeq(s, 1, n))
           /\ \A c \in Header : nb[c] = b[c]
           /\ LeafEntries(b, n) = SubSeq(s, n + 1, Len(s))
<1>0. Len(s) \in Nat /\ n \in Nat /\ n <= Len(s) /\ BlockCells \in Nat /\ BlockCells >= 8
  BY NodesAssumption DEF EntriesAt, LeafJump
<1>1. DOMAIN b = Cells /\ Total(b) = Len(s) /\ \A q \in 0 .. Len(s) - 1 : LeafEntryIs(b, q, s[q + 1])
  BY DEF LeafHas
<1>2. DOMAIN nb = Cells /\ Total(nb) = n /\ \A c \in Cells : c # 1 => nb[c] = b[c]
  BY <1>0, <1>1 DEF CutTo, Total, TotalCell, Cells
<1>3. \A c \in Header : nb[c] = b[c]
  BY <1>0, <1>1 DEF Header, TypeCell, ParentCell, LeftCell, RightCell, CutTo, TotalCell, Cells
<1>4. ASSUME NEW q \in 0 .. n - 1 PROVE LeafEntryIs(nb, q, s[q + 1])
  <2>1. LeafEntryIs(b, q, s[q + 1]) /\ LeafCell(q) = 5 + q * 2
    BY <1>0, <1>1 DEF LeafCell, EntriesAt, LeafJump
  <2>2. nb[LeafCell(q)] = b[LeafCell(q)] /\ nb[LeafCell(q) + 1] = b[LeafCell(q) + 1]
    BY <1>0, <1>1, <2>1 DEF CutTo, TotalCell
  <2> QED BY <2>1, <2>2 DEF LeafEntryIs
<1> DEFINE left == SubSeq(s, 1, n)
           right == SubSeq(s, n + 1, Len(s))
<1>5. /\ Len(left) = n /\ \A i \in 1 .. n : left[i] = s[i]
      /\ right \in Seq(Entries) /\ Len(right) = Len(s) - n
      /\ \A i \in 1 .. Len(s) - n : right[i] = s[n + i]
  BY Cut
<1> HIDE DEF left, right
<1>6. LeafHas(nb, left)
  <2>1. \A q \in 0 .. n - 1 : q + 1 \in 1 .. n
    BY <1>0
  <2> QED BY <1>2, <1>4, <1>5, <2>1 DEF LeafHas
<1>7. LeafEntries(b, n) = right
  <2>1. ASSUME NEW i \in 1 .. Len(s) - n PROVE LeafEntryAt(b, n + i - 1) = right[i]
    <3>1. LeafEntryIs(b, n + i - 1, right[i]) /\ right[i] \in [key : Keys, item : Nat]
      <4>1. n + i - 1 \in 0 .. Len(s) - 1 /\ (n + i - 1) + 1 = n + i
        BY <1>0
      <4>2. right[i] \in Entries
        BY <1>5
      <4> QED BY <1>1, <1>5, <4>1, <4>2, NodesAssumption
    <3> QED BY <3>1 DEF LeafEntryIs, LeafEntryAt
  <2>2. LeafEntries(b, n) = [i \in 1 .. Len(s) - n |-> LeafEntryAt(b, n + i - 1)]
    BY <1>1 DEF LeafEntries
  <2>3. right = [i \in 1 .. Len(s) - n |-> right[i]]
    BY <1>0, <1>5
  <2> QED BY <2>1, <2>2, <2>3
<1> QED
  BY <1>3, <1>6, <1>7 DEF left, right

\* allocateBlock clears the header (uint32_index_node_adapter.go:123-136).
LEMMA AllocateCells ==
    ASSUME NEW was, DOMAIN was = Cells, NEW type
    PROVE  LET a == Allocate(was, type) IN
           /\ DOMAIN a = Cells
           /\ a[TypeCell] = type /\ a[ParentCell] = 0 /\ a[LeftCell] = 0 /\ a[RightCell] = 0
           /\ a[TotalCell] = 0
<1>1. 0 .. 4 \subseteq Cells
  BY NodesAssumption DEF Cells, EntriesAt, LeafJump
<1>2. Allocate(was, type) =
         [was EXCEPT ![0] = type, ![1] = 0, ![2] = 0, ![3] = 0, ![4] = 0]
  BY DEF Allocate, TypeCell, TotalCell, ParentCell, LeftCell, RightCell
<1> QED
  BY <1>1, <1>2 DEF TypeCell, TotalCell, ParentCell, LeftCell, RightCell

\* A new leaf has the entries it was filled with (bplus_tree.go:410-413).
LEMMA LeafOfIs ==
    ASSUME NEW s \in Seq(Entries), Len(s) <= Capacity, NEW was, DOMAIN was = Cells,
           NEW nb, nb = LeafOf(was, s)
    PROVE  /\ LeafHas(nb, s)
           /\ nb[TypeCell] = Leaf
           /\ nb[ParentCell] = 0 /\ nb[LeftCell] = 0 /\ nb[RightCell] = 0
<1> DEFINE n == Len(s)
           a == Allocate(was, Leaf)
<1>0. n \in Nat /\ BlockCells \in Nat /\ Capacity \in Nat
      /\ BlockCells > 5 + Capacity * 2 /\ n <= Capacity
  BY NodesAssumption DEF EntriesAt, LeafJump
<1>1. DOMAIN a = Cells /\ a[0] = Leaf /\ a[2] = 0 /\ a[3] = 0 /\ a[4] = 0
  BY AllocateCells DEF TypeCell, ParentCell, LeftCell, RightCell
<1>2. LeafCell(0) = 5 /\ LeafCell(n) = 5 + n * 2
  BY <1>0 DEF LeafCell, EntriesAt, LeafJump
<1>4. /\ DOMAIN nb = Cells /\ nb[1] = n
      /\ \A c \in Cells : c # 1 /\ c \notin 5 .. LeafCell(n) - 1 => nb[c] = a[c]
      /\ \A c \in Cells : c # 1 /\ c \in 5 .. LeafCell(n) - 1 =>
            /\ (c - 5) % 2 = 0 => nb[c] = s[(c - 5) \div 2 + 1].key
            /\ (c - 5) % 2 = 1 => nb[c] = s[(c - 5) \div 2 + 1].item
  BY <1>0, <1>2 DEF LeafOf, TotalCell, EntriesAt, LeafJump, Cells
<1> HIDE DEF n, a
<1>5. DOMAIN nb = Cells /\ Total(nb) = n
  BY <1>0, <1>4 DEF Total, TotalCell, Cells
<1>6. nb[0] = Leaf /\ nb[2] = 0 /\ nb[3] = 0 /\ nb[4] = 0
  BY <1>0, <1>1, <1>4 DEF Cells
<1>7. ASSUME NEW q \in 0 .. n - 1 PROVE LeafEntryIs(nb, q, s[q + 1])
  <2>1. q \in Nat /\ LeafCell(q) = 5 + q * 2
        /\ \A j \in 0 .. 1 : LeafCell(q) + j \in Cells /\ LeafCell(q) + j \in 5 .. LeafCell(n) - 1
    BY <1>0, <1>2 DEF LeafCell, EntriesAt, LeafJump, Cells
  <2>2. \A j \in 0 .. 1 : LeafCell(q) + j # 1 /\ (LeafCell(q) + j - 5) % 2 = j /\ (LeafCell(q) + j - 5) \div 2 + 1 = q + 1
    BY <2>1
  <2>3. nb[LeafCell(q) + 0] = s[q + 1].key
    BY SMTT(30), <1>4, <2>1, <2>2, 0 \in 0 .. 1
  <2>4. nb[LeafCell(q) + 1] = s[q + 1].item
    <3> DEFINE d == LeafCell(q) + 1
    <3>1. d \in Cells /\ d # 1 /\ d \in 5 .. LeafCell(n) - 1 /\ (d - 5) % 2 = 1 /\ (d - 5) \div 2 + 1 = q + 1
      BY <2>1, <2>2
    <3> HIDE DEF d
    <3>2. nb[d] = s[q + 1].item
      BY <1>4, <3>1
    <3> QED BY <3>2 DEF d
  <2> QED BY <2>1, <2>3, <2>4 DEF LeafEntryIs
<1> QED
  BY <1>5, <1>6, <1>7 DEF LeafHas, TypeCell, ParentCell, LeftCell, RightCell, n

\* A full leaf that is split gives two whose entries are those of the leaf in memory
\* (bplus_tree.go:402-423).
LEMMA LeafSplitIs ==
    ASSUME NEW s \in Seq(Entries), NEW b, LeafHas(b, s), Len(s) = Capacity,
           NEW p \in 0 .. Len(s), NEW e \in Entries, NEW was, DOMAIN was = Cells,
           NEW blocks, blocks = LeafSplit(b, was, p, e),
           NEW memories, memories = MemoryLeafSplit(s, p, e)
    PROVE  /\ memories.left \in Seq(Entries) /\ memories.right \in Seq(Entries)
           /\ Len(memories.left) <= Capacity /\ Len(memories.right) <= Capacity
           /\ LeafHas(blocks.left, memories.left) /\ LeafHas(blocks.right, memories.right)
           /\ \A c \in Header : blocks.left[c] = b[c]
           /\ blocks.right[TypeCell] = Leaf /\ blocks.right[ParentCell] = 0
           /\ blocks.right[LeftCell] = 0 /\ blocks.right[RightCell] = 0
<1> DEFINE n == SplitFrom(p)
           left == SubSeq(s, 1, n)
           right == SubSeq(s, n + 1, Len(s))
           bl == CutTo(b, n)
           br == LeafOf(was, right)
<1>0. /\ Len(s) \in Nat /\ p \in Nat /\ Capacity \in Nat /\ Capacity >= 4 /\ Half \in Nat
      /\ Half >= 2 /\ Half < Capacity /\ n = (IF p < Half THEN Half - 1 ELSE Half)
      /\ n \in 0 .. Len(s) /\ n + 1 <= Capacity
  BY NodesAssumption DEF Half, SplitFrom
<1>1. /\ left \in Seq(Entries) /\ Len(left) = n /\ right \in Seq(Entries) /\ Len(right) = Len(s) - n
  BY <1>0, Cut
<1> HIDE DEF n
<1>2. /\ LeafHas(bl, left) /\ \A c \in Header : bl[c] = b[c]
      /\ LeafEntries(b, n) = right
  <2>0. n \in 0 .. Len(s)
    BY <1>0
  <2>1. LeafHas(bl, left)
    BY <2>0, LeafCutIs
  <2>2. \A c \in Header : bl[c] = b[c]
    BY <2>0, LeafCutIs
  <2>3. LeafEntries(b, n) = right
    BY <2>0, LeafCutIs
  <2> QED BY <2>1, <2>2, <2>3, Zenon
<1>3. /\ LeafHas(br, right) /\ br[TypeCell] = Leaf
      /\ br[ParentCell] = 0 /\ br[LeftCell] = 0 /\ br[RightCell] = 0
  <2>1. Len(right) <= Capacity
    BY <1>0, <1>1
  <2> QED BY <1>1, <2>1, LeafOfIs
<1>4. blocks = IF p < Half THEN [left |-> LeafInsertAt(bl, p, e), right |-> br]
                           ELSE [left |-> bl, right |-> LeafInsertAt(br, p - Half, e)]
  BY <1>2, Zenon DEF LeafSplit, CutTo, n
<1>5. memories = IF p < Half THEN [left |-> Put(left, p, e), right |-> right]
                             ELSE [left |-> left, right |-> Put(right, p - Half, e)]
  BY Zenon DEF MemoryLeafSplit, Put, n
<1> HIDE DEF left, right, bl, br
<1>6. CASE p < Half
  <2> DEFINE nb == LeafInsertAt(bl, p, e)
             t == Put(left, p, e)
  <2>1. p \in 0 .. Len(left) /\ Len(left) < Capacity
    BY <1>0, <1>1, <1>6
  <2>2. LeafHas(nb, t) /\ \A c \in Header : nb[c] = bl[c]
    BY <1>1, <1>2, <2>1, LeafInsertIs
  <2>3. t \in Seq(Entries) /\ Len(t) = Len(left) + 1
    BY <1>1, <1>2, <2>1, LeafInsertIs
  <2>4. blocks.left = nb /\ blocks.right = br /\ memories.left = t /\ memories.right = right
    BY <1>4, <1>5, <1>6
  <2> HIDE DEF nb, t
  <2> QED BY SMTT(30), <1>0, <1>1, <1>2, <1>3, <2>2, <2>3, <2>4
<1>7. CASE ~(p < Half)
  <2> DEFINE nb == LeafInsertAt(br, p - Half, e)
             t == Put(right, p - Half, e)
  <2>1. p - Half \in 0 .. Len(right) /\ Len(right) < Capacity
    BY <1>0, <1>1, <1>7
  <2>2. LeafHas(nb, t) /\ \A c \in Header : nb[c] = br[c]
    BY SMTT(30), <1>1, <1>3, <2>1, LeafInsertIs
  <2>3. t \in Seq(Entries) /\ Len(t) = Len(right) + 1
    BY <1>1, <1>3, <2>1, LeafInsertIs
  <2>4. blocks.left = bl /\ blocks.right = nb /\ memories.left = left /\ memories.right = t
    BY <1>4, <1>5, <1>7
  <2>5. {TypeCell, ParentCell, LeftCell, RightCell} \subseteq Header
    BY DEF Header
  <2> HIDE DEF nb, t
  <2> QED BY <1>0, <1>1, <1>2, <1>3, <2>1, <2>2, <2>3, <2>4, <2>5
<1> QED
  BY <1>6, <1>7

-----------------------------------------------------------------------------
(* Branches in their block                                                 *)

\* The children a branch has are free blocks when they are given to it.
ChildIDs == {FreeBlock(ids) : ids \in SUBSET Children}

BranchEntry == [key : Keys, lower : ChildIDs, greater : ChildIDs]

\* Of the blocks to avoid only those of the file matter
\* (uint32_index_node_adapter.go:123-136).
LEMMA FreeBlockIsChild == \A ids : FreeBlock(ids) \in ChildIDs
<1> SUFFICES ASSUME NEW ids PROVE FreeBlock(ids) \in ChildIDs
  OBVIOUS
<1>1. Children \ ids = Children \ (ids \cap Children)
  OBVIOUS
<1>2. FreeBlock(ids) = FreeBlock(ids \cap Children)
  BY <1>1, Zenon DEF FreeBlock
<1>3. ids \cap Children \in SUBSET Children
  OBVIOUS
<1> QED
  BY <1>2, <1>3 DEF ChildIDs

\* The entry at position q.
BranchEntryIs(b, q, e) ==
    /\ b[BranchCell(q)] = e.lower
    /\ b[BranchCell(q) + 1] = e.key
    /\ b[BranchCell(q) + 2] = e.greater

\* The block has these entries; what two of them share is there once.
BranchHas(b, s) ==
    /\ DOMAIN b = Cells
    /\ Total(b) = Len(s)
    /\ \A q \in 0 .. Len(s) - 1 : BranchEntryIs(b, q, s[q + 1])

\* Where InsertAt leaves the entries of a branch in memory (in_memory_adapter.go:264-286).
LEMMA MemoryInserted ==
    ASSUME NEW s \in Seq(BranchEntry), Len(s) > 0, NEW p \in 0 .. Len(s), NEW k \in Keys,
           NEW child \in ChildIDs, NEW t, t = MemoryInsertAt(s, p, k, child)
    PROVE  /\ t \in Seq(BranchEntry)
           /\ Len(t) = Len(s) + 1
           /\ \A i \in 1 .. Len(s) + 1 : t[i] =
                 IF i <= p THEN s[i]
                 ELSE IF i = p + 1
                   THEN [key |-> k, lower |-> IF p = 0 THEN s[1].lower ELSE s[p].greater, greater |-> child]
                 ELSE IF i = p + 2 THEN [s[p + 1] EXCEPT !.lower = child]
                 ELSE s[i - 1]
<1> DEFINE n == Len(s)
           e == [key |-> k, lower |-> IF p = 0 THEN s[1].lower ELSE s[p].greater, greater |-> child]
           told == IF p < n THEN [s EXCEPT ![p + 1].lower = child] ELSE s
<1>0. n \in Nat /\ p \in Nat /\ p <= n /\ n > 0
  OBVIOUS
<1>1. e \in BranchEntry
  <2>1. p # 0 => p \in 1 .. n
    BY <1>0
  <2>2. 1 \in 1 .. n
    BY <1>0
  <2>3. s[1] \in BranchEntry /\ (p # 0 => s[p] \in BranchEntry)
    BY <2>1, <2>2
  <2> QED BY <2>3 DEF BranchEntry
<1>2. /\ told \in Seq(BranchEntry) /\ Len(told) = n
      /\ \A i \in 1 .. n : told[i] = IF i = p + 1 THEN [s[i] EXCEPT !.lower = child] ELSE s[i]
  <2>1. CASE p < n
    <3>1. p + 1 \in 1 .. n
      BY <1>0, <2>1
    <3>2. s[p + 1] \in BranchEntry
      BY <3>1
    <3>3. [s[p + 1] EXCEPT !.lower = child] \in BranchEntry
      BY <3>2 DEF BranchEntry
    <3>4. told = [s EXCEPT ![p + 1] = [s[p + 1] EXCEPT !.lower = child]]
      BY <2>1
    <3> QED BY <3>1, <3>3, <3>4
  <2>2. CASE ~(p < n)
    <3>1. told = s
      BY <2>2
    <3>2. \A i \in 1 .. n : i # p + 1
      BY <1>0, <2>2
    <3> QED BY <3>1, <3>2
  <2> QED BY <2>1, <2>2
<1>3. t = Put(told, p, e)
  BY Zenon DEF MemoryInsertAt, Put
<1> HIDE DEF n, e, told
<1>4. t \in Seq(BranchEntry) /\ InsertedAt(t, told, p, e)
  <2>1. p \in 0 .. Len(told)
    BY <1>0, <1>2
  <2> QED BY <2>1, <1>1, <1>2, <1>3, Inserted
<1>5. /\ Len(t) = n + 1
      /\ \A i \in 1 .. n + 1 : t[i] = IF i <= p THEN told[i] ELSE IF i = p + 1 THEN e ELSE told[i - 1]
  BY <1>2, <1>4 DEF InsertedAt
<1>6. ASSUME NEW i \in 1 .. n + 1
      PROVE  t[i] = IF i <= p THEN s[i] ELSE IF i = p + 1 THEN e
                    ELSE IF i = p + 2 THEN [s[p + 1] EXCEPT !.lower = child] ELSE s[i - 1]
  <2>1. CASE i <= p
    BY <1>0, <1>2, <1>5, <2>1
  <2>2. CASE i = p + 1
    BY <1>0, <1>5, <2>2
  <2>3. CASE i > p + 1
    <3>1. i - 1 \in 1 .. n /\ (i - 1 = p + 1 <=> i = p + 2) /\ ~(i <= p) /\ i # p + 1
      BY <1>0, <2>3
    <3>2. t[i] = told[i - 1]
      BY <1>5, <3>1
    <3> QED BY <1>2, <3>1, <3>2
  <2> QED BY <1>0, <2>1, <2>2, <2>3
<1> QED
  BY <1>4, <1>5, <1>6 DEF n, e

\* Where the cells of n entries are (uint32_index_node_adapter.go:319-339).
LEMMA BranchCells ==
    ASSUME NEW q \in Nat
    PROVE  /\ BranchCell(q) = 5 + q * 2 /\ BranchCell(q) \in Nat
           /\ BranchCell(q + 1) = BranchCell(q) + 2
           /\ q < Capacity => BranchCell(q) + 2 < BlockCells
           /\ q <= Capacity => BranchCell(q) < BlockCells
<1>1. Capacity \in Nat /\ Capacity >= 4 /\ BlockCells \in Nat /\ BlockCells > 5 + Capacity * 2
  BY NodesAssumption DEF EntriesAt, LeafJump
<1>2. BranchCell(q) = 5 + q * 2
  BY DEF BranchCell, EntriesAt, BranchJump
<1>3. BranchCell(q + 1) = 5 + (q + 1) * 2
  BY DEF BranchCell, EntriesAt, BranchJump
<1>4. BranchCell(q) \in Nat /\ BranchCell(q + 1) = BranchCell(q) + 2
  BY <1>2, <1>3
<1>5. q < Capacity => BranchCell(q) + 2 < BlockCells
  BY <1>1, <1>2
<1>6. q <= Capacity => BranchCell(q) < BlockCells
  BY <1>1, <1>2
<1> QED
  BY <1>2, <1>4, <1>5, <1>6

\* InsertAt puts key and child at their place (uint32_index_node_adapter.go:412-432).
LEMMA BranchInsertIs ==
    ASSUME NEW s \in Seq(BranchEntry), Len(s) > 0, NEW b, BranchHas(b, s), Len(s) < Capacity,
           NEW p \in 0 .. Len(s), NEW k \in Keys, NEW child \in ChildIDs,
           NEW nb, nb = BranchInsertAt(b, p, k, child),
           NEW t, t = MemoryInsertAt(s, p, k, child)
    PROVE  /\ t \in Seq(BranchEntry) /\ Len(t) = Len(s) + 1
           /\ BranchHas(nb, t)
           /\ \A c \in Header : nb[c] = b[c]
<1> DEFINE n == Len(s)
           at == BranchCell(p)
           room == ShiftUp(b, at, 2)
<1>0. n \in Nat /\ p \in Nat /\ p <= n /\ BlockCells \in Nat /\ Capacity \in Nat /\ n < Capacity /\ n > 0
  BY NodesAssumption
<1>1. DOMAIN b = Cells /\ Total(b) = n /\ \A q \in 0 .. n - 1 : BranchEntryIs(b, q, s[q + 1])
  BY DEF BranchHas
<1>2. /\ t \in Seq(BranchEntry) /\ Len(t) = n + 1
      /\ \A i \in 1 .. n + 1 : t[i] =
            IF i <= p THEN s[i]
            ELSE IF i = p + 1
              THEN [key |-> k, lower |-> IF p = 0 THEN s[1].lower ELSE s[p].greater, greater |-> child]
            ELSE IF i = p + 2 THEN [s[p + 1] EXCEPT !.lower = child]
            ELSE s[i - 1]
  BY MemoryInserted
<1>3. at = 5 + p * 2 /\ at \in Nat /\ at + 2 < BlockCells /\ BranchCell(p + 1) = at + 2
  BY <1>0, BranchCells
<1>4. room = [c \in Cells |-> IF c >= at + 2 THEN b[c - 2] ELSE b[c]]
  BY <1>1 DEF ShiftUp
<1>5. nb = [room EXCEPT ![1] = @ + 1, ![at + 1] = k, ![at + 2] = child]
  BY DEF BranchInsertAt, TotalCell, BranchJump
<1> HIDE DEF n, at, room
<1>6. /\ DOMAIN nb = Cells /\ Total(nb) = n + 1
      /\ nb[at + 1] = k /\ nb[at + 2] = child
      /\ \A c \in Cells : c # 1 /\ c <= at => nb[c] = b[c]
      /\ \A c \in Cells : c > at + 2 => nb[c] = b[c - 2]
  <2>1. DOMAIN room = Cells /\ \A c \in Cells : room[c] = IF c >= at + 2 THEN b[c - 2] ELSE b[c]
    BY <1>4
  <2>2. 1 \in Cells /\ at + 1 \in Cells /\ at + 2 \in Cells /\ 1 < at
    BY <1>0, <1>3 DEF Cells
  <2>3. /\ DOMAIN nb = Cells /\ nb[1] = room[1] + 1 /\ nb[at + 1] = k /\ nb[at + 2] = child
        /\ \A c \in Cells : c \notin {1, at + 1, at + 2} => nb[c] = room[c]
    BY <1>3, <1>5, <2>1, <2>2
  <2>4. room[1] = n
    BY <1>1, <1>3, <2>1, <2>2 DEF Total, TotalCell
  <2>5. \A c \in Cells : c # 1 /\ c <= at => nb[c] = b[c]
    BY <1>3, <2>1, <2>3 DEF Cells
  <2>6. \A c \in Cells : c > at + 2 => nb[c] = b[c - 2]
    BY <1>3, <2>1, <2>3 DEF Cells
  <2> QED BY <2>3, <2>4, <2>5, <2>6 DEF Total, TotalCell
<1>7. \A c \in Header : nb[c] = b[c]
  <2>1. \A c \in Header : c \in Cells /\ c # 1 /\ c <= at
    BY <1>0, <1>3 DEF Header, TypeCell, ParentCell, LeftCell, RightCell, Cells
  <2> QED BY <1>6, <2>1
<1>8. ASSUME NEW q \in 0 .. n PROVE BranchEntryIs(nb, q, t[q + 1])
  <2> DEFINE d == BranchCell(q)
  <2>0. q \in Nat /\ d = 5 + q * 2 /\ d \in Nat /\ d + 2 < BlockCells /\ q + 1 \in 1 .. n + 1
    <3>1. q \in Nat /\ q < Capacity /\ q + 1 \in 1 .. n + 1
      BY <1>0
    <3> QED BY <3>1, BranchCells
  <2>1. d \in Cells /\ d + 1 \in Cells /\ d + 2 \in Cells /\ d # 1 /\ d + 1 # 1 /\ d + 2 # 1
    BY <1>0, <2>0 DEF Cells
  <2>2. CASE q < p
    <3>1. q \in 0 .. n - 1 /\ q + 1 <= p /\ d + 2 <= at /\ d + 1 <= at /\ d <= at
      BY <1>0, <1>3, <2>0, <2>2
    <3>2. t[q + 1] = s[q + 1] /\ BranchEntryIs(b, q, s[q + 1])
      BY <1>1, <1>2, <2>0, <3>1
    <3> HIDE DEF d
    <3>3. nb[d] = b[d] /\ nb[d + 1] = b[d + 1] /\ nb[d + 2] = b[d + 2]
      BY <1>6, <2>1, <3>1
    <3> QED BY <3>2, <3>3 DEF BranchEntryIs, d
  <2>3. CASE q = p
    <3>1. t[q + 1] = [key |-> k, lower |-> IF p = 0 THEN s[1].lower ELSE s[p].greater, greater |-> child]
      <4>1. q + 1 \in 1 .. n + 1 /\ ~(q + 1 <= p) /\ q + 1 = p + 1
        BY <1>0, <2>0, <2>3
      <4> QED BY <1>2, <4>1
    <3>2. d = at /\ nb[at] = b[at]
      BY <1>6, <2>0, <2>1, <2>3 DEF at
    <3>3. b[at] = IF p = 0 THEN s[1].lower ELSE s[p].greater
      <4>1. CASE p = 0
        <5>1. BranchEntryIs(b, 0, s[0 + 1])
          BY <1>0, <1>1
        <5> QED BY <4>1, <5>1 DEF BranchEntryIs, at
      <4>2. CASE p # 0
        <5> DEFINE r == p - 1
        <5>1. r \in 0 .. n - 1 /\ r + 1 = p /\ r \in Nat
          BY <1>0, <4>2
        <5> HIDE DEF r
        <5>2. BranchEntryIs(b, r, s[p])
          BY <1>1, <5>1
        <5>3. BranchCell(r) + 2 = at
          BY <5>1, BranchCells DEF at
        <5> QED BY <4>2, <5>2, <5>3 DEF BranchEntryIs
      <4> QED BY <4>1, <4>2
    <3> HIDE DEF d
    <3> QED BY <1>6, <3>1, <3>2, <3>3 DEF BranchEntryIs, d
  <2>4. CASE q > p
    <3> DEFINE r == q - 1
    <3>1. r \in 0 .. n - 1 /\ r + 1 = q /\ r \in Nat
      BY <1>0, <2>0, <2>4
    <3>2. BranchEntryIs(b, r, s[q])
      <4> HIDE DEF r
      <4> QED BY <1>1, <3>1
    <3>3. BranchCell(r) = d - 2
      BY <2>0, <3>1, BranchCells
    <3>4. d >= at + 2 /\ (d = at + 2 <=> q = p + 1)
      BY <1>0, <1>3, <2>0, <2>4
    <3> HIDE DEF d, r
    <3>5. nb[d + 1] = b[d - 2 + 1] /\ nb[d + 2] = b[d - 2 + 2]
      <4>1. (d + 1) - 2 = d - 2 + 1 /\ (d + 2) - 2 = d - 2 + 2 /\ d + 1 > at + 2 /\ d + 2 > at + 2
        BY <1>3, <2>0, <3>4
      <4> QED BY <1>6, <2>1, <4>1
    <3>6. CASE q = p + 1
      <4>1. q + 1 = p + 2 /\ q + 1 \in 1 .. n + 1 /\ ~(q + 1 <= p) /\ q + 1 # p + 1
        BY <1>0, <2>0, <3>6
      <4>2. t[q + 1] = [s[q] EXCEPT !.lower = child]
        BY <1>2, <3>6, <4>1
      <4>3. s[q] \in BranchEntry
        BY <1>0, <2>0, <3>6 DEF n
      <4>4. t[q + 1].lower = child /\ t[q + 1].key = s[q].key /\ t[q + 1].greater = s[q].greater
        BY <4>2, <4>3 DEF BranchEntry
      <4>5. nb[d] = child
        BY <1>6, <3>4, <3>6
      <4> QED BY <3>2, <3>3, <3>5, <4>4, <4>5 DEF BranchEntryIs, d
    <3>7. CASE q # p + 1
      <4>1. q + 1 \in 1 .. n + 1 /\ ~(q + 1 <= p) /\ q + 1 # p + 1 /\ q + 1 # p + 2 /\ (q + 1) - 1 = q
        BY <1>0, <2>0, <2>4, <3>7
      <4>2. t[q + 1] = s[q]
        BY <1>2, <4>1
      <4>3. nb[d] = b[d - 2]
        BY <1>3, <1>6, <2>0, <2>1, <3>4, <3>7
      <4> QED BY <3>2, <3>3, <3>5, <4>2, <4>3 DEF BranchEntryIs, d
    <3> QED BY <3>6, <3>7
  <2> QED BY <1>0, <2>0, <2>2, <2>3, <2>4
<1>9. BranchHas(nb, t)
  <2>1. (n + 1) - 1 = n
    BY <1>0
  <2> QED BY <1>2, <1>6, <1>8, <2>1 DEF BranchHas
<1> QED
  BY <1>2, <1>7, <1>9 DEF n

\* Unshift puts key and child before the others
\* (uint32_index_node_adapter.go:434-447, in_memory_adapter.go:288-295).
LEMMA BranchUnshiftIs ==
    ASSUME NEW s \in Seq(BranchEntry), Len(s) > 0, NEW b, BranchHas(b, s), Len(s) < Capacity,
           NEW k \in Keys, NEW child \in ChildIDs,
           NEW nb, nb = BranchUnshift(b, k, child),
           NEW t, t = MemoryUnshift(s, k, child)
    PROVE  /\ t \in Seq(BranchEntry) /\ Len(t) = Len(s) + 1
           /\ BranchHas(nb, t)
           /\ \A c \in Header : nb[c] = b[c]
<1> DEFINE n == Len(s)
           e == [key |-> k, lower |-> child, greater |-> s[1].lower]
           room == ShiftUp(b, 5, 2)
<1>0. n \in Nat /\ BlockCells \in Nat /\ Capacity \in Nat /\ n < Capacity /\ n > 0
      /\ BlockCells > 5 + Capacity * 2
  BY NodesAssumption DEF EntriesAt, LeafJump
<1>1. DOMAIN b = Cells /\ Total(b) = n /\ \A q \in 0 .. n - 1 : BranchEntryIs(b, q, s[q + 1])
  BY DEF BranchHas
<1>2. /\ t \in Seq(BranchEntry) /\ Len(t) = n + 1
      /\ t[1] = e /\ \A i \in 1 .. n : t[i + 1] = s[i]
  <2>1. e \in BranchEntry
    <3>1. s[1] \in BranchEntry
      BY <1>0
    <3> QED BY <3>1 DEF BranchEntry
  <2> HIDE DEF e
  <2>2. t = <<e>> \o s
    BY Zenon DEF MemoryUnshift, e
  <2> QED BY <1>0, <2>1, <2>2
<1>3. /\ DOMAIN room = Cells
      /\ \A c \in Cells : room[c] = IF c >= 7 THEN b[c - 2] ELSE b[c]
  BY <1>1 DEF ShiftUp
<1>4. nb = [room EXCEPT ![1] = @ + 1, ![5] = child, ![5 + 1] = k]
  BY DEF BranchUnshift, TotalCell, EntriesAt, BranchJump
<1> HIDE DEF n, room
<1>5. /\ DOMAIN nb = Cells /\ Total(nb) = n + 1 /\ nb[5] = child /\ nb[6] = k
      /\ \A c \in Cells : c # 1 /\ c < 5 => nb[c] = b[c]
      /\ \A c \in Cells : c > 6 => nb[c] = b[c - 2]
  <2>1. 1 \in Cells /\ 5 \in Cells /\ 6 \in Cells
    BY <1>0 DEF Cells
  <2>2. /\ DOMAIN nb = Cells /\ nb[1] = room[1] + 1 /\ nb[5] = child /\ nb[6] = k
        /\ \A c \in Cells : c \notin {1, 5, 6} => nb[c] = room[c]
    BY <1>3, <1>4, <2>1
  <2>3. room[1] = n
    BY <1>1, <1>3, <2>1 DEF Total, TotalCell
  <2>4. \A c \in Cells : c # 1 /\ c < 5 => nb[c] = b[c]
    BY <1>3, <2>2 DEF Cells
  <2>5. \A c \in Cells : c > 6 => nb[c] = b[c - 2]
    BY <1>3, <2>2 DEF Cells
  <2> QED BY <2>2, <2>3, <2>4, <2>5 DEF Total, TotalCell
<1>6. \A c \in Header : nb[c] = b[c]
  <2>1. \A c \in Header : c \in Cells /\ c # 1 /\ c < 5
    BY <1>0 DEF Header, TypeCell, ParentCell, LeftCell, RightCell, Cells
  <2> QED BY <1>5, <2>1
<1>7. ASSUME NEW q \in 0 .. n PROVE BranchEntryIs(nb, q, t[q + 1])
  <2>1. CASE q = 0
    <3>1. BranchEntryIs(b, 0, s[0 + 1])
      BY <1>0, <1>1
    <3>2. BranchCell(0) = 5
      BY BranchCells
    <3>3. nb[7] = b[5]
      <4>1. 7 \in Cells /\ 7 - 2 = 5
        BY <1>0 DEF Cells
      <4> QED BY <1>5, <4>1
    <3> QED BY <1>2, <1>5, <2>1, <3>1, <3>2, <3>3 DEF BranchEntryIs
  <2>2. CASE q # 0
    <3> DEFINE r == q - 1
               d == BranchCell(q)
    <3>1. r \in 0 .. n - 1 /\ r + 1 = q /\ r \in Nat /\ q \in 1 .. n /\ q \in Nat /\ q < Capacity
      BY <1>0, <2>2
    <3>2. d = 5 + q * 2 /\ d \in Nat /\ d + 2 < BlockCells /\ BranchCell(r) = d - 2
      <4> HIDE DEF r
      <4>1. BranchCell(q) = 5 + q * 2 /\ BranchCell(q) \in Nat /\ BranchCell(q) + 2 < BlockCells
        BY <3>1, BranchCells
      <4>2. BranchCell(r) = 5 + r * 2
        BY <3>1, BranchCells
      <4>3. 5 + r * 2 = (5 + q * 2) - 2
        BY <3>1
      <4> QED BY <4>1, <4>2, <4>3
    <3>3. d \in Cells /\ d + 1 \in Cells /\ d + 2 \in Cells /\ d > 6
      BY <1>0, <3>1, <3>2 DEF Cells
    <3> HIDE DEF d, r
    <3>4. BranchEntryIs(b, r, s[q])
      BY <1>1, <3>1
    <3>5. nb[d] = b[d - 2] /\ nb[d + 1] = b[d - 2 + 1] /\ nb[d + 2] = b[d - 2 + 2]
      <4>1. (d + 1) - 2 = d - 2 + 1 /\ (d + 2) - 2 = d - 2 + 2 /\ d + 1 > 6 /\ d + 2 > 6
        BY <3>2, <3>3
      <4> QED BY <1>5, <3>3, <4>1
    <3> QED BY <1>2, <3>1, <3>2, <3>4, <3>5 DEF BranchEntryIs, d
  <2> QED BY <2>1, <2>2
<1>8. BranchHas(nb, t)
  <2>1. (n + 1) - 1 = n
    BY <1>0
  <2> QED BY <1>2, <1>5, <1>7, <2>1 DEF BranchHas
<1> QED
  BY <1>2, <1>6, <1>8 DEF n

\* Sequence t is s without the key at position p and without the child to its right, or,
\* if the cells move from the first one on, without the first key and the first child.
Dropped(t, s, p, from) ==
    /\ Len(t) = Len(s) - 1
    /\ \A i \in 1 .. Len(s) - 1 : t[i] =
          IF i <= p THEN s[i]
          ELSE IF i = p + 1 /\ from # 5 THEN [s[i + 1] EXCEPT !.lower = s[i].lower]
          ELSE s[i + 1]

DropCells(b, from) == [CopyDown(b, from, 2) EXCEPT ![1] = @ - 1]

\* A key goes with its right child (Shift, and DeleteAt in memory), or the first one with
\* its left child (DeleteAt), and the rest of the block moves
\* (uint32_index_node_adapter.go:341-360, 393-399).
LEMMA BranchDrop ==
    ASSUME NEW s \in Seq(BranchEntry), NEW b, BranchHas(b, s), Len(s) > 0, Len(s) <= Capacity,
           NEW p \in 0 .. Len(s) - 1, NEW from, from = BranchCell(p) + 1 \/ (p = 0 /\ from = 5),
           NEW nb, nb = DropCells(b, from),
           NEW t \in Seq(BranchEntry), Dropped(t, s, p, from)
    PROVE  /\ BranchHas(nb, t)
           /\ \A c \in Header : nb[c] = b[c]
<1> DEFINE n == Len(s)
           room == CopyDown(b, from, 2)
<1>0a. n \in Nat /\ BlockCells \in Nat /\ Capacity \in Nat /\ n <= Capacity /\ n > 0
       /\ BlockCells > 5 + Capacity * 2 /\ p \in Nat /\ p < n
  BY NodesAssumption DEF EntriesAt, LeafJump
<1>0b. BranchCell(p) = 5 + p * 2
  BY <1>0a, BranchCells
<1>0. n \in Nat /\ BlockCells \in Nat /\ Capacity \in Nat /\ n <= Capacity /\ n > 0
      /\ BlockCells > 5 + Capacity * 2 /\ from \in Nat /\ p \in Nat /\ p < n
      /\ (from = 6 + p * 2 \/ (p = 0 /\ from = 5)) /\ from >= 5
  <2>1. from = 6 + p * 2 \/ (p = 0 /\ from = 5)
    BY <1>0a, <1>0b
  <2> QED BY <1>0a, <2>1
<1>1. DOMAIN b = Cells /\ Total(b) = n /\ \A q \in 0 .. n - 1 : BranchEntryIs(b, q, s[q + 1])
  BY DEF BranchHas
<1>2. /\ DOMAIN room = Cells
      /\ \A c \in Cells : room[c] = IF c >= from /\ c + 2 < BlockCells THEN b[c + 2] ELSE b[c]
  BY <1>1 DEF CopyDown
<1> HIDE DEF n, room
<1>3. /\ DOMAIN nb = Cells /\ Total(nb) = n - 1
      /\ \A c \in Cells : c # 1 /\ ~(c >= from /\ c + 2 < BlockCells) => nb[c] = b[c]
      /\ \A c \in Cells : c >= from /\ c + 2 < BlockCells => nb[c] = b[c + 2]
  <2>1. 1 \in Cells /\ ~(1 >= from)
    BY <1>0 DEF Cells
  <2>2. nb = [room EXCEPT ![1] = @ - 1]
    BY DEF room, DropCells
  <2>3. DOMAIN nb = Cells /\ nb[1] = room[1] - 1 /\ \A c \in Cells : c # 1 => nb[c] = room[c]
    BY <1>2, <2>1, <2>2
  <2>4. room[1] = n
    BY <1>1, <1>2, <2>1 DEF Total, TotalCell
  <2>5. \A c \in Cells : c >= from => c # 1
    BY <2>1
  <2> QED BY <1>2, <2>3, <2>4, <2>5 DEF Total, TotalCell
<1>4. \A c \in Header : nb[c] = b[c]
  <2>1. \A c \in Header : c \in Cells /\ c # 1 /\ ~(c >= from)
    BY <1>0 DEF Header, TypeCell, ParentCell, LeftCell, RightCell, Cells
  <2> QED BY <1>3, <2>1
<1>5. ASSUME NEW q \in 0 .. n - 2 PROVE BranchEntryIs(nb, q, t[q + 1])
  <2> DEFINE r == q + 1
             d == BranchCell(q)
  <2>1. r \in 0 .. n - 1 /\ r \in Nat /\ r \in 1 .. n - 1 /\ r + 1 = q + 2 /\ q \in Nat /\ r < Capacity
        /\ q < Capacity /\ q \in 0 .. n - 1
    BY <1>0
  <2>2. d = 5 + q * 2 /\ d \in Nat /\ BranchCell(r) = d + 2 /\ d + 4 < BlockCells
    <3>1. BranchCell(r) + 2 < BlockCells
      <4> HIDE DEF r
      <4> QED BY <2>1, BranchCells
    <3>2. d = 5 + q * 2 /\ d \in Nat /\ BranchCell(q + 1) = d + 2
      BY <2>1, BranchCells
    <3> QED BY <3>1, <3>2
  <2>2a. d = 5 + q * 2 /\ d \in Nat /\ d + 4 < BlockCells /\ d >= 5
    BY <2>1, <2>2
  <2>3. BranchEntryIs(b, r, s[q + 2]) /\ BranchEntryIs(b, q, s[r])
    <3>1. BranchEntryIs(b, q, s[r])
      BY <1>1, <2>1
    <3> HIDE DEF r
    <3>2. BranchEntryIs(b, r, s[q + 2])
      BY <1>1, <2>1
    <3> QED BY <3>1, <3>2
  <2>4. t[r] = IF r <= p THEN s[r]
               ELSE IF r = p + 1 /\ from # 5 THEN [s[r + 1] EXCEPT !.lower = s[r].lower] ELSE s[r + 1]
    <3> HIDE DEF r
    <3> QED BY <2>1 DEF n, Dropped
  <2> HIDE DEF d
  <2>5. d \in Cells /\ d + 1 \in Cells /\ d + 2 \in Cells /\ d # 1 /\ d + 1 # 1 /\ d + 2 # 1
        /\ d + 2 < BlockCells /\ (d + 1) + 2 < BlockCells /\ (d + 2) + 2 < BlockCells
        /\ (d + 1) + 2 = d + 2 + 1 /\ (d + 2) + 2 = d + 2 + 2
    BY <1>0, <2>2a DEF Cells
  <2>6. CASE q < p
    <3>1. ~(d >= from) /\ ~(d + 1 >= from) /\ ~(d + 2 >= from) /\ r <= p
      BY <1>0, <2>1, <2>2a, <2>6
    <3>2. nb[d] = b[d] /\ nb[d + 1] = b[d + 1] /\ nb[d + 2] = b[d + 2]
      BY <1>3, <2>5, <3>1
    <3>3. t[r] = s[r]
      BY <2>4, <3>1
    <3> QED BY <2>3, <3>2, <3>3, Zenon DEF BranchEntryIs, d, r
  <2>7. CASE q >= p
    <3>1. d + 1 >= from /\ d + 2 >= from /\ ~(r <= p)
      <4>1. q * 2 >= p * 2
        BY <1>0, <2>1, <2>7
      <4> QED BY <1>0, <2>1, <2>2a, <2>7, <4>1
    <3>2. nb[d + 1] = b[d + 2 + 1] /\ nb[d + 2] = b[d + 2 + 2]
      BY <1>3, <2>5, <3>1
    <3>3. CASE q = p /\ from # 5
      <4>1. ~(d >= from) /\ r = p + 1
        BY <1>0, <2>1, <2>2a, <3>3
      <4>2. nb[d] = b[d]
        BY <1>3, <2>5, <4>1
      <4>3. s[r + 1] \in BranchEntry /\ s[r + 1] = s[q + 2]
        <5>1. r + 1 \in 1 .. n
          BY <1>0, <2>1
        <5> QED BY <2>1, <5>1 DEF n
      <4>4. t[r] = [s[r + 1] EXCEPT !.lower = s[r].lower]
        BY <2>4, <3>1, <3>3, <4>1
      <4> HIDE DEF r
      <4>5. t[r].lower = s[r].lower /\ t[r].key = s[q + 2].key /\ t[r].greater = s[q + 2].greater
        BY <4>3, <4>4 DEF BranchEntry
      <4> QED BY <2>2, <2>3, <3>2, <4>2, <4>5 DEF BranchEntryIs, d, r
    <3>4. CASE ~(q = p /\ from # 5)
      <4>1. d >= from /\ ~(r = p + 1 /\ from # 5)
        <5>1. CASE q = p
          BY <1>0, <2>1, <2>2a, <3>4, <5>1
        <5>2. CASE q # p
          <6>1. q * 2 >= p * 2 + 2
            BY <1>0, <2>1, <2>7, <5>2
          <6> QED BY <1>0, <2>1, <2>2a, <5>2, <6>1
        <5> QED BY <5>1, <5>2
      <4>2. nb[d] = b[d + 2]
        BY <1>3, <2>5, <4>1
      <4>3. t[r] = s[q + 2]
        BY <2>1, <2>4, <3>1, <4>1
      <4> QED BY <2>2, <2>3, <3>2, <4>2, <4>3 DEF BranchEntryIs, d
    <3> QED BY <3>3, <3>4
  <2> QED BY <1>0, <2>1, <2>6, <2>7
<1>6. BranchHas(nb, t)
  <2>1. (n - 1) - 1 = n - 2
    BY <1>0
  <2>2. Len(t) = n - 1
    BY DEF Dropped, n
  <2> QED BY <1>3, <1>5, <2>1, <2>2 DEF BranchHas
<1> QED
  BY <1>4, <1>6

\* Shift drops the first key and the child to its right
\* (uint32_index_node_adapter.go:393-399, in_memory_adapter.go:247-251).
LEMMA BranchShiftIs ==
    ASSUME NEW s \in Seq(BranchEntry), NEW b, BranchHas(b, s), Len(s) > 1, Len(s) <= Capacity,
           NEW nb, nb = BranchShift(b), NEW t, t = MemoryShift(s)
    PROVE  /\ t \in Seq(BranchEntry) /\ Len(t) = Len(s) - 1
           /\ BranchHas(nb, t)
           /\ \A c \in Header : nb[c] = b[c]
<1> DEFINE rest == Tail(s)
           e == [s[2] EXCEPT !.lower = s[1].lower]
<1>0. Len(s) \in Nat /\ 1 \in 1 .. Len(s) /\ 2 \in 1 .. Len(s)
  OBVIOUS
<1>1. /\ rest \in Seq(BranchEntry) /\ Len(rest) = Len(s) - 1
      /\ \A i \in 1 .. Len(s) - 1 : rest[i] = s[i + 1]
  BY <1>0
<1>2. e \in BranchEntry
  <2>1. s[1] \in BranchEntry /\ s[2] \in BranchEntry
    BY <1>0
  <2> QED BY <2>1 DEF BranchEntry
<1>3. t = [rest EXCEPT ![1].lower = s[1].lower]
  BY Zenon DEF MemoryShift
<1> HIDE DEF rest
<1>4. t = [rest EXCEPT ![1] = e]
  <2>1. rest[1] = s[2]
    <3>1. 1 \in 1 .. Len(s) - 1 /\ 1 + 1 = 2
      BY <1>0
    <3> QED BY <1>1, <3>1
  <2> QED BY <1>3, <2>1
<1> HIDE DEF e
<1>5. t \in Seq(BranchEntry) /\ Len(t) = Len(s) - 1
      /\ \A i \in 1 .. Len(s) - 1 : t[i] = IF i = 1 THEN e ELSE s[i + 1]
  BY <1>0, <1>1, <1>2, <1>4
<1>6. Dropped(t, s, 0, 6)
  <2>0. PICK z : z = [s[2] EXCEPT !.lower = s[1].lower]
    OBVIOUS
  <2>1. z = e
    BY <2>0, Zenon DEF e
  <2>2. ASSUME NEW i \in 1 .. Len(s) - 1
        PROVE  t[i] = IF i <= 0 THEN s[i] ELSE IF i = 0 + 1 /\ 6 # 5
                      THEN [s[i + 1] EXCEPT !.lower = s[i].lower] ELSE s[i + 1]
    <3>1. ~(i <= 0)
      OBVIOUS
    <3>2. CASE i = 1
      <4>1. t[i] = z /\ i + 1 = 2 /\ i = 0 + 1
        BY <1>5, <2>1, <3>2
      <4>2. t[i] = [s[i + 1] EXCEPT !.lower = s[i].lower]
        BY <2>0, <3>2, <4>1
      <4> QED BY <3>1, <4>1, <4>2
    <3>3. CASE i # 1
      BY <1>5, <3>1, <3>3
    <3> QED BY <3>2, <3>3
  <2> QED BY <1>5, <2>2 DEF Dropped
<1>7. nb = DropCells(b, 6)
  <2>1. EntriesAt + 1 = 6 /\ BranchJump = 2 /\ TotalCell = 1
    BY DEF EntriesAt, BranchJump, TotalCell
  <2>2. nb = [CopyDown(b, EntriesAt + 1, BranchJump) EXCEPT ![TotalCell] = @ - 1]
    BY DEF BranchShift
  <2>3. nb = [CopyDown(b, 6, 2) EXCEPT ![1] = @ - 1]
    BY <2>1, <2>2, Zenon
  <2> QED BY <2>3, Zenon DEF DropCells
<1>8. Len(s) > 0 /\ 0 \in 0 .. Len(s) - 1 /\ 6 = BranchCell(0) + 1
  <2>1. 0 \in Nat
    OBVIOUS
  <2>2. BranchCell(0) = 5 + 0 * 2
    BY <2>1, BranchCells
  <2> QED BY <1>0, <2>2
<1>9. BranchHas(nb, t)
  BY <1>5, <1>6, <1>7, <1>8, BranchDrop
<1>10. \A c \in Header : nb[c] = b[c]
  BY <1>5, <1>6, <1>7, <1>8, BranchDrop
<1> QED
  BY <1>5, <1>9, <1>10

\* DeleteAt takes out the first entry, or the last one
\* (uint32_index_node_adapter.go:341-360).
LEMMA BranchDeleteIs ==
    ASSUME NEW s \in Seq(BranchEntry), NEW b, BranchHas(b, s), Len(s) > 0, Len(s) <= Capacity,
           NEW p \in {0, Len(s) - 1}, NEW nb, nb = BranchDeleteAt(b, p), NEW t, t = Take(s, p)
    PROVE  /\ t \in Seq(BranchEntry) /\ Len(t) = Len(s) - 1
           /\ BranchHas(nb, t)
           /\ \A c \in Header : nb[c] = b[c]
<1> DEFINE n == Len(s)
<1>0. n \in Nat /\ p \in Nat /\ p \in 0 .. n - 1 /\ n > 0 /\ BlockCells \in Nat /\ BlockCells >= 8
  BY NodesAssumption DEF EntriesAt, LeafJump
<1>1. DOMAIN b = Cells /\ Total(b) = n /\ \A q \in 0 .. n - 1 : BranchEntryIs(b, q, s[q + 1])
  BY DEF BranchHas
<1>2. t \in Seq(BranchEntry) /\ RemovedAt(t, s, p)
  BY <1>0, Removed
<1>3. Len(t) = n - 1 /\ \A i \in 1 .. n - 1 : t[i] = IF i <= p THEN s[i] ELSE s[i + 1]
  BY <1>2 DEF RemovedAt
<1>4. CASE p = n - 1
  <2>1. nb = [b EXCEPT ![1] = @ - 1]
    BY <1>1, <1>4 DEF BranchDeleteAt, TotalCell
  <2> HIDE DEF n
  <2>2. 1 \in Cells /\ b[1] = n
    BY <1>0, <1>1 DEF Cells, Total, TotalCell
  <2>3. DOMAIN nb = Cells /\ nb[1] = n - 1 /\ \A c \in Cells : c # 1 => nb[c] = b[c]
    BY <1>1, <2>1, <2>2
  <2>4. \A c \in Header : nb[c] = b[c]
    BY <1>0, <2>3 DEF Header, TypeCell, ParentCell, LeftCell, RightCell, Cells
  <2>5. ASSUME NEW q \in 0 .. n - 2 PROVE BranchEntryIs(nb, q, t[q + 1])
    <3>1. q \in 0 .. n - 1 /\ q \in Nat /\ q + 1 \in 1 .. n - 1 /\ q + 1 <= p
      BY <1>0, <1>4
    <3>2. t[q + 1] = s[q + 1] /\ BranchEntryIs(b, q, s[q + 1])
      BY <1>1, <1>3, <3>1
    <3> DEFINE d == BranchCell(q)
    <3>3. d = 5 + q * 2 /\ d + 2 < BlockCells
      <4>1. q < Capacity
        BY <1>0, <3>1, NodesAssumption DEF n
      <4> QED BY <3>1, <4>1, BranchCells
    <3> HIDE DEF d
    <3>4. d \in Cells /\ d + 1 \in Cells /\ d + 2 \in Cells /\ d # 1 /\ d + 1 # 1 /\ d + 2 # 1
      BY <1>0, <3>1, <3>3 DEF Cells
    <3> QED BY <2>3, <3>2, <3>4 DEF BranchEntryIs, d
  <2>6. BranchHas(nb, t)
    <3>1. (n - 1) - 1 = n - 2
      BY <1>0
    <3> QED BY <1>3, <2>3, <2>5, <3>1 DEF BranchHas, Total, TotalCell
  <2> QED BY <1>2, <1>3, <1>4, <2>4, <2>6 DEF n
<1>5. CASE p # n - 1
  <2>1. p = 0 /\ n - 1 > 0
    BY <1>0, <1>5
  <2>2. nb = DropCells(b, 5)
    <3>1. BranchCell(0) = 5
      BY BranchCells
    <3> QED BY <1>1, <1>5, <2>1, <3>1 DEF BranchDeleteAt, DropCells, BranchJump, TotalCell
  <2>3. Dropped(t, s, p, 5)
    <3>1. \A i \in 1 .. n - 1 : ~(i <= p)
      BY <1>0, <2>1
    <3> QED BY <1>3, <3>1 DEF Dropped
  <2>4. /\ BranchHas(nb, t)
        /\ \A c \in Header : nb[c] = b[c]
    BY <1>0, <1>2, <2>1, <2>2, <2>3, BranchDrop
  <2> QED BY <1>2, <1>3, <2>1, <2>4
<1> QED
  BY <1>4, <1>5

\* In a node with this block two neighbours have the child between them
\* (in_memory_adapter.go:264-295).
LEMMA NeighboursShare ==
    ASSUME NEW s \in Seq(BranchEntry), NEW b, BranchHas(b, s), NEW i \in 1 .. Len(s) - 1
    PROVE  s[i].greater = s[i + 1].lower
<1>1. i - 1 \in 0 .. Len(s) - 1 /\ i \in 0 .. Len(s) - 1 /\ (i - 1) + 1 = i /\ i - 1 \in Nat
  OBVIOUS
<1>2. BranchEntryIs(b, i - 1, s[i]) /\ BranchEntryIs(b, i, s[i + 1])
  BY <1>1 DEF BranchHas
<1>3. BranchCell(i) = BranchCell(i - 1) + 2
  BY <1>1, BranchCells
<1>. QED
  BY <1>2, <1>3 DEF BranchEntryIs

\* A delete in the middle as memory makes it: what the block becomes if the key goes
\* with the child to its right (in_memory_adapter.go:226-236).
LEMMA MiddleDeleteIs ==
    ASSUME NEW s \in Seq(BranchEntry), NEW b, BranchHas(b, s), Len(s) <= Capacity,
           NEW p \in 1 .. Len(s) - 2, NEW nb, nb = DropCells(b, BranchCell(p) + 1),
           NEW t, t = MemoryDeleteAt(s, p)
    PROVE  /\ t \in Seq(BranchEntry) /\ Len(t) = Len(s) - 1
           /\ BranchHas(nb, t)
           /\ \A c \in Header : nb[c] = b[c]
<1> DEFINE n == Len(s)
           e == [s[p + 2] EXCEPT !.lower = s[p].greater]
           joined == [s EXCEPT ![p + 2] = e]
<1>0. n \in Nat /\ p \in Nat /\ p > 0 /\ p < n - 1 /\ p + 2 \in 1 .. n /\ p + 1 \in 1 .. n /\ p \in 1 .. n
      /\ p \in 0 .. n - 1 /\ p \in 1 .. n - 1 /\ n > 0
  OBVIOUS
<1>1. s[p].greater = s[p + 1].lower
  <2> HIDE DEF n
  <2> QED BY <1>0, NeighboursShare DEF n
<1>2. e \in BranchEntry
  <2>1. s[p] \in BranchEntry /\ s[p + 2] \in BranchEntry
    BY <1>0
  <2> QED BY <2>1 DEF BranchEntry
<1>3. t = Take(joined, p)
  <2>1. p > 0 /\ p < Len(s) - 1
    BY <1>0
  <2> QED BY <2>1, Zenon DEF MemoryDeleteAt, Take
<1> HIDE DEF e
<1>4. joined \in Seq(BranchEntry) /\ Len(joined) = n
      /\ \A i \in 1 .. n : joined[i] = IF i = p + 2 THEN e ELSE s[i]
  BY <1>0, <1>2
<1> HIDE DEF joined, n
<1>5. t \in Seq(BranchEntry) /\ RemovedAt(t, joined, p)
  BY <1>0, <1>3, <1>4, Removed
<1>6. Len(t) = n - 1 /\ \A i \in 1 .. n - 1 : t[i] = IF i <= p THEN joined[i] ELSE joined[i + 1]
  BY <1>4, <1>5 DEF RemovedAt
<1> DEFINE from == BranchCell(p) + 1
<1>7. from # 5
  <2>1. BranchCell(p) = 5 + p * 2
    BY <1>0, BranchCells
  <2> QED BY <1>0, <2>1
<1>8. ASSUME NEW i \in 1 .. n - 1
      PROVE  t[i] = IF i <= p THEN s[i]
                    ELSE IF i = p + 1 /\ from # 5 THEN [s[i + 1] EXCEPT !.lower = s[i].lower]
                    ELSE s[i + 1]
  <2> HIDE DEF from
  <2>1. i \in 1 .. n /\ i + 1 \in 1 .. n /\ i \in Nat
    BY <1>0
  <2>2. CASE i <= p
    <3>1. i # p + 2
      BY <1>0, <2>1, <2>2
    <3> QED BY <1>4, <1>6, <2>1, <2>2, <3>1
  <2>3. CASE i = p + 1
    <3>1. ~(i <= p) /\ i + 1 = p + 2
      BY <1>0, <2>3
    <3>2. t[i] = e
      BY <1>4, <1>6, <2>1, <3>1
    <3>3. e = [s[i + 1] EXCEPT !.lower = s[i].lower]
      BY <1>1, <2>3, <3>1, Zenon DEF e
    <3> QED BY <1>7, <2>3, <3>1, <3>2, <3>3
  <2>4. CASE i > p + 1
    <3>1. ~(i <= p) /\ i # p + 1 /\ i + 1 # p + 2
      BY <1>0, <2>1, <2>4
    <3> QED BY <1>4, <1>6, <2>1, <3>1
  <2> QED BY <1>0, <2>1, <2>2, <2>3, <2>4
<1>9. Dropped(t, s, p, from)
  <2> HIDE DEF from
  <2> QED BY <1>6, <1>8 DEF Dropped, n
<1>10. BranchHas(nb, t)
  BY <1>0, <1>5, <1>9, BranchDrop DEF n
<1>11. \A c \in Header : nb[c] = b[c]
  BY <1>0, <1>5, <1>9, BranchDrop DEF n
<1> QED
  BY <1>5, <1>6, <1>10, <1>11 DEF n

\* The key at position p of a block and of a sequence.
BlockKeyReplaced(b, p, k) == [b EXCEPT ![BranchCell(p) + 1] = k]
KeyReplaced(s, p, k) == [s EXCEPT ![p + 1].key = k]

\* ReplaceKeyAt (uint32_index_node_adapter.go:362-373).
LEMMA BranchReplaceIs ==
    ASSUME NEW s \in Seq(BranchEntry), NEW b, BranchHas(b, s), Len(s) <= Capacity,
           NEW p \in 0 .. Len(s) - 1, NEW k \in Keys,
           NEW nb, nb = BlockKeyReplaced(b, p, k), NEW t, t = KeyReplaced(s, p, k)
    PROVE  /\ t \in Seq(BranchEntry) /\ Len(t) = Len(s)
           /\ BranchHas(nb, t)
           /\ \A c \in Header : nb[c] = b[c]
<1> DEFINE n == Len(s)
           e == [s[p + 1] EXCEPT !.key = k]
           at == BranchCell(p)
<1>0. n \in Nat /\ p \in Nat /\ p < n /\ n <= Capacity /\ Capacity \in Nat
      /\ BlockCells \in Nat /\ BlockCells > 5 + Capacity * 2
  BY NodesAssumption DEF EntriesAt, LeafJump
<1>1. DOMAIN b = Cells /\ Total(b) = n /\ \A q \in 0 .. n - 1 : BranchEntryIs(b, q, s[q + 1])
  BY DEF BranchHas
<1>2. p + 1 \in 1 .. n /\ s[p + 1] \in BranchEntry
  BY <1>0
<1>3. e \in BranchEntry /\ e.key = k /\ e.lower = s[p + 1].lower /\ e.greater = s[p + 1].greater
  BY <1>2 DEF BranchEntry
<1>4. t = [s EXCEPT ![p + 1] = e]
  BY DEF KeyReplaced
<1> HIDE DEF e
<1>5. t \in Seq(BranchEntry) /\ Len(t) = n /\ \A i \in 1 .. n : t[i] = IF i = p + 1 THEN e ELSE s[i]
  BY <1>2, <1>3, <1>4
<1>6. at = 5 + p * 2 /\ at + 2 < BlockCells /\ BranchCell(n) = 5 + n * 2
  <2>1. p < Capacity
    BY <1>0
  <2> QED BY <1>0, <2>1, BranchCells
<1>7. DOMAIN nb = Cells /\ nb[at + 1] = k /\ \A c \in Cells : c # at + 1 => nb[c] = b[c]
  <2>1. at + 1 \in Cells
    BY <1>0, <1>6 DEF Cells
  <2> QED BY <1>1, <2>1 DEF BlockKeyReplaced
<1> HIDE DEF n, at
<1>8. \A c \in Header : nb[c] = b[c] /\ nb[1] = b[1]
  <2>1. \A c \in Header \cup {1} : c \in Cells /\ c # at + 1
    BY <1>0, <1>6 DEF Header, TypeCell, ParentCell, LeftCell, RightCell, Cells
  <2> QED BY <1>7, <2>1
<1>9. ASSUME NEW q \in 0 .. n - 1 PROVE BranchEntryIs(nb, q, t[q + 1])
  <2> DEFINE d == BranchCell(q)
  <2>1. q \in Nat /\ q + 1 \in 1 .. n /\ q < Capacity
    BY <1>0
  <2>2. d = 5 + q * 2 /\ d + 2 < BlockCells
    BY <2>1, BranchCells
  <2>3. BranchEntryIs(b, q, s[q + 1])
    BY <1>1
  <2> HIDE DEF d
  <2>4. d \in Cells /\ d + 1 \in Cells /\ d + 2 \in Cells /\ d # at + 1 /\ d + 2 # at + 1
    BY <1>0, <1>6, <2>1, <2>2 DEF Cells
  <2>5. nb[d] = b[d] /\ nb[d + 2] = b[d + 2]
    BY <1>7, <2>4
  <2>6. CASE q = p
    BY <1>3, <1>5, <1>7, <2>1, <2>3, <2>5, <2>6 DEF BranchEntryIs, d, at
  <2>7. CASE q # p
    <3>1. d + 1 # at + 1 /\ q + 1 # p + 1
      BY <1>0, <1>6, <2>1, <2>2, <2>7
    <3>2. nb[d + 1] = b[d + 1]
      BY <1>7, <2>4, <3>1
    <3>3. t[q + 1] = s[q + 1]
      BY <1>5, <2>1, <3>1
    <3> QED BY <2>3, <2>5, <3>2, <3>3 DEF BranchEntryIs, d
  <2> QED BY <2>6, <2>7
<1>10. BranchHas(nb, t)
  <2>1. nb[1] = b[1]
    BY <1>8 DEF Header
  <2> QED BY <1>1, <1>5, <1>7, <1>9, <2>1 DEF BranchHas, Total, TotalCell
<1> QED
  BY <1>5, <1>8, <1>10 DEF n

\* DeleteFrom leaves the first n entries and returns the others
\* (uint32_index_node_adapter.go:375-391).
LEMMA BranchCutIs ==
    ASSUME NEW s \in Seq(BranchEntry), NEW b, BranchHas(b, s), Len(s) <= Capacity,
           NEW n \in 0 .. Len(s), NEW nb, nb = CutTo(b, n)
    PROVE  /\ BranchHas(nb, SubSeq(s, 1, n))
           /\ \A c \in Header : nb[c] = b[c]
           /\ BranchEntries(b, n) = SubSeq(s, n + 1, Len(s))
<1>0. Len(s) \in Nat /\ n \in Nat /\ n <= Len(s) /\ BlockCells \in Nat /\ BlockCells >= 8
      /\ Capacity \in Nat /\ Len(s) <= Capacity
  BY NodesAssumption DEF EntriesAt, LeafJump
<1>1. DOMAIN b = Cells /\ Total(b) = Len(s) /\ \A q \in 0 .. Len(s) - 1 : BranchEntryIs(b, q, s[q + 1])
  BY DEF BranchHas
<1>2. DOMAIN nb = Cells /\ Total(nb) = n /\ \A c \in Cells : c # 1 => nb[c] = b[c]
  BY <1>0, <1>1 DEF CutTo, Total, TotalCell, Cells
<1>3. \A c \in Header : nb[c] = b[c]
  BY <1>0, <1>2 DEF Header, TypeCell, ParentCell, LeftCell, RightCell, Cells
<1>4. ASSUME NEW q \in 0 .. n - 1 PROVE BranchEntryIs(nb, q, s[q + 1])
  <2> DEFINE d == BranchCell(q)
  <2>1. BranchEntryIs(b, q, s[q + 1]) /\ q \in Nat /\ q < Capacity
    BY <1>0, <1>1
  <2>2. d = 5 + q * 2 /\ d + 2 < BlockCells
    BY <2>1, BranchCells
  <2> HIDE DEF d
  <2>3. d \in Cells /\ d + 1 \in Cells /\ d + 2 \in Cells /\ d # 1 /\ d + 1 # 1 /\ d + 2 # 1
    BY <1>0, <2>1, <2>2 DEF Cells
  <2> QED BY <1>2, <2>1, <2>3 DEF BranchEntryIs, d
<1> DEFINE left == SubSeq(s, 1, n)
           right == SubSeq(s, n + 1, Len(s))
<1>5. /\ Len(left) = n /\ \A i \in 1 .. n : left[i] = s[i]
      /\ right \in Seq(BranchEntry) /\ Len(right) = Len(s) - n
      /\ \A i \in 1 .. Len(s) - n : right[i] = s[n + i]
  BY Cut
<1> HIDE DEF left, right
<1>6. BranchHas(nb, left)
  <2>1. \A q \in 0 .. n - 1 : q + 1 \in 1 .. n
    BY <1>0
  <2> QED BY <1>2, <1>4, <1>5, <2>1 DEF BranchHas
<1>7. BranchEntries(b, n) = right
  <2>1. ASSUME NEW i \in 1 .. Len(s) - n PROVE BranchEntryAt(b, n + i - 1) = right[i]
    <3>1. BranchEntryIs(b, n + i - 1, right[i]) /\ right[i] \in BranchEntry
      <4>1. n + i - 1 \in 0 .. Len(s) - 1 /\ (n + i - 1) + 1 = n + i
        BY <1>0
      <4>2. right[i] \in BranchEntry
        BY <1>5
      <4> QED BY <1>1, <1>5, <4>1, <4>2
    <3> QED BY <3>1 DEF BranchEntryIs, BranchEntryAt, BranchEntry
  <2>2. BranchEntries(b, n) = [i \in 1 .. Len(s) - n |-> BranchEntryAt(b, n + i - 1)]
    BY <1>1 DEF BranchEntries
  <2>3. right = [i \in 1 .. Len(s) - n |-> right[i]]
    BY <1>0, <1>5
  <2> QED BY <2>1, <2>2, <2>3
<1> QED
  BY <1>3, <1>6, <1>7 DEF left, right

\* CreateBranch (uint32_index_node_adapter.go:157-173).
LEMMA CreateBranchCells ==
    ASSUME NEW was, DOMAIN was = Cells, NEW e \in BranchEntry, NEW nb, nb = CreateBranch(was, e)
    PROVE  /\ DOMAIN nb = Cells /\ nb[TypeCell] = Branch /\ Total(nb) = 1
           /\ nb[ParentCell] = 0 /\ nb[LeftCell] = 0 /\ nb[RightCell] = 0
           /\ nb[5] = e.lower /\ nb[6] = e.key /\ nb[7] = e.greater
<1> DEFINE a == Allocate(was, Branch)
<1>1. DOMAIN a = Cells /\ a[0] = Branch /\ a[2] = 0 /\ a[3] = 0 /\ a[4] = 0
  BY AllocateCells DEF TypeCell, ParentCell, LeftCell, RightCell
<1>2. nb = [a EXCEPT ![1] = 1, ![5] = e.lower, ![5 + 1] = e.key, ![5 + 2] = e.greater]
  BY Zenon DEF CreateBranch, TotalCell, EntriesAt
<1>3. 0 .. 7 \subseteq Cells
  BY NodesAssumption DEF Cells, EntriesAt, LeafJump
<1> HIDE DEF a
<1>4. DOMAIN nb = Cells /\ \A c \in Cells : c \notin {1, 5, 6, 7} => nb[c] = a[c]
  BY <1>1, <1>2
<1>5. nb[1] = 1 /\ nb[5] = e.lower /\ nb[6] = e.key /\ nb[7] = e.greater
  BY <1>1, <1>2, <1>3
<1>6. nb[0] = Branch /\ nb[2] = 0 /\ nb[3] = 0 /\ nb[4] = 0
  BY <1>1, <1>3, <1>4
<1> QED
  BY <1>4, <1>5, <1>6 DEF Total, TotalCell, TypeCell, ParentCell, LeftCell, RightCell

\* A new branch has the entries it was filled with, each with the right child of the
\* one before as its left one (bplus_tree.go:462-465).
LEMMA BranchOfIs ==
    ASSUME NEW s \in Seq(BranchEntry), Len(s) > 0, Len(s) <= Capacity,
           NEW was, DOMAIN was = Cells, NEW nb, nb = BranchOf(was, s), NEW t, t = MemoryBranchOf(s)
    PROVE  /\ t \in Seq(BranchEntry) /\ Len(t) = Len(s)
           /\ BranchHas(nb, t)
           /\ nb[TypeCell] = Branch
           /\ nb[ParentCell] = 0 /\ nb[LeftCell] = 0 /\ nb[RightCell] = 0
<1> DEFINE n == Len(s)
           first == CreateBranch(was, s[1])
<1>0. n \in Nat /\ n > 0 /\ n <= Capacity /\ Capacity \in Nat
      /\ BlockCells \in Nat /\ BlockCells > 5 + Capacity * 2
  BY NodesAssumption DEF EntriesAt, LeafJump
<1>1. /\ DOMAIN first = Cells /\ first[0] = Branch
      /\ first[2] = 0 /\ first[3] = 0 /\ first[4] = 0
      /\ first[5] = s[1].lower
  <2>1. s[1] \in BranchEntry
    BY <1>0
  <2> QED BY <2>1, CreateBranchCells DEF TypeCell, ParentCell, LeftCell, RightCell
<1>2. BranchCell(n) = 5 + n * 2 /\ BranchCell(n) < BlockCells
  BY <1>0, BranchCells
<1>4. nb = [c \in Cells |->
        IF c = 1 THEN n
        ELSE IF c <= 5 THEN first[c]
        ELSE IF c <= BranchCell(n)
          THEN IF (c - 5) % 2 = 1 THEN s[(c - 5 - 1) \div 2 + 1].key ELSE s[(c - 5 - 1) \div 2 + 1].greater
        ELSE first[c - (n - 1) * 2]]
  BY Zenon DEF BranchOf, TotalCell, EntriesAt, BranchJump
<1>5. /\ t \in Seq(BranchEntry) /\ Len(t) = n
      /\ \A i \in 1 .. n : t[i] = [s[i] EXCEPT !.lower = IF i = 1 THEN s[1].lower ELSE s[i - 1].greater]
  <2> DEFINE e(i) == [s[i] EXCEPT !.lower = IF i = 1 THEN s[1].lower ELSE s[i - 1].greater]
  <2>1. ASSUME NEW i \in 1 .. n PROVE e(i) \in BranchEntry
    <3>1. i # 1 => i - 1 \in 1 .. n
      OBVIOUS
    <3>2. s[i] \in BranchEntry /\ s[1] \in BranchEntry /\ (i # 1 => s[i - 1] \in BranchEntry)
      BY <1>0, <3>1
    <3> QED BY <3>2 DEF BranchEntry
  <2>2. t = [i \in 1 .. n |-> e(i)]
    BY DEF MemoryBranchOf
  <2> HIDE DEF e
  <2>3. t \in Seq(BranchEntry) /\ Len(t) = n /\ \A i \in 1 .. n : t[i] = e(i)
    BY <1>0, <2>1, <2>2
  <2> QED BY <2>3 DEF e
<1> HIDE DEF n, first
<1>6. /\ DOMAIN nb = Cells /\ nb[1] = n
      /\ \A c \in Cells : c # 1 /\ c <= 5 => nb[c] = first[c]
      /\ \A c \in Cells : c > 5 /\ c <= BranchCell(n) /\ (c - 5) % 2 = 1 => nb[c] = s[(c - 5 - 1) \div 2 + 1].key
      /\ \A c \in Cells : c > 5 /\ c <= BranchCell(n) /\ (c - 5) % 2 = 0 => nb[c] = s[(c - 5 - 1) \div 2 + 1].greater
      /\ \A c \in Cells : c > BranchCell(n) => nb[c] = first[c - (n - 1) * 2]
  BY <1>0, <1>2, <1>4 DEF Cells
<1>7. nb[0] = Branch /\ nb[2] = 0 /\ nb[3] = 0 /\ nb[4] = 0 /\ nb[5] = s[1].lower
  BY <1>0, <1>1, <1>6 DEF Cells
<1>8. ASSUME NEW q \in 0 .. n - 1 PROVE BranchEntryIs(nb, q, t[q + 1])
  <2> DEFINE d == BranchCell(q)
  <2>1. q \in Nat /\ q + 1 \in 1 .. n /\ q < Capacity
    BY <1>0
  <2>2. d = 5 + q * 2 /\ d + 2 < BlockCells
    BY <2>1, BranchCells
  <2> HIDE DEF d
  <2>3. d \in Cells /\ d + 1 \in Cells /\ d + 2 \in Cells /\ d + 1 <= BranchCell(n) /\ d + 2 <= BranchCell(n)
        /\ d + 1 > 5 /\ d + 2 > 5 /\ d <= BranchCell(n)
    BY <1>0, <1>2, <2>1, <2>2 DEF Cells
  <2>4. /\ (d + 1 - 5) % 2 = 1 /\ (d + 1 - 5 - 1) \div 2 + 1 = q + 1
        /\ (d + 2 - 5) % 2 = 0 /\ (d + 2 - 5 - 1) \div 2 + 1 = q + 1
    BY <2>1, <2>2
  <2>5. nb[d + 1] = s[q + 1].key /\ nb[d + 2] = s[q + 1].greater
    <3> DEFINE f == d + 1
               g == d + 2
    <3>1. f \in Cells /\ f > 5 /\ f <= BranchCell(n) /\ (f - 5) % 2 = 1 /\ (f - 5 - 1) \div 2 + 1 = q + 1
      BY <2>1, <2>2, <2>3, <2>4
    <3>2. g \in Cells /\ g > 5 /\ g <= BranchCell(n) /\ (g - 5) % 2 = 0 /\ (g - 5 - 1) \div 2 + 1 = q + 1
      BY <2>1, <2>2, <2>3, <2>4
    <3> HIDE DEF f, g
    <3>3. nb[f] = s[q + 1].key
      BY <1>6, <3>1
    <3>4. nb[g] = s[q + 1].greater
      BY <1>6, <3>2
    <3> QED BY <3>3, <3>4 DEF f, g
  <2>6. nb[d] = IF q = 0 THEN s[1].lower ELSE s[q].greater
    <3>1. CASE q = 0
      BY <1>7, <2>2, <3>1
    <3>2. CASE q # 0
      <4>1. d > 5 /\ (d - 5) % 2 = 0 /\ (d - 5 - 1) \div 2 + 1 = q
        BY <2>1, <2>2, <3>2
      <4> QED BY <1>6, <2>3, <3>2, <4>1
    <3> QED BY <3>1, <3>2
  <2>7. s[q + 1] \in BranchEntry
    BY <2>1 DEF n
  <2>8. t[q + 1] = [s[q + 1] EXCEPT !.lower = IF q = 0 THEN s[1].lower ELSE s[q].greater]
    <3>1. (q + 1 = 1 <=> q = 0) /\ (q + 1) - 1 = q
      BY <2>1
    <3> QED BY <1>5, <2>1, <3>1
  <2>9. /\ t[q + 1].key = s[q + 1].key /\ t[q + 1].greater = s[q + 1].greater
        /\ t[q + 1].lower = IF q = 0 THEN s[1].lower ELSE s[q].greater
    BY <2>7, <2>8 DEF BranchEntry
  <2> QED BY <2>5, <2>6, <2>9 DEF BranchEntryIs, d
<1>9. BranchHas(nb, t)
  BY <1>5, <1>6, <1>8 DEF BranchHas, Total, TotalCell
<1> QED
  BY <1>5, <1>7, <1>9 DEF TypeCell, ParentCell, LeftCell, RightCell, n

\* Sequences with the same elements are the same.
LEMMA SameElements ==
    ASSUME NEW S, NEW s \in Seq(S), NEW t \in Seq(S), Len(s) = Len(t),
           \A i \in 1 .. Len(s) : s[i] = t[i]
    PROVE  s = t
OBVIOUS

\* The entries cut off without the first one, which an insert on the left may have
\* written over (in_memory_adapter.go:241-245).
LEMMA SharedArray ==
    ASSUME NEW S, NEW s \in Seq(S), NEW left \in Seq(S), Len(left) > 0, Len(left) <= Len(s),
           NEW array, array = left \o SubSeq(s, Len(left) + 1, Len(s))
    PROVE  Tail(SubSeq(array, Len(left), Len(array))) = Tail(SubSeq(s, Len(left), Len(s)))
<1> DEFINE h == Len(left)
           m == Len(s)
           c == SubSeq(s, h + 1, m)
           u == SubSeq(array, h, m)
           v == SubSeq(s, h, m)
<1>0. h \in Nat /\ h > 0 /\ m \in Nat /\ h <= m
  OBVIOUS
<1>1. c \in Seq(S) /\ Len(c) = m - h /\ \A i \in 1 .. m - h : c[i] = s[h + i]
  BY <1>0
<1> HIDE DEF c
<1>2. Len(left) + Len(c) = m
  BY <1>0, <1>1
<1>3. array = left \o c
  BY DEF c
<1>4. /\ array \in Seq(S) /\ Len(array) = Len(left) + Len(c)
      /\ \A i \in 1 .. Len(left) + Len(c) : array[i] = IF i <= Len(left) THEN left[i] ELSE c[i - Len(left)]
  <2>1. /\ left \o c \in Seq(S) /\ Len(left \o c) = Len(left) + Len(c)
        /\ \A i \in 1 .. Len(left) + Len(c) : (left \o c)[i] = IF i <= Len(left) THEN left[i] ELSE c[i - Len(left)]
    BY <1>1, ConcatProperties, Zenon
  <2> QED BY <1>3, <2>1, Zenon
<1>5. Len(array) = m /\ \A i \in h + 1 .. m : array[i] = s[i]
  <2>1. ASSUME NEW i \in h + 1 .. m PROVE array[i] = s[i]
    <3>1. i - h \in 1 .. m - h /\ h + (i - h) = i /\ i \in 1 .. Len(left) + Len(c) /\ ~(i <= Len(left))
      BY <1>0, <1>2
    <3> QED BY <1>1, <1>4, <3>1
  <2> QED BY <1>2, <1>4, <2>1
<1> HIDE DEF h, m
<1>6. /\ u \in Seq(S) /\ Len(u) = m - h + 1 /\ \A i \in 1 .. m - h + 1 : u[i] = array[h + i - 1]
  BY <1>0, <1>4, <1>5
<1>7. /\ v \in Seq(S) /\ Len(v) = m - h + 1 /\ \A i \in 1 .. m - h + 1 : v[i] = s[h + i - 1]
  BY <1>0 DEF m
<1> HIDE DEF u, v
<1>8. /\ Tail(u) \in Seq(S) /\ Len(Tail(u)) = m - h /\ \A i \in 1 .. m - h : Tail(u)[i] = u[i + 1]
  BY <1>0, <1>6
<1>9. /\ Tail(v) \in Seq(S) /\ Len(Tail(v)) = m - h /\ \A i \in 1 .. m - h : Tail(v)[i] = v[i + 1]
  BY <1>0, <1>7
<1>10. ASSUME NEW i \in 1 .. m - h PROVE Tail(u)[i] = Tail(v)[i]
  <2>1. i + 1 \in 1 .. m - h + 1 /\ h + (i + 1) - 1 \in h + 1 .. m
    BY <1>0
  <2> QED BY ZenonT(30), <1>5, <1>6, <1>7, <1>8, <1>9, <2>1
<1>11. Tail(u) = Tail(v)
  <2> DEFINE a == Tail(u)
             d == Tail(v)
  <2>1. a \in Seq(S) /\ d \in Seq(S) /\ Len(a) = Len(d) /\ \A i \in 1 .. Len(a) : a[i] = d[i]
    BY <1>8, <1>9, <1>10
  <2> HIDE DEF a, d
  <2>2. a = d
    BY <2>1, SameElements
  <2> QED BY <2>2 DEF a, d
<1> QED
  BY <1>5, <1>11 DEF u, v, h, m

\* What becomes of the entries cut off (bplus_tree.go:457-461).
LEMMA RightEntriesAre ==
    ASSUME NEW cut \in Seq(BranchEntry), Len(cut) > 1, NEW p \in Nat, NEW child \in ChildIDs,
           NEW t, t = RightEntries(cut, p, child)
    PROVE  /\ t \in Seq(BranchEntry)
           /\ p = Half => Len(t) = Len(cut)
           /\ p # Half => Len(t) = Len(cut) - 1
<1>1. CASE p = Half
  <2> DEFINE e == [cut[1] EXCEPT !.lower = child]
  <2>1. 1 \in 1 .. Len(cut) /\ cut[1] \in BranchEntry
    OBVIOUS
  <2>2. e \in BranchEntry
    BY <2>1 DEF BranchEntry
  <2>3. t = [cut EXCEPT ![1] = e]
    BY <1>1 DEF RightEntries
  <2> HIDE DEF e
  <2> QED BY <1>1, <2>1, <2>2, <2>3
<1>2. CASE p # Half
  <2>1. t = Tail(cut)
    BY <1>2 DEF RightEntries
  <2> QED BY <1>2, <2>1
<1> QED
  BY <1>1, <1>2

\* A full branch that is split gives two whose entries are those of the branch in
\* memory, although that one's halves share an array (bplus_tree.go:446-482).
LEMMA BranchSplitIs ==
    ASSUME NEW s \in Seq(BranchEntry), NEW b, BranchHas(b, s), Len(s) = Capacity,
           NEW p \in 0 .. Len(s), NEW k \in Keys, NEW child \in ChildIDs,
           NEW was, DOMAIN was = Cells, NEW blocks, blocks = BranchSplit(b, was, p, k, child),
           NEW memories, memories = MemoryBranchSplit(s, p, k, child)
    PROVE  /\ memories.left \in Seq(BranchEntry) /\ memories.right \in Seq(BranchEntry)
           /\ Len(memories.left) = Half /\ Len(memories.right) = Capacity - Half
           /\ BranchHas(blocks.left, memories.left) /\ BranchHas(blocks.right, memories.right)
           /\ \A c \in Header : blocks.left[c] = b[c]
           /\ blocks.right[TypeCell] = Branch /\ blocks.right[ParentCell] = 0
           /\ blocks.right[LeftCell] = 0 /\ blocks.right[RightCell] = 0
<1> DEFINE n == SplitFrom(p)
           rest == SubSeq(s, 1, n)
           cut == SubSeq(s, n + 1, Len(s))
           more == RightEntries(cut, p, child)
           right == MemoryBranchOf(more)
           bl == CutTo(b, n)
           br == BranchOf(was, more)
           left == IF p < Half THEN MemoryInsertAt(rest, p, k, child) ELSE rest
           array == IF p \in 1 .. Half - 1 THEN left \o SubSeq(s, Len(left) + 1, Len(s)) ELSE s
<1>0. /\ Len(s) \in Nat /\ p \in Nat /\ Capacity \in Nat /\ Capacity >= 4 /\ Half \in Nat
      /\ Half >= 2 /\ Capacity >= 2 * Half /\ n = (IF p < Half THEN Half - 1 ELSE Half)
      /\ n \in 0 .. Len(s) /\ n >= 1 /\ p <= Capacity
  BY NodesAssumption DEF Half, SplitFrom
<1>1. /\ rest \in Seq(BranchEntry) /\ Len(rest) = n
      /\ cut \in Seq(BranchEntry) /\ Len(cut) = Len(s) - n
  BY <1>0, Cut
<1>2. /\ BranchHas(bl, rest) /\ \A c \in Header : bl[c] = b[c]
      /\ BranchEntries(b, n) = cut
  <2>0. n \in 0 .. Len(s) /\ Len(s) <= Capacity
    BY <1>0
  <2> HIDE DEF n
  <2>1. BranchHas(bl, rest)
    BY <2>0, BranchCutIs
  <2>2. \A c \in Header : bl[c] = b[c]
    BY <2>0, BranchCutIs
  <2>3. BranchEntries(b, n) = cut
    BY <2>0, BranchCutIs
  <2> QED BY <2>1, <2>2, <2>3, Zenon
<1>3. blocks = [left |-> IF p < Half THEN BranchInsertAt(bl, p, k, child) ELSE bl,
                right |-> IF p > Half THEN BranchInsertAt(br, p - Half - 1, k, child) ELSE br]
  BY <1>2, Zenon DEF BranchSplit, CutTo
<1>4. memories = [left |-> left,
                  right |-> IF p > Half
                     THEN MemoryInsertAt(MemoryBranchOf(RightEntries(SubSeq(array, n + 1, Len(array)), p, child)),
                                         p - Half - 1, k, child)
                     ELSE MemoryBranchOf(RightEntries(SubSeq(array, n + 1, Len(array)), p, child))]
  BY Zenon DEF MemoryBranchSplit
<1> HIDE DEF n, rest, cut, more, right, bl, br
<1>5. /\ left \in Seq(BranchEntry) /\ Len(left) = Half
      /\ BranchHas(blocks.left, left) /\ \A c \in Header : blocks.left[c] = b[c]
  <2>1. CASE p < Half
    <3> DEFINE nb == BranchInsertAt(bl, p, k, child)
               t == MemoryInsertAt(rest, p, k, child)
    <3>1. p \in 0 .. Len(rest) /\ Len(rest) < Capacity /\ Len(rest) > 0 /\ Len(rest) + 1 = Half
      BY <1>0, <1>1, <2>1
    <3>2. blocks.left = nb /\ left = t
      BY <1>3, <2>1
    <3> HIDE DEF nb, t, left
    <3>3. t \in Seq(BranchEntry) /\ Len(t) = Len(rest) + 1
      BY <1>1, <1>2, <3>1, BranchInsertIs DEF nb, t
    <3>4. BranchHas(nb, t) /\ \A c \in Header : nb[c] = bl[c]
      BY <1>1, <1>2, <3>1, BranchInsertIs DEF nb, t
    <3> QED BY <1>2, <3>1, <3>2, <3>3, <3>4
  <2>2. CASE ~(p < Half)
    <3>1. blocks.left = bl /\ left = rest /\ Len(rest) = Half
      BY <1>0, <1>1, <1>3, <2>2
    <3> HIDE DEF left
    <3> QED BY <1>1, <1>2, <3>1
  <2> QED BY <2>1, <2>2
<1> HIDE DEF left
<1>6. RightEntries(SubSeq(array, n + 1, Len(array)), p, child) = more
  <2>1. CASE p \in 1 .. Half - 1
    <3>1. n + 1 = Half /\ p # Half /\ Len(left) = n + 1 /\ Len(left) > 0 /\ Len(left) <= Len(s)
      BY <1>0, <1>5, <2>1
    <3>2. array = left \o SubSeq(s, Len(left) + 1, Len(s))
      BY <2>1
    <3> HIDE DEF array
    <3>3. Tail(SubSeq(array, Len(left), Len(array))) = Tail(SubSeq(s, Len(left), Len(s)))
      BY <1>5, <3>1, <3>2, SharedArray
    <3> QED BY <3>1, <3>3, Zenon DEF RightEntries, more, cut
  <2>2. CASE p \notin 1 .. Half - 1
    <3>1. array = s
      BY <2>2
    <3> QED BY <3>1, Zenon DEF more, cut
  <2> QED BY <2>1, <2>2
<1> HIDE DEF array
<1>7. memories = [left |-> left,
                  right |-> IF p > Half THEN MemoryInsertAt(right, p - Half - 1, k, child) ELSE right]
  BY <1>4, <1>6, Zenon DEF right
<1>8. /\ more \in Seq(BranchEntry)
      /\ Len(more) = IF p < Half THEN Capacity - Half ELSE IF p = Half THEN Capacity - Half ELSE Capacity - Half - 1
  <2>0. cut \in Seq(BranchEntry) /\ Len(cut) > 1
    BY <1>0, <1>1
  <2>1. Len(cut) = Capacity - n
    BY <1>1
  <2>2. /\ more \in Seq(BranchEntry)
        /\ p = Half => Len(more) = Len(cut)
        /\ p # Half => Len(more) = Len(cut) - 1
    <3>1. more = RightEntries(cut, p, child)
      BY DEF more
    <3>2. more \in Seq(BranchEntry)
      BY <1>0, <2>0, <3>1, RightEntriesAre
    <3>3. p = Half => Len(more) = Len(cut)
      BY <1>0, <2>0, <3>1, RightEntriesAre
    <3>4. p # Half => Len(more) = Len(cut) - 1
      BY <1>0, <2>0, <3>1, RightEntriesAre
    <3> QED BY <3>2, <3>3, <3>4
  <2>3. CASE p < Half
    <3>1. n = Half - 1 /\ p # Half /\ Capacity - n - 1 = Capacity - Half
      BY <1>0, <2>3
    <3> QED BY <2>1, <2>2, <2>3, <3>1
  <2>4. CASE p = Half
    <3>1. n = Half /\ ~(p < Half)
      BY <1>0, <2>4
    <3> QED BY <2>1, <2>2, <2>4, <3>1
  <2>5. CASE p > Half
    <3>1. n = Half /\ p # Half /\ ~(p < Half)
      BY <1>0, <2>5
    <3> QED BY <2>1, <2>2, <3>1
  <2> QED BY <1>0, <2>3, <2>4, <2>5
<1>9. /\ right \in Seq(BranchEntry) /\ Len(right) = Len(more)
      /\ BranchHas(br, right)
      /\ br[TypeCell] = Branch /\ br[ParentCell] = 0 /\ br[LeftCell] = 0 /\ br[RightCell] = 0
  <2>1. Len(more) > 0 /\ Len(more) <= Capacity
    BY <1>0, <1>8
  <2>2. right \in Seq(BranchEntry) /\ Len(right) = Len(more) /\ BranchHas(br, right)
    BY <1>8, <2>1, BranchOfIs DEF br, right
  <2>3. br[TypeCell] = Branch /\ br[ParentCell] = 0 /\ br[LeftCell] = 0 /\ br[RightCell] = 0
    BY <1>8, <2>1, BranchOfIs DEF br, right
  <2> QED BY <2>2, <2>3
<1>10. CASE p > Half
  <2> DEFINE nb == BranchInsertAt(br, p - Half - 1, k, child)
             t == MemoryInsertAt(right, p - Half - 1, k, child)
             r == p - Half - 1
  <2>1. r \in 0 .. Len(right) /\ Len(right) < Capacity /\ Len(right) > 0 /\ Len(right) + 1 = Capacity - Half
    BY <1>0, <1>8, <1>9, <1>10
  <2>2. blocks.right = nb /\ memories.right = t /\ memories.left = left
    BY <1>3, <1>7, <1>10
  <2> HIDE DEF r
  <2>3. nb = BranchInsertAt(br, r, k, child) /\ t = MemoryInsertAt(right, r, k, child)
    BY Zenon DEF r
  <2> HIDE DEF nb, t
  <2>4. t \in Seq(BranchEntry) /\ Len(t) = Len(right) + 1
    BY <1>9, <2>1, <2>3, BranchInsertIs
  <2>5. BranchHas(nb, t) /\ \A c \in Header : nb[c] = br[c]
    BY <1>9, <2>1, <2>3, BranchInsertIs
  <2>7. {TypeCell, ParentCell, LeftCell, RightCell} \subseteq Header
    BY DEF Header
  <2>8. /\ nb[TypeCell] = Branch /\ nb[ParentCell] = 0
        /\ nb[LeftCell] = 0 /\ nb[RightCell] = 0
    BY <1>9, <2>5, <2>7
  <2>9. Len(t) = Capacity - Half
    BY <2>1, <2>4
  <2> HIDE DEF left
  <2> QED BY <1>5, <2>2, <2>4, <2>5, <2>8, <2>9
<1>11. CASE ~(p > Half)
  <2>1. blocks.right = br /\ memories.right = right /\ memories.left = left
    BY <1>3, <1>7, <1>11
  <2>2. Len(right) > 0 /\ Len(right) <= Capacity
    BY <1>0, <1>8, <1>9
  <2>3. Len(right) = Capacity - Half
    BY <1>0, <1>8, <1>9, <1>11
  <2> HIDE DEF left
  <2> QED BY <1>5, <1>9, <2>1, <2>3
<1> QED
  BY <1>10, <1>11

-----------------------------------------------------------------------------
(* The invariant                                                           *)

HeaderIs(b, m) == b[ParentCell] = m.parent /\ b[LeftCell] = m.left /\ b[RightCell] = m.right

\* Block b has leaf m.
LeafIs(b, m) ==
    /\ m \in [kind : {"leaf"}, parent : Links, left : Links, right : Links, entries : Seq(Entries)]
    /\ Len(m.entries) <= Capacity
    /\ b[TypeCell] = Leaf /\ HeaderIs(b, m) /\ LeafHas(b, m.entries)

\* Block b has branch m.
BranchIs(b, m) ==
    /\ m \in [kind : {"branch"}, parent : Links, left : Links, right : Links, entries : Seq(BranchEntry)]
    /\ Len(m.entries) <= Capacity
    /\ b[TypeCell] = Branch /\ HeaderIs(b, m) /\ BranchHas(b, m.entries)

NodeIs(b, m) == (m = NoNode /\ b = Blank) \/ LeafIs(b, m) \/ BranchIs(b, m)

\* A block, whatever its entries are.
Sized(b, n) == DOMAIN b = Cells /\ Total(b) = n

\* The inductive invariant: memory has what some block has, and that block is this one
\* as long as it lost no other child than memory did.  Of a block that did, the number
\* of keys is still right.
Inv ==
    /\ misdeleted \in BOOLEAN
    /\ misdeleted => memory.kind = "branch"
    /\ Sized(block, Len(memory.entries))
    /\ \E b : NodeIs(b, memory) /\ (misdeleted \/ b = block)

\* The kind of the node says which of the three it is
\* (uint32_index_node_adapter.go:85-97).
LEMMA NodeKind ==
    ASSUME NEW b, NEW m, NodeIs(b, m)
    PROVE  /\ m.kind \in {"none", "leaf", "branch"}
           /\ m.kind = "leaf" => LeafIs(b, m)
           /\ m.kind = "branch" => BranchIs(b, m)
           /\ m.kind = "none" => m = NoNode /\ b = Blank
<1>1. NoNode.kind = "none"
  BY DEF NoNode
<1>2. LeafIs(b, m) => m.kind = "leaf"
  BY DEF LeafIs
<1>3. BranchIs(b, m) => m.kind = "branch"
  BY DEF BranchIs
<1> QED
  BY <1>1, <1>2, <1>3 DEF NodeIs

\* What the operations of a leaf find.
LEMMA LeafNow ==
    ASSUME Inv, memory.kind = "leaf"
    PROVE  /\ misdeleted = FALSE /\ LeafIs(block, memory)
           /\ es \in Seq(Entries) /\ Len(es) <= Capacity /\ Len(es) \in Nat /\ LeafHas(block, es)
<1>1. PICK b : NodeIs(b, memory) /\ (misdeleted \/ b = block)
  BY DEF Inv
<1>2. misdeleted = FALSE
  BY DEF Inv
<1>3. LeafIs(block, memory)
  BY <1>1, <1>2, NodeKind
<1> QED
  BY <1>2, <1>3 DEF LeafIs, es

\* What the operations of a branch find.
LEMMA BranchNow ==
    ASSUME Inv, memory.kind = "branch"
    PROVE  /\ es \in Seq(BranchEntry) /\ Len(es) <= Capacity /\ Len(es) \in Nat
           /\ misdeleted \in BOOLEAN /\ Sized(block, Len(es))
           /\ \E b : BranchIs(b, memory) /\ BranchHas(b, es) /\ (misdeleted \/ b = block)
<1>1. PICK b : NodeIs(b, memory) /\ (misdeleted \/ b = block)
  BY DEF Inv
<1>2. BranchIs(b, memory)
  BY <1>1, NodeKind
<1>3. es \in Seq(BranchEntry) /\ Len(es) <= Capacity /\ Len(es) \in Nat /\ BranchHas(b, es)
  BY <1>2 DEF BranchIs, es
<1> QED
  BY <1>1, <1>2, <1>3 DEF Inv, es

\* The header of another block with the same cells is the header of the same node.
LEMMA SameHeader ==
    ASSUME NEW b, NEW nb, \A c \in Header : nb[c] = b[c], NEW m, HeaderIs(b, m), NEW entries
    PROVE  nb[TypeCell] = b[TypeCell] /\ HeaderIs(nb, [m EXCEPT !.entries = entries])
<1>1. TypeCell \in Header /\ ParentCell \in Header /\ LeftCell \in Header /\ RightCell \in Header
  BY DEF Header
<1>2. /\ [m EXCEPT !.entries = entries].parent = m.parent
      /\ [m EXCEPT !.entries = entries].left = m.left
      /\ [m EXCEPT !.entries = entries].right = m.right
  OBVIOUS
<1> QED
  BY <1>1, <1>2 DEF HeaderIs

\* A leaf that goes on with other entries.
LEMMA LeafBecame ==
    ASSUME NEW b, NEW m, LeafIs(b, m),
           NEW nb, NEW t \in Seq(Entries), Len(t) <= Capacity, LeafHas(nb, t),
           \A c \in Header : nb[c] = b[c],
           NEW nm, nm = [m EXCEPT !.entries = t]
    PROVE  LeafIs(nb, nm)
<1>1. /\ m \in [kind : {"leaf"}, parent : Links, left : Links, right : Links, entries : Seq(Entries)]
      /\ b[TypeCell] = Leaf /\ HeaderIs(b, m)
  BY DEF LeafIs
<1>2. nb[TypeCell] = Leaf /\ HeaderIs(nb, nm)
  BY <1>1, SameHeader
<1>3. /\ nm \in [kind : {"leaf"}, parent : Links, left : Links, right : Links, entries : Seq(Entries)]
      /\ nm.entries = t
  BY <1>1
<1> QED
  BY <1>2, <1>3 DEF LeafIs

\* A branch that goes on with other entries.
LEMMA BranchBecame ==
    ASSUME NEW b, NEW m, BranchIs(b, m),
           NEW nb, NEW t \in Seq(BranchEntry), Len(t) <= Capacity, BranchHas(nb, t),
           \A c \in Header : nb[c] = b[c],
           NEW nm, nm = [m EXCEPT !.entries = t]
    PROVE  BranchIs(nb, nm)
<1>1. /\ m \in [kind : {"branch"}, parent : Links, left : Links, right : Links, entries : Seq(BranchEntry)]
      /\ b[TypeCell] = Branch /\ HeaderIs(b, m)
  BY DEF BranchIs
<1>2. nb[TypeCell] = Branch /\ HeaderIs(nb, nm)
  BY <1>1, SameHeader
<1>3. /\ nm \in [kind : {"branch"}, parent : Links, left : Links, right : Links, entries : Seq(BranchEntry)]
      /\ nm.entries = t
  BY <1>1
<1> QED
  BY <1>2, <1>3 DEF BranchIs

\* A node with no links yet.
Unlinked(kind, t) == [kind |-> kind, parent |-> 0, left |-> 0, right |-> 0, entries |-> t]

\* A node without links, as Create makes it.
LEMMA UnlinkedIs ==
    ASSUME NEW kind, NEW t, NEW m, m = [NoNode EXCEPT !.kind = kind, !.entries = t]
    PROVE  m = Unlinked(kind, t)
BY DEF NoNode, Unlinked

\* It is in a block of its own (uint32_index_node_adapter.go:115-136).
LEMMA NewNode ==
    ASSUME NEW b, b[ParentCell] = 0, b[LeftCell] = 0, b[RightCell] = 0,
           NEW kind, NEW t, NEW m, m = Unlinked(kind, t)
    PROVE  /\ b[TypeCell] = Leaf /\ kind = "leaf" /\ t \in Seq(Entries) /\ Len(t) <= Capacity
                /\ LeafHas(b, t) => LeafIs(b, m)
           /\ b[TypeCell] = Branch /\ kind = "branch" /\ t \in Seq(BranchEntry) /\ Len(t) <= Capacity
                /\ BranchHas(b, t) => BranchIs(b, m)
<1>1. m = [kind |-> kind, parent |-> 0, left |-> 0, right |-> 0, entries |-> t]
  BY DEF Unlinked
<1>2. HeaderIs(b, m) /\ m.entries = t
  <2> DEFINE r == [kind |-> kind, parent |-> 0, left |-> 0, right |-> 0, entries |-> t]
  <2>0. r.parent = 0 /\ r.left = 0 /\ r.right = 0 /\ r.entries = t
    OBVIOUS
  <2>1. m.parent = 0 /\ m.left = 0 /\ m.right = 0 /\ m.entries = t
    <3>1. m = r
      BY <1>1, Zenon
    <3> HIDE DEF r
    <3> QED BY <2>0, <3>1, Zenon
  <2> QED BY <2>1, Zenon DEF HeaderIs
<1>3. 0 \in Links
  BY NodesAssumption
<1>4. kind = "leaf" /\ t \in Seq(Entries) =>
        m \in [kind : {"leaf"}, parent : Links, left : Links, right : Links, entries : Seq(Entries)]
  BY <1>1, <1>3
<1>5. kind = "branch" /\ t \in Seq(BranchEntry) =>
        m \in [kind : {"branch"}, parent : Links, left : Links, right : Links, entries : Seq(BranchEntry)]
  BY <1>1, <1>3
<1> QED
  BY <1>2, <1>4, <1>5 DEF LeafIs, BranchIs

\* The blocks of a leaf and of a branch have as many keys as memory.
LEMMA HasSize ==
    ASSUME NEW b, NEW m
    PROVE  /\ LeafIs(b, m) => m.kind = "leaf" /\ Sized(b, Len(m.entries))
           /\ BranchIs(b, m) => m.kind = "branch" /\ Sized(b, Len(m.entries))
BY DEF LeafIs, BranchIs, LeafHas, BranchHas, Sized

\* A leaf, in the state after an operation.
LEMMA LeafAfter ==
    ASSUME LeafIs(block', memory'), misdeleted' = FALSE PROVE Inv'
<1>1. memory'.kind = "leaf" /\ Sized(block', Len(memory'.entries))
  BY HasSize
<1>2. NodeIs(block', memory') /\ (misdeleted' \/ block' = block')
  BY DEF NodeIs
<1>3. \E b : NodeIs(b, memory') /\ (misdeleted' \/ b = block')
  BY <1>2
<1> QED
  BY <1>1, <1>3 DEF Inv

\* A branch, in the state after an operation.
LEMMA BranchAfter ==
    ASSUME NEW b, BranchIs(b, memory'), misdeleted' \in BOOLEAN, misdeleted' \/ b = block',
           Sized(block', Len(memory'.entries))
    PROVE  Inv'
<1>1. memory'.kind = "branch"
  BY HasSize
<1>2. NodeIs(b, memory') /\ (misdeleted' \/ b = block')
  BY DEF NodeIs
<1>3. \E c : NodeIs(c, memory') /\ (misdeleted' \/ c = block')
  BY <1>2
<1> QED
  BY <1>1, <1>3 DEF Inv

\* A block of no node.
LEMMA BlankIs == Sized(Blank, 0) /\ \A c \in Cells : Blank[c] = 0
<1>1. TotalCell \in Cells
  BY NodesAssumption DEF TotalCell, Cells, EntriesAt, LeafJump
<1> QED
  BY <1>1 DEF Blank, Cells, Sized, Total

\* Before a node is made there is none to agree on.
LEMMA NothingThere ==
    ASSUME NEW b, b = Blank, NEW m, m = NoNode
    PROVE  NodeIs(b, m) /\ Sized(b, Len(m.entries))
<1>1. Len(NoNode.entries) = 0
  BY DEF NoNode
<1> QED
  BY <1>1, BlankIs DEF NodeIs

\* The invariant holds of a block that is nobody's.
LEMMA InvInit == Init => Inv
<1> SUFFICES ASSUME Init PROVE Inv
  OBVIOUS
<1>1. block = Blank /\ memory = NoNode /\ misdeleted = FALSE
  BY DEF Init
<1>2. NodeIs(block, memory) /\ Sized(block, Len(memory.entries))
  BY <1>1, NothingThere
<1> QED
  BY <1>1, <1>2 DEF Inv

-----------------------------------------------------------------------------
(* Blocks keep their size                                                  *)

\* Entries move towards the back.
LEMMA MovedUp ==
    ASSUME NEW b, NEW n, Sized(b, n), NEW at \in Nat, at >= 5, NEW nb, nb = ShiftUp(b, at, 2)
    PROVE  Sized(nb, n)
<1>1. 1 \in Cells
  BY NodesAssumption DEF Cells, EntriesAt, LeafJump
<1>2. DOMAIN b = Cells /\ b[1] = n
  BY DEF Sized, Total, TotalCell
<1>3. nb = [c \in Cells |-> IF c >= at + 2 THEN b[c - 2] ELSE b[c]]
  BY <1>2 DEF ShiftUp
<1>4. DOMAIN nb = Cells /\ nb[1] = b[1]
  BY <1>1, <1>3
<1> QED
  BY <1>2, <1>4 DEF Sized, Total, TotalCell

LEMMA MovedDown ==
    ASSUME NEW b, NEW n, Sized(b, n), NEW at \in Nat, at >= 5, NEW nb, nb = CopyDown(b, at, 2)
    PROVE  Sized(nb, n)
<1>1. 1 \in Cells
  BY NodesAssumption DEF Cells, EntriesAt, LeafJump
<1>2. DOMAIN b = Cells /\ b[1] = n
  BY DEF Sized, Total, TotalCell
<1>3. nb = [c \in Cells |-> IF c >= at /\ c + 2 < BlockCells THEN b[c + 2] ELSE b[c]]
  BY <1>2 DEF CopyDown
<1>4. DOMAIN nb = Cells /\ nb[1] = b[1]
  BY <1>1, <1>3
<1> QED
  BY <1>2, <1>4 DEF Sized, Total, TotalCell

\* Two fields of an entry are written, and the number of keys.
LEMMA Written ==
    ASSUME NEW b, NEW n, Sized(b, n), NEW m, NEW c, c # 1, NEW d, d # 1, NEW x, NEW y,
           NEW nb, nb = [b EXCEPT ![1] = m, ![c] = x, ![d] = y]
    PROVE  Sized(nb, m)
<1>1. 1 \in Cells
  BY NodesAssumption DEF Cells, EntriesAt, LeafJump
<1> QED
  BY <1>1 DEF Sized, Total, TotalCell

\* The number of keys is written.
LEMMA Counted ==
    ASSUME NEW b, NEW n, Sized(b, n), NEW m, NEW nb, nb = [b EXCEPT ![1] = m]
    PROVE  Sized(nb, m)
<1>1. 1 \in Cells
  BY NodesAssumption DEF Cells, EntriesAt, LeafJump
<1> QED
  BY <1>1 DEF Sized, Total, TotalCell

\* InsertAt on a block that may have lost another child than memory did.
LEMMA BranchInsertSized ==
    ASSUME NEW b, NEW n, Sized(b, n), NEW p \in Nat, NEW k, NEW child,
           NEW nb, nb = BranchInsertAt(b, p, k, child)
    PROVE  Sized(nb, n + 1)
<1> DEFINE at == BranchCell(p)
           room == ShiftUp(b, at, 2)
<1>1. at = 5 + p * 2 /\ at \in Nat
  BY BranchCells
<1> HIDE DEF at
<1>2. at >= 5 /\ at + 1 # 1 /\ at + 2 # 1
  BY <1>1
<1>3. Sized(room, n)
  BY <1>1, <1>2, MovedUp
<1>4. nb = [room EXCEPT ![1] = @ + 1, ![at + 1] = k, ![at + 2] = child]
  BY Zenon DEF BranchInsertAt, BranchJump, TotalCell, at
<1>5. room[1] = n
  BY <1>3 DEF Sized, Total, TotalCell
<1> HIDE DEF room
<1>6. nb = [room EXCEPT ![1] = n + 1, ![at + 1] = k, ![at + 2] = child]
  BY <1>4, <1>5, Zenon
<1> QED
  BY <1>2, <1>3, <1>6, Written

\* Unshift on such a block.
LEMMA BranchUnshiftSized ==
    ASSUME NEW b, NEW n, Sized(b, n), NEW k, NEW child, NEW nb, nb = BranchUnshift(b, k, child)
    PROVE  Sized(nb, n + 1)
<1> DEFINE room == ShiftUp(b, 5, 2)
<1>1. Sized(room, n)
  BY MovedUp
<1>2. nb = [room EXCEPT ![1] = @ + 1, ![5] = child, ![5 + 1] = k]
  BY Zenon DEF BranchUnshift, BranchJump, TotalCell, EntriesAt
<1>3. room[1] = n
  BY <1>1 DEF Sized, Total, TotalCell
<1> HIDE DEF room
<1>4. nb = [room EXCEPT ![1] = n + 1, ![5] = child, ![5 + 1] = k]
  BY <1>2, <1>3, Zenon
<1>5. PICK c, d : c = 5 /\ d = 5 + 1
  OBVIOUS
<1>6. c # 1 /\ d # 1
  BY <1>5
<1>7. nb = [room EXCEPT ![1] = n + 1, ![c] = child, ![d] = k]
  BY <1>4, <1>5, Zenon
<1> QED
  BY <1>1, <1>6, <1>7, Written

\* Entries move towards the front, and there is one key less.
LEMMA DropSized ==
    ASSUME NEW b, NEW n, Sized(b, n), NEW from \in Nat, from >= 5, NEW nb, nb = DropCells(b, from)
    PROVE  Sized(nb, n - 1)
<1> DEFINE room == CopyDown(b, from, 2)
<1>1. Sized(room, n)
  BY MovedDown
<1>2. nb = [room EXCEPT ![1] = @ - 1]
  BY DEF DropCells
<1>3. room[1] = n
  BY <1>1 DEF Sized, Total, TotalCell
<1> HIDE DEF room
<1>4. nb = [room EXCEPT ![1] = n - 1]
  BY <1>2, <1>3
<1> QED
  BY <1>1, <1>4, Counted

\* DeleteAt on such a block.
LEMMA BranchDeleteSized ==
    ASSUME NEW b, NEW n, Sized(b, n), NEW p \in Nat, NEW nb, nb = BranchDeleteAt(b, p)
    PROVE  Sized(nb, n - 1)
<1>1. b[1] = n
  BY DEF Sized, Total, TotalCell
<1>2. CASE p = Total(b) - 1
  <2>1. nb = [b EXCEPT ![1] = n - 1]
    BY <1>1, <1>2 DEF BranchDeleteAt, TotalCell
  <2> QED BY <2>1, Counted
<1>3. CASE p # Total(b) - 1
  <2>1. nb = DropCells(b, BranchCell(p))
    BY <1>3 DEF BranchDeleteAt, DropCells, BranchJump, TotalCell
  <2>2. BranchCell(p) = 5 + p * 2 /\ BranchCell(p) \in Nat
    BY BranchCells
  <2>3. BranchCell(p) >= 5
    BY <2>2
  <2> QED BY <2>1, <2>2, <2>3, DropSized
<1> QED
  BY <1>2, <1>3

\* ReplaceKeyAt on such a block.
LEMMA ReplaceSized ==
    ASSUME NEW b, NEW n, Sized(b, n), NEW p \in Nat, NEW k, NEW nb, nb = BlockKeyReplaced(b, p, k)
    PROVE  Sized(nb, n)
<1>1. BranchCell(p) = 5 + p * 2 /\ BranchCell(p) \in Nat
  BY BranchCells
<1> DEFINE at == BranchCell(p) + 1
<1>2. nb = [b EXCEPT ![at] = k]
  BY DEF BlockKeyReplaced
<1>3. at # 1
  BY <1>1
<1> HIDE DEF at
<1> QED
  BY <1>2, <1>3 DEF Sized, Total, TotalCell

\* The entries cut off, and what becomes of them.
LEMMA CutSized ==
    ASSUME NEW b, NEW n \in Nat, Sized(b, n), NEW from \in 0 .. n, n - from > 0, NEW p, NEW child,
           NEW more, more = RightEntries(BranchEntries(b, from), p, child)
    PROVE  Len(more) = IF p = Half THEN n - from ELSE n - from - 1
<1> DEFINE cut == BranchEntries(b, from)
           entry(i) == BranchEntryAt(b, from + i - 1)
           AnyEntry == {entry(i) : i \in 1 .. n - from}
<1>1. cut = [i \in 1 .. n - from |-> entry(i)]
  BY DEF BranchEntries, Sized
<1> HIDE DEF entry
<1>2. cut \in Seq(AnyEntry) /\ Len(cut) = n - from
  BY <1>1
<1>3. more = RightEntries(cut, p, child)
  OBVIOUS
<1> HIDE DEF cut, AnyEntry
<1>4. CASE p = Half
  <2>1. more = [cut EXCEPT ![1].lower = child]
    BY <1>3, <1>4 DEF RightEntries
  <2> DEFINE e == [cut[1] EXCEPT !.lower = child]
             S == AnyEntry \cup {e}
  <2>2. more = [cut EXCEPT ![1] = e]
    BY <2>1
  <2> HIDE DEF e
  <2>3. cut \in Seq(S)
    BY <1>2, SeqMonotonic
  <2>4. 1 \in 1 .. Len(cut) /\ e \in S
    BY <1>2
  <2> HIDE DEF S
  <2>5. Len(more) = Len(cut)
    BY <2>2, <2>3, <2>4, ExceptSeq
  <2> QED BY <1>2, <1>4, <2>5
<1>5. CASE p # Half
  <2>1. more = Tail(cut)
    BY <1>3, <1>5, Zenon DEF RightEntries
  <2>2. cut # <<>>
    BY <1>2
  <2>3. Len(more) = Len(cut) - 1
    BY <1>2, <2>1, <2>2
  <2> QED BY <1>2, <1>5, <2>3
<1> QED
  BY <1>4, <1>5

\* A new branch has as many keys as it is given.
LEMMA BranchOfSized ==
    ASSUME NEW was, DOMAIN was = Cells, NEW s, NEW nb, nb = BranchOf(was, s)
    PROVE  Sized(nb, Len(s))
<1>1. TotalCell \in Cells
  BY NodesAssumption DEF TotalCell, Cells, EntriesAt, LeafJump
<1>2. DOMAIN nb = Cells /\ nb[TotalCell] = Len(s)
  BY <1>1 DEF BranchOf
<1> QED
  BY <1>2 DEF Sized, Total

\* The halves of a full branch that is split (bplus_tree.go:446-482).
LEMMA SplitSized ==
    ASSUME NEW b, Sized(b, Capacity), NEW was, DOMAIN was = Cells, NEW p \in 0 .. Capacity,
           NEW k, NEW child, NEW blocks, blocks = BranchSplit(b, was, p, k, child)
    PROVE  Sized(blocks.left, Half) /\ Sized(blocks.right, Capacity - Half)
<1> DEFINE n == SplitFrom(p)
           rest == [b EXCEPT ![1] = n]
           more == RightEntries(BranchEntries(b, n), p, child)
           right == BranchOf(was, more)
<1>0. /\ p \in Nat /\ Capacity \in Nat /\ Capacity >= 4 /\ Half \in Nat
      /\ Half >= 2 /\ Capacity >= 2 * Half /\ n = (IF p < Half THEN Half - 1 ELSE Half)
      /\ n \in 0 .. Capacity /\ n >= 1 /\ p <= Capacity /\ Capacity - n > 0
  BY NodesAssumption DEF Half, SplitFrom
<1>1. blocks.left = (IF p < Half THEN BranchInsertAt(rest, p, k, child) ELSE rest)
      /\ blocks.right = (IF p > Half THEN BranchInsertAt(right, p - Half - 1, k, child) ELSE right)
  <2>1. blocks = [left |-> IF p < Half THEN BranchInsertAt(rest, p, k, child) ELSE rest,
                  right |-> IF p > Half THEN BranchInsertAt(right, p - Half - 1, k, child) ELSE right]
    BY Zenon DEF BranchSplit, TotalCell
  <2> HIDE DEF n, rest, right
  <2> QED BY <2>1
<1> HIDE DEF n
<1>2. Sized(rest, n)
  BY Counted
<1>3. Len(more) = IF p = Half THEN Capacity - n ELSE Capacity - n - 1
  BY <1>0, CutSized
<1> HIDE DEF more, rest
<1>4. Sized(right, Len(more))
  BY BranchOfSized
<1> HIDE DEF right
<1>5. CASE p < Half
  <2>1. n + 1 = Half /\ ~(p > Half) /\ Len(more) = Capacity - Half
    BY <1>0, <1>3, <1>5
  <2>2. Sized(BranchInsertAt(rest, p, k, child), n + 1)
    BY <1>0, <1>2, BranchInsertSized
  <2> QED BY <1>1, <1>4, <1>5, <2>1, <2>2
<1>6. CASE p = Half
  <2>1. ~(p < Half) /\ ~(p > Half) /\ n = Half /\ Len(more) = Capacity - Half
    BY <1>0, <1>3, <1>6
  <2> QED BY <1>1, <1>2, <1>4, <2>1
<1>7. CASE p > Half
  <2>1. ~(p < Half) /\ n = Half /\ Len(more) + 1 = Capacity - Half /\ p - Half - 1 \in Nat
    BY <1>0, <1>3, <1>7
  <2>2. Sized(BranchInsertAt(right, p - Half - 1, k, child), Len(more) + 1)
    BY <1>4, <2>1, BranchInsertSized
  <2> QED BY <1>1, <1>2, <1>7, <2>1, <2>2
<1> QED
  BY <1>0, <1>5, <1>6, <1>7

-----------------------------------------------------------------------------
(* Each operation preserves it                                             *)

\* What was in a block before has its cells.
LEMMA StaleCells == \A was \in Stale : DOMAIN was = Cells
BY NodesAssumption DEF Cells

\* A new node is in its block, whatever that had before
\* (uint32_index_node_adapter.go:115-136, 157-173).
LEMMA CreateStep ==
    ASSUME Inv, NEW was \in Stale, CreatedLeaf(was) \/ (\E k \in Keys : CreatedBranch(was, k))
    PROVE  Inv'
<1>0. DOMAIN was = Cells
  BY StaleCells
<1>1. memory.kind = "none" /\ misdeleted' = FALSE
  <2>1. memory.kind = "none" /\ misdeleted' = misdeleted
    BY Zenon DEF CreatedLeaf, CreatedBranch
  <2> QED BY <2>1 DEF Inv
<1>2. CASE CreatedLeaf(was)
  <2> DEFINE b == Allocate(was, Leaf)
             m == Unlinked("leaf", <<>>)
  <2>1. /\ DOMAIN b = Cells /\ b[TypeCell] = Leaf
        /\ b[ParentCell] = 0 /\ b[LeftCell] = 0 /\ b[RightCell] = 0 /\ Total(b) = 0
    BY <1>0, AllocateCells DEF Total
  <2> HIDE DEF b
  <2>2. LeafHas(b, <<>>)
    BY <2>1 DEF LeafHas
  <2>3. <<>> \in Seq(Entries) /\ Len(<<>>) <= Capacity
    BY NodesAssumption
  <2>4. LeafIs(b, m)
    BY <2>1, <2>2, <2>3, NewNode
  <2>5. block' = b /\ memory' = m
    <3>1. [NoNode EXCEPT !.kind = "leaf"] = m
      BY DEF NoNode, Unlinked
    <3> QED BY <1>2, <3>1, Zenon DEF CreatedLeaf, b
  <2>6. LeafIs(block', memory')
    BY <2>4, <2>5, Zenon
  <2> QED BY <1>1, <2>6, LeafAfter
<1>3. CASE \E k \in Keys : CreatedBranch(was, k)
  <2>1. PICK k \in Keys : CreatedBranch(was, k)
    BY <1>3
  <2> DEFINE lt == FreeBlock({})
             gt == FreeBlock({lt})
             e == [key |-> k, lower |-> lt, greater |-> gt]
             b == CreateBranch(was, e)
             m == Unlinked("branch", <<e>>)
  <2>2. lt \in ChildIDs
    BY DEF ChildIDs
  <2>3. \A ids : FreeBlock(ids) \in ChildIDs
    BY FreeBlockIsChild
  <2>4. e \in BranchEntry
    <3>1. gt \in ChildIDs
      BY <2>3
    <3> HIDE DEF lt, gt
    <3> QED BY <2>2, <3>1 DEF BranchEntry
  <2>5. block' = b /\ memory' = m
    <3>1. memory' = [NoNode EXCEPT !.kind = "branch", !.entries = <<e>>]
      BY <2>1, Zenon DEF CreatedBranch
    <3>2. memory' = m
      BY <3>1, UnlinkedIs, Zenon
    <3> QED BY <2>1, <3>2, Zenon DEF CreatedBranch
  <2> HIDE DEF e
  <2>6. /\ DOMAIN b = Cells /\ b[TypeCell] = Branch /\ Total(b) = 1
        /\ b[ParentCell] = 0 /\ b[LeftCell] = 0 /\ b[RightCell] = 0
        /\ b[5] = e.lower /\ b[6] = e.key /\ b[7] = e.greater
    BY <1>0, <2>4, CreateBranchCells
  <2> HIDE DEF b
  <2> DEFINE t == <<e>>
  <2>7. t \in Seq(BranchEntry) /\ Len(t) = 1 /\ t[1] = e
    BY <2>4
  <2>8. m = Unlinked("branch", t)
    OBVIOUS
  <2> HIDE DEF t, m
  <2>9. BranchHas(b, t)
    <3>1. BranchCell(0) = 5
      BY BranchCells
    <3>2. BranchEntryIs(b, 0, e)
      BY <2>6, <3>1 DEF BranchEntryIs
    <3>3. \A q \in 0 .. Len(t) - 1 : q = 0
      BY <2>7
    <3> QED BY <2>6, <2>7, <3>2, <3>3 DEF BranchHas
  <2>10. Len(t) <= Capacity
    BY <2>7, NodesAssumption
  <2>11. BranchIs(b, m)
    BY <2>6, <2>7, <2>8, <2>9, <2>10, NewNode
  <2>12. BranchIs(block', memory')
    BY <2>5, <2>11, Zenon
  <2>13. Sized(block', Len(memory'.entries))
    BY <2>12, HasSize
  <2> QED BY <1>1, <2>12, <2>13, BranchAfter
<1> QED
  BY <1>2, <1>3

\* Free (uint32_index_node_adapter.go:108-113).
LEMMA FreedStep == ASSUME Inv, Freed PROVE Inv'
<1>1. block' = Blank /\ memory' = NoNode /\ misdeleted' = FALSE
  BY DEF Freed
<1>2. NodeIs(block', memory') /\ Sized(block', Len(memory'.entries))
  BY <1>1, NothingThere
<1> QED
  BY <1>1, <1>2 DEF Inv

\* One of the links in the header is written, and the rest stays.
LEMMA LinkWritten ==
    ASSUME NEW b, DOMAIN b = Cells, NEW c \in {ParentCell, LeftCell, RightCell}, NEW id,
           NEW nb, nb = [b EXCEPT ![c] = id]
    PROVE  /\ DOMAIN nb = Cells /\ nb[TypeCell] = b[TypeCell] /\ Total(nb) = Total(b)
           /\ \A n : Sized(b, n) => Sized(nb, n)
           /\ \A s : LeafHas(b, s) /\ Len(s) \in Nat /\ Len(s) <= Capacity => LeafHas(nb, s)
           /\ \A s : BranchHas(b, s) /\ Len(s) \in Nat /\ Len(s) <= Capacity => BranchHas(nb, s)
<1>1. DOMAIN nb = Cells /\ \A d \in Cells : d = 0 \/ d = 1 \/ d > 4 => nb[d] = b[d]
  BY DEF ParentCell, LeftCell, RightCell
<1>2. 0 \in Cells /\ 1 \in Cells /\ \A d \in 5 .. BlockCells - 1 : d \in Cells /\ d > 4
  BY NodesAssumption DEF Cells, EntriesAt, LeafJump
<1>3. nb[TypeCell] = b[TypeCell] /\ Total(nb) = Total(b)
  BY <1>1, <1>2 DEF TypeCell, TotalCell, Total
<1>4. ASSUME NEW s, LeafHas(b, s), Len(s) \in Nat, Len(s) <= Capacity PROVE LeafHas(nb, s)
  <2>1. ASSUME NEW q \in 0 .. Len(s) - 1 PROVE LeafEntryIs(nb, q, s[q + 1])
    <3>1. LeafEntryIs(b, q, s[q + 1])
      BY <1>4 DEF LeafHas
    <3> DEFINE at == LeafCell(q)
    <3>2. at \in 5 .. BlockCells - 1 /\ at + 1 \in 5 .. BlockCells - 1
      BY <1>4, NodesAssumption DEF LeafCell, EntriesAt, LeafJump
    <3> HIDE DEF at
    <3> QED BY <1>1, <1>2, <3>1, <3>2 DEF LeafEntryIs, at
  <2> QED BY <1>1, <1>3, <1>4, <2>1 DEF LeafHas
<1>5. ASSUME NEW s, BranchHas(b, s), Len(s) \in Nat, Len(s) <= Capacity PROVE BranchHas(nb, s)
  <2>1. ASSUME NEW q \in 0 .. Len(s) - 1 PROVE BranchEntryIs(nb, q, s[q + 1])
    <3>1. BranchEntryIs(b, q, s[q + 1])
      BY <1>5 DEF BranchHas
    <3> DEFINE at == BranchCell(q)
    <3>2. at \in 5 .. BlockCells - 1 /\ at + 1 \in 5 .. BlockCells - 1 /\ at + 2 \in 5 .. BlockCells - 1
      <4>1. q \in Nat /\ q < Capacity
        BY <1>5, NodesAssumption
      <4>2. at = 5 + q * 2 /\ at + 2 < BlockCells
        BY <4>1, BranchCells
      <4> QED BY <4>1, <4>2, NodesAssumption
    <3> HIDE DEF at
    <3> QED BY <1>1, <1>2, <3>1, <3>2 DEF BranchEntryIs, at
  <2> QED BY <1>1, <1>3, <1>5, <2>1 DEF BranchHas
<1> QED
  BY <1>1, <1>3, <1>4, <1>5 DEF Sized

\* SetParentID, SetLeftSiblingID and SetRightSiblingID write one cell of the header
\* (uint32_index_node_adapter.go:205-225).
LEMMA SetLinkStep == ASSUME Inv, SetLink PROVE Inv'
<1>1. PICK id \in Links : SetParentID(id) \/ SetLeftSiblingID(id) \/ SetRightSiblingID(id)
  BY DEF SetLink
<1>2. memory.kind # "none" /\ misdeleted' = misdeleted
  BY DEF SetLink
<1>2a. PICK b : NodeIs(b, memory) /\ (misdeleted \/ b = block)
  BY DEF Inv
<1>3. /\ memory.parent \in Links /\ memory.left \in Links /\ memory.right \in Links
      /\ HeaderIs(b, memory) /\ DOMAIN b = Cells
      /\ memory = [kind |-> memory.kind, parent |-> memory.parent, left |-> memory.left,
                   right |-> memory.right, entries |-> memory.entries]
  BY <1>2, <1>2a DEF NodeIs, LeafIs, BranchIs, NoNode, LeafHas, BranchHas
<1>4. {ParentCell, LeftCell, RightCell} \subseteq Cells
  BY NodesAssumption DEF ParentCell, LeftCell, RightCell, Cells, EntriesAt, LeafJump
<1>5. \E c \in {ParentCell, LeftCell, RightCell} :
        /\ block' = [block EXCEPT ![c] = id]
        /\ HeaderIs([b EXCEPT ![c] = id], memory')
  <2>1. CASE SetParentID(id)
    BY <1>3, <1>4, <2>1 DEF SetParentID, HeaderIs, ParentCell, LeftCell, RightCell
  <2>2. CASE SetLeftSiblingID(id)
    BY <1>3, <1>4, <2>2 DEF SetLeftSiblingID, HeaderIs, ParentCell, LeftCell, RightCell
  <2>3. CASE SetRightSiblingID(id)
    BY <1>3, <1>4, <2>3 DEF SetRightSiblingID, HeaderIs, ParentCell, LeftCell, RightCell
  <2> QED BY <1>1, <2>1, <2>2, <2>3
<1>6. /\ memory'.kind = memory.kind /\ memory'.entries = memory.entries
      /\ memory' = [kind |-> memory.kind, parent |-> memory'.parent, left |-> memory'.left,
                    right |-> memory'.right, entries |-> memory.entries]
      /\ memory'.parent \in Links /\ memory'.left \in Links /\ memory'.right \in Links
  BY <1>1, <1>3 DEF SetParentID, SetLeftSiblingID, SetRightSiblingID
<1>7. PICK c \in {ParentCell, LeftCell, RightCell} :
        block' = [block EXCEPT ![c] = id] /\ HeaderIs([b EXCEPT ![c] = id], memory')
  BY <1>5
<1> DEFINE nb == [b EXCEPT ![c] = id]
           s == memory.entries
<1>8. HeaderIs(nb, memory') /\ (misdeleted' \/ nb = block')
  BY <1>2, <1>2a, <1>7
<1>9. Sized(block', Len(memory'.entries))
  <2>1. DOMAIN block = Cells /\ Sized(block, Len(memory.entries))
    BY DEF Inv, Sized
  <2> QED BY <1>6, <1>7, <2>1, LinkWritten
<1>10. /\ DOMAIN nb = Cells /\ nb[TypeCell] = b[TypeCell]
       /\ LeafHas(b, s) /\ Len(s) \in Nat /\ Len(s) <= Capacity => LeafHas(nb, s)
       /\ BranchHas(b, s) /\ Len(s) \in Nat /\ Len(s) <= Capacity => BranchHas(nb, s)
  <2> HIDE DEF s
  <2> QED BY <1>3, LinkWritten
<1> HIDE DEF nb, s
<1>11. CASE memory.kind = "leaf"
  <2>1. LeafIs(b, memory) /\ misdeleted = FALSE
    BY <1>2a, <1>11, NodeKind DEF Inv
  <2>2. s \in Seq(Entries) /\ Len(s) <= Capacity /\ Len(s) \in Nat /\ LeafHas(b, s)
        /\ b[TypeCell] = Leaf
    BY <2>1 DEF LeafIs, s
  <2>3. memory' \in [kind : {"leaf"}, parent : Links, left : Links, right : Links, entries : Seq(Entries)]
    BY <1>6, <1>11, <2>2 DEF s
  <2>4. memory'.entries = s
    BY <1>6 DEF s
  <2>5. LeafIs(nb, memory')
    BY <1>8, <1>10, <2>2, <2>3, <2>4 DEF LeafIs
  <2>6. LeafIs(block', memory') /\ misdeleted' = FALSE
    <3>1. nb = block'
      BY <1>2, <1>8, <2>1
    <3> QED BY <1>2, <2>1, <2>5, <3>1, Zenon
  <2> QED BY <2>6, LeafAfter
<1>12. CASE memory.kind = "branch"
  <2>1. BranchIs(b, memory)
    BY <1>2a, <1>12, NodeKind
  <2>2. s \in Seq(BranchEntry) /\ Len(s) <= Capacity /\ Len(s) \in Nat /\ BranchHas(b, s)
        /\ b[TypeCell] = Branch
    BY <2>1 DEF BranchIs, s
  <2>3. memory' \in [kind : {"branch"}, parent : Links, left : Links, right : Links, entries : Seq(BranchEntry)]
    BY <1>6, <1>12, <2>2 DEF s
  <2>4. memory'.entries = s
    BY <1>6 DEF s
  <2>5. BranchIs(nb, memory')
    BY <1>8, <1>10, <2>2, <2>3, <2>4 DEF BranchIs
  <2>6. misdeleted' \in BOOLEAN
    BY <1>2 DEF Inv
  <2> QED BY <1>8, <1>9, <2>5, <2>6, BranchAfter
<1>13. memory.kind \in {"leaf", "branch"}
  BY <1>2, <1>2a, NodeKind
<1> QED
  BY <1>11, <1>12, <1>13

\* InsertAt on a leaf, which splits a full one (bplus_tree.go:381-423).
LEMMA LeafInsertStep ==
    ASSUME Inv, NEW p \in 0 .. Len(es), NEW e \in Entries, NEW was \in Stale, LeafInsert(p, e, was)
    PROVE  Inv'
<1>0. memory.kind = "leaf" /\ misdeleted' = misdeleted /\ DOMAIN was = Cells
  BY StaleCells, Zenon DEF LeafInsert
<1>1. LeafIs(block, memory) /\ misdeleted' = FALSE
  BY <1>0, LeafNow
<1>2. es \in Seq(Entries) /\ Len(es) <= Capacity /\ Len(es) \in Nat /\ LeafHas(block, es)
  BY <1>0, LeafNow
<1>3. CASE Len(es) < Capacity
  <2> DEFINE nb == LeafInsertAt(block, p, e)
             t == Put(es, p, e)
  <2>1. t \in Seq(Entries) /\ Len(t) = Len(es) + 1
    BY <1>2, <1>3, LeafInsertIs
  <2>2. LeafHas(nb, t)
    BY <1>2, <1>3, LeafInsertIs
  <2>3. \A c \in Header : nb[c] = block[c]
    BY <1>2, <1>3, LeafInsertIs
  <2>4. block' = nb /\ memory' = [memory EXCEPT !.entries = t]
    BY <1>3, Zenon DEF LeafInsert, Became, Put
  <2> HIDE DEF nb, t
  <2>5. Len(t) <= Capacity
    BY <1>2, <1>3, <2>1, NodesAssumption
  <2>6. LeafIs(block', memory')
    BY <1>1, <2>1, <2>2, <2>3, <2>4, <2>5, LeafBecame
  <2> QED BY <1>1, <2>6, LeafAfter
<1>4. CASE ~(Len(es) < Capacity)
  <2> DEFINE blocks == LeafSplit(block, was, p, e)
             memories == MemoryLeafSplit(es, p, e)
             bl == blocks.left
             br == blocks.right
             ml == memories.left
             mr == memories.right
  <2>0. Len(es) = Capacity
    BY <1>2, <1>4, NodesAssumption
  <2>1. BecameHalf(blocks, memories)
    BY <1>4, Zenon DEF LeafInsert
  <2>2. ml \in Seq(Entries) /\ mr \in Seq(Entries) /\ Len(ml) <= Capacity /\ Len(mr) <= Capacity
    BY <1>0, <1>2, <2>0, LeafSplitIs
  <2>3. LeafHas(bl, ml) /\ LeafHas(br, mr)
    BY <1>0, <1>2, <2>0, LeafSplitIs
  <2>4. \A c \in Header : bl[c] = block[c]
    BY <1>0, <1>2, <2>0, LeafSplitIs
  <2>5. br[TypeCell] = Leaf /\ br[ParentCell] = 0 /\ br[LeftCell] = 0 /\ br[RightCell] = 0
    BY <1>0, <1>2, <2>0, LeafSplitIs
  <2>6. \/ block' = bl /\ memory' = [memory EXCEPT !.entries = ml]
        \/ block' = br /\ memory' = [NoNode EXCEPT !.kind = "leaf", !.entries = mr]
    BY <1>0, <2>1, Zenon DEF BecameHalf, Became
  <2> HIDE DEF bl, br, ml, mr
  <2>7. CASE block' = bl /\ memory' = [memory EXCEPT !.entries = ml]
    <3>1. LeafIs(block', memory')
      BY <1>1, <2>2, <2>3, <2>4, <2>7, LeafBecame
    <3> QED BY <1>1, <3>1, LeafAfter
  <2>8. CASE block' = br /\ memory' = [NoNode EXCEPT !.kind = "leaf", !.entries = mr]
    <3>1. memory' = Unlinked("leaf", mr)
      BY <2>8, UnlinkedIs, Zenon
    <3> DEFINE m == Unlinked("leaf", mr)
    <3> HIDE DEF m
    <3>2. LeafIs(br, m)
      BY <2>2, <2>3, <2>5, NewNode DEF m
    <3>3. LeafIs(block', memory')
      BY <2>8, <3>1, <3>2, Zenon DEF m
    <3> QED BY <1>1, <3>3, LeafAfter
  <2> QED BY <2>6, <2>7, <2>8
<1> QED
  BY <1>3, <1>4

\* DeleteAt on a leaf (uint32_index_node_adapter.go:264-279).
LEMMA LeafDeleteStep ==
    ASSUME Inv, NEW p \in 0 .. Len(es) - 1, LeafDelete(p) PROVE Inv'
<1>0. memory.kind = "leaf" /\ misdeleted' = misdeleted
  BY Zenon DEF LeafDelete
<1>1. LeafIs(block, memory) /\ misdeleted' = FALSE
  BY <1>0, LeafNow
<1>2. es \in Seq(Entries) /\ Len(es) <= Capacity /\ Len(es) \in Nat /\ LeafHas(block, es)
  BY <1>0, LeafNow
<1> DEFINE nb == LeafDeleteAt(block, p)
           t == Take(es, p)
<1>3. t \in Seq(Entries) /\ Len(t) = Len(es) - 1
  BY <1>2, LeafDeleteIs
<1>4. LeafHas(nb, t)
  BY <1>2, LeafDeleteIs
<1>5. \A c \in Header : nb[c] = block[c]
  BY <1>2, LeafDeleteIs
<1>6. block' = nb /\ memory' = [memory EXCEPT !.entries = t]
  BY Zenon DEF LeafDelete, Became, Take
<1> HIDE DEF nb, t
<1>7. Len(t) <= Capacity
  BY <1>2, <1>3, NodesAssumption
<1>8. LeafIs(block', memory')
  BY <1>1, <1>3, <1>4, <1>5, <1>6, <1>7, LeafBecame
<1> QED
  BY <1>1, <1>8, LeafAfter

\* A branch that goes on with other entries, in the state after it.
LEMMA BranchGoesOn ==
    ASSUME NEW b, BranchIs(b, memory),
           NEW nb, NEW t \in Seq(BranchEntry), Len(t) <= Capacity, BranchHas(nb, t),
           \A c \in Header : nb[c] = b[c],
           memory' = [memory EXCEPT !.entries = t],
           misdeleted' \in BOOLEAN, misdeleted' \/ nb = block', Sized(block', Len(t))
    PROVE  Inv'
<1>1. BranchIs(nb, memory')
  BY BranchBecame
<1>2. memory'.entries = t
  BY DEF BranchIs
<1> QED
  BY <1>1, <1>2, BranchAfter

\* InsertAt on a branch with room for the key (uint32_index_node_adapter.go:412-432).
LEMMA BranchRoomStep ==
    ASSUME Inv, NEW p \in 0 .. Len(es), NEW k \in Keys, NEW was, BranchInsert(p, k, was),
           Len(es) < Capacity
    PROVE  Inv'
<1>1. memory.kind = "branch" /\ es # <<>> /\ misdeleted' = misdeleted
  BY Zenon DEF BranchInsert
<1>2. PICK b : BranchIs(b, memory) /\ BranchHas(b, es) /\ (misdeleted \/ b = block)
  BY <1>1, BranchNow
<1>3. es \in Seq(BranchEntry) /\ Len(es) \in Nat /\ Len(es) > 0 /\ misdeleted \in BOOLEAN
      /\ Sized(block, Len(es))
  BY <1>1, BranchNow
<1>4. NewChild \in ChildIDs
  BY FreeBlockIsChild DEF NewChild
<1> DEFINE nb == BranchInsertAt(b, p, k, NewChild)
           rb == BranchInsertAt(block, p, k, NewChild)
           t == MemoryInsertAt(es, p, k, NewChild)
<1>5. t \in Seq(BranchEntry) /\ Len(t) = Len(es) + 1
  BY <1>2, <1>3, <1>4, BranchInsertIs
<1>6. BranchHas(nb, t)
  BY <1>2, <1>3, <1>4, BranchInsertIs
<1>7. \A c \in Header : nb[c] = b[c]
  BY <1>2, <1>3, <1>4, BranchInsertIs
<1>8. block' = rb /\ memory' = [memory EXCEPT !.entries = t]
  BY Zenon DEF BranchInsert, Became
<1>9. Sized(rb, Len(es) + 1)
  BY <1>3, BranchInsertSized
<1>10. misdeleted' \/ nb = block'
  BY <1>1, <1>2, <1>8, Zenon
<1> HIDE DEF nb, rb, t
<1>11. Len(t) <= Capacity
  BY <1>3, <1>5, NodesAssumption
<1> QED
  BY <1>1, <1>2, <1>3, <1>5, <1>6, <1>7, <1>8, <1>9, <1>10, <1>11, BranchGoesOn

\* InsertAt on a full branch: branchSplit (bplus_tree.go:446-482).
LEMMA BranchSplitStep ==
    ASSUME Inv, NEW p \in 0 .. Len(es), NEW k \in Keys, NEW was \in Stale, BranchInsert(p, k, was),
           ~(Len(es) < Capacity)
    PROVE  Inv'
<1>1. memory.kind = "branch" /\ misdeleted' = misdeleted
  BY Zenon DEF BranchInsert
<1>2. PICK b : BranchIs(b, memory) /\ BranchHas(b, es) /\ (misdeleted \/ b = block)
  BY <1>1, BranchNow
<1>3. es \in Seq(BranchEntry) /\ Len(es) \in Nat /\ Len(es) <= Capacity /\ misdeleted \in BOOLEAN
      /\ Sized(block, Len(es))
  BY <1>1, BranchNow
<1>4. NewChild \in ChildIDs /\ DOMAIN was = Cells
  BY FreeBlockIsChild, StaleCells DEF NewChild
<1>5. Len(es) = Capacity
  BY <1>3, NodesAssumption
<1> DEFINE blocks == BranchSplit(b, was, p, k, NewChild)
           real == BranchSplit(block, was, p, k, NewChild)
           memories == MemoryBranchSplit(es, p, k, NewChild)
           bl == blocks.left
           br == blocks.right
           rl == real.left
           rr == real.right
           ml == memories.left
           mr == memories.right
<1>6. BecameHalf(real, memories)
  BY Zenon DEF BranchInsert
<1>7. ml \in Seq(BranchEntry) /\ mr \in Seq(BranchEntry)
  BY <1>2, <1>3, <1>4, <1>5, BranchSplitIs
<1>8. Len(ml) = Half /\ Len(mr) = Capacity - Half
  BY <1>2, <1>3, <1>4, <1>5, BranchSplitIs
<1>9. BranchHas(bl, ml) /\ BranchHas(br, mr)
  BY <1>2, <1>3, <1>4, <1>5, BranchSplitIs
<1>10. \A c \in Header : bl[c] = b[c]
  BY <1>2, <1>3, <1>4, <1>5, BranchSplitIs
<1>11. br[TypeCell] = Branch /\ br[ParentCell] = 0 /\ br[LeftCell] = 0 /\ br[RightCell] = 0
  BY <1>2, <1>3, <1>4, <1>5, BranchSplitIs
<1>12. Sized(rl, Half) /\ Sized(rr, Capacity - Half)
  BY <1>3, <1>4, <1>5, SplitSized
<1>13. \/ block' = rl /\ memory' = [memory EXCEPT !.entries = ml]
       \/ block' = rr /\ memory' = [NoNode EXCEPT !.kind = "branch", !.entries = mr]
  BY <1>1, <1>6, Zenon DEF BecameHalf, Became
<1>14. (misdeleted' \/ bl = rl) /\ (misdeleted' \/ br = rr)
  BY <1>1, <1>2, Zenon
<1>15. Len(ml) <= Capacity /\ Len(mr) <= Capacity
  BY <1>8, NodesAssumption DEF Half
<1> HIDE DEF bl, br, rl, rr, ml, mr
<1>16. CASE block' = rl /\ memory' = [memory EXCEPT !.entries = ml]
  <2>1. misdeleted' \/ bl = block'
    BY <1>14, <1>16
  <2>2. Sized(block', Len(ml)) /\ misdeleted' \in BOOLEAN
    BY <1>1, <1>3, <1>8, <1>12, <1>16
  <2> QED BY <1>2, <1>7, <1>9, <1>10, <1>15, <1>16, <2>1, <2>2, BranchGoesOn
<1>17. CASE block' = rr /\ memory' = [NoNode EXCEPT !.kind = "branch", !.entries = mr]
  <2>1. memory' = Unlinked("branch", mr)
    BY <1>17, UnlinkedIs, Zenon
  <2> DEFINE m == Unlinked("branch", mr)
  <2>2. m.entries = mr
    BY DEF Unlinked
  <2> HIDE DEF m
  <2>3. BranchIs(br, m)
    BY <1>7, <1>9, <1>11, <1>15, NewNode DEF m
  <2>4. BranchIs(br, memory')
    BY <2>1, <2>3, Zenon DEF m
  <2>5. misdeleted' \/ br = block'
    BY <1>14, <1>17
  <2>6. memory'.entries = mr
    BY <2>1, <2>2, Zenon DEF m
  <2>7. Sized(block', Len(memory'.entries)) /\ misdeleted' \in BOOLEAN
    BY <1>1, <1>3, <1>8, <1>12, <1>17, <2>6
  <2> QED BY <2>4, <2>5, <2>7, BranchAfter
<1> QED
  BY <1>13, <1>16, <1>17

\* DeleteAt on a branch.  In the middle the block loses the child to the left of the
\* key and memory the one to its right (uint32_index_node_adapter.go:341-360,
\* in_memory_adapter.go:226-236).
LEMMA BranchDeleteStep ==
    ASSUME Inv, NEW p \in 0 .. Len(es) - 1, BranchDelete(p) PROVE Inv'
<1>1. memory.kind = "branch" /\ misdeleted' = (misdeleted \/ p \in 1 .. Len(es) - 2)
  BY Zenon DEF BranchDelete
<1>2. PICK b : BranchIs(b, memory) /\ BranchHas(b, es) /\ (misdeleted \/ b = block)
  BY <1>1, BranchNow
<1>3. es \in Seq(BranchEntry) /\ Len(es) \in Nat /\ Len(es) <= Capacity /\ Len(es) > 0
      /\ misdeleted \in BOOLEAN /\ Sized(block, Len(es)) /\ p \in Nat
  BY <1>1, BranchNow
<1> DEFINE rb == BranchDeleteAt(block, p)
           t == MemoryDeleteAt(es, p)
<1>4. block' = rb /\ memory' = [memory EXCEPT !.entries = t]
  BY Zenon DEF BranchDelete, Became
<1>5. Sized(rb, Len(es) - 1)
  BY <1>3, BranchDeleteSized
<1>6. misdeleted' \in BOOLEAN
  BY <1>1, <1>3
<1> HIDE DEF rb
<1>7. CASE p \in 1 .. Len(es) - 2
  <2> DEFINE nb == DropCells(b, BranchCell(p) + 1)
  <2>1. t \in Seq(BranchEntry) /\ Len(t) = Len(es) - 1
    BY <1>2, <1>3, <1>7, MiddleDeleteIs
  <2>2. BranchHas(nb, t)
    BY <1>2, <1>3, <1>7, MiddleDeleteIs
  <2>3. \A c \in Header : nb[c] = b[c]
    BY <1>2, <1>3, <1>7, MiddleDeleteIs
  <2> HIDE DEF nb, t
  <2>4. Len(t) <= Capacity /\ misdeleted'
    <3>1. misdeleted'
      BY <1>1, <1>7, Zenon
    <3>2. Len(es) - 1 <= Capacity
      BY <1>3, NodesAssumption
    <3>3. Len(t) <= Capacity
      BY <2>1, <3>2
    <3> QED BY <3>1, <3>3
  <2>5. Sized(block', Len(t))
    BY <1>4, <1>5, <2>1, Zenon
  <2>6. memory' = [memory EXCEPT !.entries = t]
    BY <1>4, Zenon
  <2>7. BranchIs(b, memory)
    BY <1>2
  <2>8. misdeleted' \/ nb = block'
    BY <2>4
  <2> QED BY <1>6, <2>1, <2>2, <2>3, <2>4, <2>5, <2>6, <2>7, <2>8, BranchGoesOn
<1>8. CASE p \notin 1 .. Len(es) - 2
  <2> DEFINE nb == BranchDeleteAt(b, p)
             u == Take(es, p)
  <2>0. p \in {0, Len(es) - 1} /\ ~(p > 0 /\ p < Len(es) - 1)
    BY <1>3, <1>8
  <2>1. u \in Seq(BranchEntry) /\ Len(u) = Len(es) - 1
    BY <1>2, <1>3, <2>0, BranchDeleteIs
  <2>2. BranchHas(nb, u)
    BY <1>2, <1>3, <2>0, BranchDeleteIs
  <2>3. \A c \in Header : nb[c] = b[c]
    BY <1>2, <1>3, <2>0, BranchDeleteIs
  <2>4. t = u
    BY <2>0, Zenon DEF MemoryDeleteAt, Take
  <2>5. misdeleted' \/ nb = block'
    BY <1>1, <1>2, <1>4, Zenon DEF rb
  <2> HIDE DEF nb, t, u
  <2>6. Len(u) <= Capacity
    BY <1>3, <2>1, NodesAssumption
  <2>7. memory' = [memory EXCEPT !.entries = u] /\ Sized(block', Len(u))
    BY <1>4, <1>5, <2>1, <2>4
  <2> QED BY <1>2, <1>6, <2>1, <2>2, <2>3, <2>5, <2>6, <2>7, BranchGoesOn
<1> QED
  BY <1>7, <1>8

\* Shift on a branch (uint32_index_node_adapter.go:393-399).
LEMMA BranchShiftsStep == ASSUME Inv, BranchShifts PROVE Inv'
<1>1. memory.kind = "branch" /\ Len(es) > 1 /\ misdeleted' = misdeleted
  BY Zenon DEF BranchShifts
<1>2. PICK b : BranchIs(b, memory) /\ BranchHas(b, es) /\ (misdeleted \/ b = block)
  BY <1>1, BranchNow
<1>3. es \in Seq(BranchEntry) /\ Len(es) \in Nat /\ Len(es) <= Capacity
      /\ misdeleted \in BOOLEAN /\ Sized(block, Len(es))
  BY <1>1, BranchNow
<1> DEFINE nb == BranchShift(b)
           rb == BranchShift(block)
           t == MemoryShift(es)
<1>4. t \in Seq(BranchEntry) /\ Len(t) = Len(es) - 1
  BY <1>1, <1>2, <1>3, BranchShiftIs
<1>5. BranchHas(nb, t)
  BY <1>1, <1>2, <1>3, BranchShiftIs
<1>6. \A c \in Header : nb[c] = b[c]
  BY <1>1, <1>2, <1>3, BranchShiftIs
<1>7. block' = rb /\ memory' = [memory EXCEPT !.entries = t]
  BY Zenon DEF BranchShifts, Became
<1>8. Sized(rb, Len(es) - 1)
  <2>1. rb = DropCells(block, 6)
    BY DEF BranchShift, DropCells, EntriesAt, BranchJump, TotalCell
  <2> QED BY <1>3, <2>1, DropSized
<1>9. misdeleted' \/ nb = block'
  BY <1>1, <1>2, <1>7, Zenon
<1> HIDE DEF nb, rb, t
<1>10. Len(t) <= Capacity
  BY <1>3, <1>4, NodesAssumption
<1> QED
  BY <1>1, <1>2, <1>3, <1>4, <1>5, <1>6, <1>7, <1>8, <1>9, <1>10, BranchGoesOn

\* Unshift on a branch (uint32_index_node_adapter.go:434-447).
LEMMA BranchUnshiftsStep == ASSUME Inv, NEW k \in Keys, BranchUnshifts(k) PROVE Inv'
<1>1. memory.kind = "branch" /\ Len(es) \in 1 .. Capacity - 1 /\ misdeleted' = misdeleted
  BY Zenon DEF BranchUnshifts
<1>2. PICK b : BranchIs(b, memory) /\ BranchHas(b, es) /\ (misdeleted \/ b = block)
  BY <1>1, BranchNow
<1>3. es \in Seq(BranchEntry) /\ Len(es) \in Nat /\ Len(es) > 0 /\ Len(es) < Capacity
      /\ misdeleted \in BOOLEAN /\ Sized(block, Len(es))
  <2>1. Len(es) > 0 /\ Len(es) < Capacity
    BY <1>1, NodesAssumption
  <2> QED BY <1>1, <2>1, BranchNow
<1>4. NewChild \in ChildIDs
  BY FreeBlockIsChild DEF NewChild
<1> DEFINE nb == BranchUnshift(b, k, NewChild)
           rb == BranchUnshift(block, k, NewChild)
           t == MemoryUnshift(es, k, NewChild)
<1>5. t \in Seq(BranchEntry) /\ Len(t) = Len(es) + 1
  BY <1>2, <1>3, <1>4, BranchUnshiftIs
<1>6. BranchHas(nb, t)
  BY <1>2, <1>3, <1>4, BranchUnshiftIs
<1>7. \A c \in Header : nb[c] = b[c]
  BY <1>2, <1>3, <1>4, BranchUnshiftIs
<1>8. block' = rb /\ memory' = [memory EXCEPT !.entries = t]
  BY Zenon DEF BranchUnshifts, Became
<1>9. Sized(rb, Len(es) + 1)
  BY <1>3, BranchUnshiftSized
<1>10. misdeleted' \/ nb = block'
  BY <1>1, <1>2, <1>8, Zenon
<1> HIDE DEF nb, rb, t
<1>11. Len(t) <= Capacity
  BY <1>3, <1>5, NodesAssumption
<1> QED
  BY <1>1, <1>2, <1>3, <1>5, <1>6, <1>7, <1>8, <1>9, <1>10, <1>11, BranchGoesOn

\* ReplaceKeyAt (uint32_index_node_adapter.go:362-373).
LEMMA ReplaceKeyStep ==
    ASSUME Inv, NEW p \in 0 .. Len(es) - 1, NEW k \in Keys, ReplaceKeyAt(p, k) PROVE Inv'
<1>1. memory.kind = "branch" /\ misdeleted' = misdeleted
  BY Zenon DEF ReplaceKeyAt
<1>2. PICK b : BranchIs(b, memory) /\ BranchHas(b, es) /\ (misdeleted \/ b = block)
  BY <1>1, BranchNow
<1>3. es \in Seq(BranchEntry) /\ Len(es) \in Nat /\ Len(es) <= Capacity /\ p \in Nat
      /\ misdeleted \in BOOLEAN /\ Sized(block, Len(es))
  BY <1>1, BranchNow
<1> DEFINE nb == BlockKeyReplaced(b, p, k)
           rb == BlockKeyReplaced(block, p, k)
           t == KeyReplaced(es, p, k)
<1>4. t \in Seq(BranchEntry) /\ Len(t) = Len(es)
  BY <1>2, <1>3, BranchReplaceIs
<1>5. BranchHas(nb, t)
  BY <1>2, <1>3, BranchReplaceIs
<1>6. \A c \in Header : nb[c] = b[c]
  BY <1>2, <1>3, BranchReplaceIs
<1>7. block' = rb /\ memory' = [memory EXCEPT !.entries = t]
  BY Zenon DEF ReplaceKeyAt, Became, BlockKeyReplaced, KeyReplaced
<1>8. Sized(rb, Len(es))
  BY <1>3, ReplaceSized
<1>9. misdeleted' \/ nb = block'
  BY <1>1, <1>2, <1>7, Zenon
<1> HIDE DEF nb, rb, t
<1>10. Len(t) <= Capacity
  BY <1>3, <1>4
<1> QED
  BY <1>1, <1>2, <1>3, <1>4, <1>5, <1>6, <1>7, <1>8, <1>9, <1>10, BranchGoesOn

-----------------------------------------------------------------------------
(* The theorems                                                            *)

\* Every operation on the node keeps the invariant.
LEMMA InvStep == Inv /\ [Next]_vars => Inv'
<1> SUFFICES ASSUME Inv, [Next]_vars PROVE Inv'
  OBVIOUS
<1>1. CASE Create
  <2>1. PICK was \in Stale : CreatedLeaf(was) \/ \E k \in Keys : CreatedBranch(was, k)
    BY <1>1 DEF Create
  <2> QED BY <2>1, CreateStep
<1>2. CASE Freed
  BY <1>2, FreedStep
<1>3. CASE SetLink
  BY <1>3, SetLinkStep
<1>4. CASE BranchShifts
  BY <1>4, BranchShiftsStep
<1>5. ASSUME NEW p \in 0 .. Len(es), NEW was \in Stale, NEW e \in Entries, LeafInsert(p, e, was)
      PROVE  Inv'
  BY <1>5, LeafInsertStep
<1>6. ASSUME NEW p \in 0 .. Len(es), NEW was \in Stale, NEW k \in Keys, BranchInsert(p, k, was)
      PROVE  Inv'
  BY <1>6, BranchRoomStep, BranchSplitStep
<1>7. ASSUME NEW p \in 0 .. Len(es) - 1, LeafDelete(p) PROVE Inv'
  BY <1>7, LeafDeleteStep
<1>8. ASSUME NEW p \in 0 .. Len(es) - 1, BranchDelete(p) PROVE Inv'
  BY <1>8, BranchDeleteStep
<1>9. ASSUME NEW p \in 0 .. Len(es) - 1, NEW k \in Keys, ReplaceKeyAt(p, k) PROVE Inv'
  BY <1>9, ReplaceKeyStep
<1>10. ASSUME NEW k \in Keys, BranchUnshifts(k) PROVE Inv'
  BY <1>10, BranchUnshiftsStep
<1>11. CASE Call
  BY <1>3, <1>4, <1>5, <1>6, <1>7, <1>8, <1>9, <1>10, <1>11, Zenon DEF Call
<1>12. CASE UNCHANGED vars
  BY <1>12, Zenon DEF vars, Inv
<1> QED
  BY <1>1, <1>2, <1>11, <1>12 DEF Next

\* Whatever the tree does with a node, memory has what a block may have, and until a
\* delete in the middle of a branch its block is that one, cell for cell
\* (uint32_index_node_adapter.go:50-447).
THEOREM Invariant == Spec => []Inv
<1>1. Init => Inv
  BY InvInit
<1>2. Inv /\ [Next]_vars => Inv'
  BY InvStep
<1> QED
  BY <1>1, <1>2, PTL DEF Spec

\* The cells every node has.
LEMMA FixedCells ==
    BlockCells \in Nat /\ BlockCells > 13 /\ Capacity \in Nat /\ 0 \in Links
    /\ TypeCell \in Cells /\ ParentCell \in Cells /\ LeftCell \in Cells /\ RightCell \in Cells
    /\ TotalCell \in Cells
<1>1. BlockCells \in Nat /\ BlockCells > 13 /\ Capacity \in Nat /\ 0 \in Links
  BY NodesAssumption DEF EntriesAt, LeafJump
<1> QED
  BY <1>1 DEF TypeCell, TotalCell, ParentCell, LeftCell, RightCell, Cells

\* Read from the first entry on, the block gives what is in memory.
LEMMA ReadFromStart ==
    ASSUME NEW S, NEW s \in Seq(S) PROVE SubSeq(s, 0 + 1, Len(s)) = s /\ 0 \in 0 .. Len(s)
<1>1. 0 \in 0 .. Len(s)
  OBVIOUS
<1> DEFINE t == SubSeq(s, 0 + 1, Len(s))
<1>2. t \in Seq(S) /\ Len(t) = Len(s) - 0 /\ \A i \in 1 .. Len(s) - 0 : t[i] = s[0 + i]
  BY <1>1, Cut
<1> HIDE DEF t
<1>3. Len(t) = Len(s) /\ \A i \in 1 .. Len(s) : t[i] = s[i]
  BY <1>2
<1>4. t = s
  BY <1>2, <1>3, SameElements
<1> QED
  BY <1>1, <1>4 DEF t

\* The number of keys the block has is one the node may have, and its links are nodes
\* (uint32_index_node_adapter.go:123-225), also after a delete in the middle.
THEOREM TypeCorrect == Spec => []TypeOK
<1>1. ASSUME Inv PROVE TypeOK
  <2>1. PICK b : NodeIs(b, memory)
    BY <1>1 DEF Inv
  <2>2. DOMAIN block = Cells /\ Total(block) = Len(memory.entries) /\ misdeleted \in BOOLEAN
    BY <1>1 DEF Inv, Sized
  <2>3. memory.kind \in {"none", "leaf", "branch"}
    BY <2>1, NodeKind
  <2>4. /\ memory.parent \in Links /\ memory.left \in Links /\ memory.right \in Links
        /\ Len(memory.entries) \in 0 .. Capacity
    <3>1. CASE memory = NoNode
      BY <3>1, FixedCells DEF NoNode
    <3>2. CASE memory # NoNode
      BY <2>1, <3>2, FixedCells DEF NodeIs, LeafIs, BranchIs
    <3> QED BY <3>1, <3>2
  <2> QED BY <2>2, <2>3, <2>4 DEF TypeOK, Cells
<1>2. Inv => TypeOK
  BY <1>1
<1> QED
  BY <1>2, Invariant, PTL

\* In memory, entries side by side agree on the child between them after every
\* operation, a delete in the middle included (in_memory_adapter.go:226-295): whichever
\* of the two the code reads, it finds the same node.
THEOREM SharedChild == Spec => []ChildrenShared
<1>1. ASSUME Inv, memory.kind = "branch", NEW i \in 1 .. Len(es) - 1
      PROVE  es[i].greater = es[i + 1].lower
  <2>1. PICK b : BranchIs(b, memory) /\ BranchHas(b, es)
    BY <1>1, BranchNow
  <2>2. es \in Seq(BranchEntry)
    BY <1>1, BranchNow
  <2> QED BY <2>1, <2>2, NeighboursShare
<1>2. Inv => ChildrenShared
  BY <1>1 DEF ChildrenShared
<1> QED
  BY <1>2, Invariant, PTL

\* Until a branch loses a key from its middle, the tree sees one node whichever adapter
\* it has, whatever the block had before: what the tests of the tree show about a node
\* in memory (in_memory_adapter.go:149-295) holds of its block up to there
\* (uint32_index_node_adapter.go:50-447).
THEOREM Agreement == Spec => []AdaptersAgree
<1>1. ASSUME Inv, ~misdeleted PROVE InBlock = InMemory
  <2> DEFINE kind == CASE block[TypeCell] = Leaf -> "leaf"
                       [] block[TypeCell] = Branch -> "branch"
                       [] OTHER -> "none"
             entries == IF kind = "leaf" THEN LeafEntries(block, 0) ELSE BranchEntries(block, 0)
  <2>0. NodeIs(block, memory)
    BY <1>1 DEF Inv
  <2>1. kind = memory.kind /\ entries = es /\ HeaderIs(block, memory)
    <3>1. CASE memory.kind = "leaf"
      <4>1. block[TypeCell] = Leaf /\ HeaderIs(block, memory)
            /\ LeafHas(block, es) /\ es \in Seq(Entries)
        BY <2>0, <3>1, NodeKind DEF LeafIs, es
      <4>2. kind = "leaf"
        BY <4>1 DEF Branch, Leaf
      <4>3. SubSeq(es, 0 + 1, Len(es)) = es /\ 0 \in 0 .. Len(es)
        BY <4>1, ReadFromStart
      <4>4. LeafEntries(block, 0) = SubSeq(es, 0 + 1, Len(es))
        BY <4>1, <4>3, LeafCutIs
      <4> HIDE DEF kind
      <4> QED BY <3>1, <4>1, <4>2, <4>3, <4>4, Zenon
    <3>2. CASE memory.kind = "branch"
      <4>1. block[TypeCell] = Branch /\ HeaderIs(block, memory)
        BY <2>0, <3>2, NodeKind DEF BranchIs
      <4>2. BranchHas(block, es) /\ es \in Seq(BranchEntry) /\ Len(es) <= Capacity
        BY <2>0, <3>2, NodeKind DEF BranchIs, es
      <4>3. kind = "branch"
        BY <4>1 DEF Branch, Leaf
      <4>4. SubSeq(es, 0 + 1, Len(es)) = es /\ 0 \in 0 .. Len(es)
        BY <4>2, ReadFromStart
      <4>5. BranchEntries(block, 0) = SubSeq(es, 0 + 1, Len(es))
        BY <4>2, <4>4, BranchCutIs
      <4>6. kind # "leaf"
        BY <4>3
      <4> HIDE DEF kind
      <4> QED BY <3>2, <4>1, <4>3, <4>4, <4>5, <4>6, Zenon
    <3>3. CASE memory = NoNode /\ block = Blank
      <4>1. block[TypeCell] = 0 /\ Total(block) = 0
            /\ block[ParentCell] = 0 /\ block[LeftCell] = 0 /\ block[RightCell] = 0
        BY <3>3, BlankIs, FixedCells DEF Total
      <4>2. memory.kind = "none" /\ memory.parent = 0 /\ memory.left = 0 /\ memory.right = 0
            /\ es = <<>>
        BY <3>3 DEF NoNode, es
      <4>3. kind = "none"
        BY <4>1 DEF Branch, Leaf
      <4>4. BranchEntries(block, 0) = <<>>
        <5>1. BranchEntries(block, 0) = [i \in 1 .. 0 |-> BranchEntryAt(block, 0 + i - 1)]
          BY <4>1 DEF BranchEntries
        <5> QED BY <5>1
      <4>5. HeaderIs(block, memory)
        BY <4>1, <4>2 DEF HeaderIs
      <4>6. kind # "leaf"
        BY <4>3
      <4> HIDE DEF kind
      <4> QED BY <4>2, <4>3, <4>4, <4>5, <4>6, Zenon
    <3> QED BY <2>0, <3>1, <3>2, <3>3 DEF NodeIs, LeafIs, BranchIs
  <2>2. InBlock = View(kind, block[ParentCell], block[LeftCell], block[RightCell], entries)
    BY Zenon DEF InBlock
  <2> HIDE DEF kind, entries
  <2>3. InBlock = View(memory.kind, memory.parent, memory.left, memory.right, es)
    BY <2>1, <2>2, Zenon DEF HeaderIs
  <2> QED BY <2>3, Zenon DEF InMemory
<1>2. Inv => AdaptersAgree
  BY <1>1 DEF AdaptersAgree
<1> QED
  BY <1>2, Invariant, PTL

-----------------------------------------------------------------------------
(* The contract: sequences                                                 *)

\* An insert is all there is to know about where the elements went.
LEMMA InsertedIsPut ==
    ASSUME NEW S, NEW s \in Seq(S), NEW p \in 0 .. Len(s), NEW e \in S,
           NEW t \in Seq(S), InsertedAt(t, s, p, e)
    PROVE  t = Put(s, p, e)
<1> DEFINE u == Put(s, p, e)
<1>1. u \in Seq(S) /\ InsertedAt(u, s, p, e)
  BY Inserted
<1> HIDE DEF u
<1>2. Len(u) = Len(t) /\ \A i \in 1 .. Len(u) : u[i] = t[i]
  BY <1>1 DEF InsertedAt
<1>3. u = t
  BY <1>1, <1>2, SameElements
<1>. QED
  BY <1>3 DEF u

\* So is a removal.
LEMMA RemovedIsTake ==
    ASSUME NEW S, NEW s \in Seq(S), NEW p \in 0 .. Len(s) - 1,
           NEW t \in Seq(S), RemovedAt(t, s, p)
    PROVE  t = Take(s, p)
<1> DEFINE u == Take(s, p)
<1>1. u \in Seq(S) /\ RemovedAt(u, s, p)
  BY Removed
<1> HIDE DEF u
<1>2. Len(u) = Len(t) /\ \A i \in 1 .. Len(u) : u[i] = t[i]
  BY <1>1 DEF RemovedAt
<1>3. u = t
  BY <1>1, <1>2, SameElements
<1>. QED
  BY <1>3 DEF u

\* Sequence t is s from the element at position a on, up to the one before position b.
PartOf(t, s, a, b) == Len(t) = b - a /\ \A i \in 1 .. b - a : t[i] = s[a + i]

\* So is a part of a sequence.
LEMMA PartIsSubSeq ==
    ASSUME NEW S, NEW s \in Seq(S), NEW a \in Nat, NEW b \in Nat, a <= b, b <= Len(s),
           NEW t \in Seq(S), PartOf(t, s, a, b)
    PROVE  t = SubSeq(s, a + 1, b)
<1> DEFINE u == SubSeq(s, a + 1, b)
<1>1. u \in Seq(S) /\ Len(u) = b - a /\ \A i \in 1 .. b - a : u[i] = s[a + i]
  OBVIOUS
<1> HIDE DEF u
<1>2. Len(u) = Len(t) /\ \A i \in 1 .. Len(u) : u[i] = t[i]
  BY <1>1 DEF PartOf
<1>3. u = t
  BY <1>1, <1>2, SameElements
<1>. QED
  BY <1>3 DEF u

\* And a part is where SubSeq says.
LEMMA SubSeqIsPart ==
    ASSUME NEW S, NEW s \in Seq(S), NEW a \in Nat, NEW b \in Nat, a <= b, b <= Len(s)
    PROVE  SubSeq(s, a + 1, b) \in Seq(S) /\ PartOf(SubSeq(s, a + 1, b), s, a, b)
BY DEF PartOf

\* Everything but the first element.
LEMMA TailIsPart ==
    ASSUME NEW S, NEW s \in Seq(S), Len(s) > 0,
           NEW t \in Seq(S), PartOf(t, s, 1, Len(s))
    PROVE  t = Tail(s)
<1> DEFINE u == Tail(s)
<1>1. u \in Seq(S) /\ Len(u) = Len(s) - 1 /\ \A i \in 1 .. Len(s) - 1 : u[i] = s[1 + i]
  OBVIOUS
<1> HIDE DEF u
<1>2. Len(u) = Len(t) /\ \A i \in 1 .. Len(u) : u[i] = t[i]
  BY <1>1 DEF PartOf
<1>3. u = t
  BY <1>1, <1>2, SameElements
<1>. QED
  BY <1>3 DEF u

-----------------------------------------------------------------------------
(* From entries to what the tree sees                                      *)

\* The functions View is built from.
KeysOf(s) == [i \in DOMAIN s |-> s[i].key]

ItemsOf(s) == [i \in DOMAIN s |-> s[i].item]

ChildrenOf(s) == IF s = <<>> THEN <<>> ELSE <<s[1].lower>> \o [i \in DOMAIN s |-> s[i].greater]

\* A node as the tree sees it.
Seen(kind, parent, left, right, keys, items) ==
    [kind |-> kind, parent |-> parent, left |-> left, right |-> right, keys |-> keys, items |-> items]

ItemsIn(kind, s) == IF kind = "leaf" THEN ItemsOf(s) ELSE ChildrenOf(s)

\* InMemory in terms of these (exports.go:16-57).
LEMMA ViewIs ==
    ASSUME NEW m
    PROVE  View(m.kind, m.parent, m.left, m.right, m.entries)
             = Seen(m.kind, m.parent, m.left, m.right, KeysOf(m.entries), ItemsIn(m.kind, m.entries))
BY Zenon DEF View, Seen, ItemsIn, KeysOf, ItemsOf, ChildrenOf

\* The keys of a leaf and of a branch (uint32_index_node_adapter.go:205-225).
LEMMA KeysAre ==
    ASSUME NEW S, NEW s \in Seq(S), \A e \in S : e.key \in Keys
    PROVE  /\ KeysOf(s) \in Seq(Keys) /\ Len(KeysOf(s)) = Len(s)
           /\ \A i \in 1 .. Len(s) : KeysOf(s)[i] = s[i].key
<1>1. Len(s) \in Nat /\ DOMAIN s = 1 .. Len(s) /\ \A i \in 1 .. Len(s) : s[i].key \in Keys
  OBVIOUS
<1>2. KeysOf(s) = [i \in 1 .. Len(s) |-> s[i].key]
  BY <1>1, Zenon DEF KeysOf
<1>3. KeysOf(s) \in [1 .. Len(s) -> Keys]
  BY <1>1, <1>2, Zenon
<1>. QED
  BY <1>1, <1>2, <1>3

\* The items of a leaf (uint32_index_node_adapter.go:251-262).
LEMMA ItemsAre ==
    ASSUME NEW s \in Seq(Entries)
    PROVE  /\ ItemsOf(s) \in Seq(Rows) /\ Len(ItemsOf(s)) = Len(s)
           /\ \A i \in 1 .. Len(s) : ItemsOf(s)[i] = s[i].item
<1>1. Len(s) \in Nat /\ DOMAIN s = 1 .. Len(s) /\ \A i \in 1 .. Len(s) : s[i] \in Entries
  OBVIOUS
<1>2. \A i \in 1 .. Len(s) : s[i].item \in Rows
  BY <1>1, Zenon DEF Rows
<1>3. ItemsOf(s) = [i \in 1 .. Len(s) |-> s[i].item]
  BY <1>1, Zenon DEF ItemsOf
<1>4. ItemsOf(s) \in [1 .. Len(s) -> Rows]
  BY <1>2, <1>3, Zenon
<1>. QED
  BY <1>1, <1>3, <1>4

\* The children of a branch, one more than keys (uint32_index_node_adapter.go:314-339).
LEMMA ChildrenAre ==
    ASSUME NEW s \in Seq(BranchEntry), Len(s) > 0
    PROVE  /\ ChildrenOf(s) \in Seq(ChildIDs) /\ Len(ChildrenOf(s)) = Len(s) + 1
           /\ ChildrenOf(s)[1] = s[1].lower
           /\ \A i \in 1 .. Len(s) : ChildrenOf(s)[i + 1] = s[i].greater
<1> DEFINE n == Len(s)
           a == <<s[1].lower>>
           c == [i \in 1 .. n |-> s[i].greater]
<1>1. n \in Nat /\ n > 0 /\ DOMAIN s = 1 .. n /\ \A i \in 1 .. n : s[i] \in BranchEntry
  OBVIOUS
<1>2. \A i \in 1 .. n : s[i].greater \in ChildIDs /\ s[i].lower \in ChildIDs
  BY <1>1 DEF BranchEntry
<1>3. s # <<>>
  BY <1>1
<1>4. ChildrenOf(s) = a \o c
  BY <1>1, <1>3, Zenon DEF ChildrenOf
<1>5. a \in Seq(ChildIDs) /\ Len(a) = 1 /\ a[1] = s[1].lower
  BY <1>1, <1>2
<1>6. c \in [1 .. n -> ChildIDs] /\ \A i \in 1 .. n : c[i] = s[i].greater
  BY <1>2, Zenon
<1> HIDE DEF c, a
<1>7. c \in Seq(ChildIDs) /\ Len(c) = n
  BY <1>1, <1>6
<1>8. /\ a \o c \in Seq(ChildIDs) /\ Len(a \o c) = Len(a) + Len(c)
      /\ \A i \in 1 .. Len(a) + Len(c) : (a \o c)[i] = IF i <= Len(a) THEN a[i] ELSE c[i - Len(a)]
  BY <1>5, <1>7, ConcatProperties, ZenonT(30)
<1>9. \A i \in 1 .. 1 + n : (a \o c)[i] = IF i <= 1 THEN a[i] ELSE c[i - 1]
  BY <1>5, <1>7, <1>8
<1>10. (a \o c)[1] = s[1].lower /\ \A i \in 1 .. n : (a \o c)[i + 1] = s[i].greater
  <2>1. (a \o c)[1] = a[1]
    <3>1. 1 \in 1 .. 1 + n /\ 1 <= 1
      BY <1>1
    <3>. QED
      BY <3>1, <1>9, Zenon
  <2>2. ASSUME NEW i \in 1 .. n PROVE (a \o c)[i + 1] = s[i].greater
    <3>1. i + 1 \in 1 .. 1 + n /\ ~(i + 1 <= 1) /\ (i + 1) - 1 = i
      BY <1>1
    <3>2. (a \o c)[i + 1] = c[(i + 1) - 1]
      BY <3>1, <1>9
    <3>. QED
      BY <3>1, <3>2, <1>6
  <2>. QED
    BY <2>1, <2>2, <1>5
<1>11. Len(a \o c) = n + 1
  BY <1>1, <1>5, <1>7, <1>8
<1>. QED
  BY <1>4, <1>8, <1>10, <1>11, Zenon

\* A node without entries shows none.
LEMMA NothingSeen == KeysOf(<<>>) = <<>> /\ ItemsOf(<<>>) = <<>> /\ ChildrenOf(<<>>) = <<>>
<1>1. \A s : s = <<>> => [i \in DOMAIN s |-> s[i].key] = <<>> /\ [i \in DOMAIN s |-> s[i].item] = <<>>
  OBVIOUS
<1>. QED
  BY <1>1 DEF KeysOf, ItemsOf, ChildrenOf

\* Elements of entries know their keys.
LEMMA EntryKeys == (\A e \in Entries : e.key \in Keys) /\ (\A e \in BranchEntry : e.key \in Keys)
BY NodesAssumption DEF BranchEntry

-----------------------------------------------------------------------------
(* What the operations on entries do to keys, items and children           *)

\* A key goes in where its entry does (in_memory_adapter.go:149-159).
LEMMA KeysPut ==
    ASSUME NEW S, NEW s \in Seq(S), \A e \in S : e.key \in Keys, NEW p \in 0 .. Len(s), NEW e \in S
    PROVE  KeysOf(Put(s, p, e)) = Put(KeysOf(s), p, e.key)
<1> DEFINE t == Put(s, p, e)
           a == KeysOf(s)
           c == KeysOf(t)
           k == e.key
<1>1. t \in Seq(S) /\ InsertedAt(t, s, p, e) /\ k \in Keys
  BY Inserted
<1>2. a \in Seq(Keys) /\ Len(a) = Len(s) /\ \A i \in 1 .. Len(s) : a[i] = s[i].key
  BY KeysAre
<1> HIDE DEF t
<1>3. c \in Seq(Keys) /\ Len(c) = Len(t) /\ \A i \in 1 .. Len(t) : c[i] = t[i].key
  BY <1>1, KeysAre
<1> HIDE DEF a, c
<1>4. InsertedAt(c, a, p, k)
  <2>1. Len(t) = Len(s) + 1 /\ Len(s) \in Nat /\ Len(c) = Len(a) + 1
    BY <1>1, <1>2, <1>3 DEF InsertedAt
  <2>2. ASSUME NEW i \in 1 .. Len(s) + 1
        PROVE  c[i] = IF i <= p THEN a[i] ELSE IF i = p + 1 THEN k ELSE a[i - 1]
    <3>1. c[i] = t[i].key
      BY <2>1, <1>1, <1>2, <1>3
    <3>2. t[i] = IF i <= p THEN s[i] ELSE IF i = p + 1 THEN e ELSE s[i - 1]
      BY <1>1 DEF InsertedAt
    <3>3. CASE i <= p
      <4>1. i \in 1 .. Len(s)
        BY <2>1, <3>3
      <4>. QED
        BY <3>1, <3>2, <3>3, <4>1, <1>2
    <3>4. CASE i = p + 1
      <4>1. ~(i <= p)
        BY <3>4
      <4>. QED
        BY <3>1, <3>2, <3>4, <4>1, Zenon
    <3>5. CASE i > p + 1
      <4>1. i - 1 \in 1 .. Len(s) /\ ~(i <= p) /\ i # p + 1
        BY <2>1, <3>5
      <4>2. a[i - 1] = s[i - 1].key
        BY <4>1, <1>2
      <4>. QED
        BY <3>1, <3>2, <4>1, <4>2
    <3>. QED
      BY <3>3, <3>4, <3>5, <2>1
  <2>. QED
    BY <2>1, <2>2, <1>2 DEF InsertedAt
<1>5. c = Put(a, p, k)
  <2>1. p \in 0 .. Len(a)
    BY <1>2
  <2> HIDE DEF k
  <2>. QED
    BY <1>1, <1>2, <1>3, <1>4, <2>1, InsertedIsPut
<1>. QED
  BY <1>5 DEF t, a, c

\* And an item.
LEMMA ItemsPut ==
    ASSUME NEW s \in Seq(Entries), NEW p \in 0 .. Len(s), NEW e \in Entries
    PROVE  ItemsOf(Put(s, p, e)) = Put(ItemsOf(s), p, e.item)
<1> DEFINE t == Put(s, p, e)
           a == ItemsOf(s)
           c == ItemsOf(t)
           k == e.item
<1>1. t \in Seq(Entries) /\ InsertedAt(t, s, p, e)
  BY Inserted
<1>2. a \in Seq(Rows) /\ Len(a) = Len(s) /\ \A i \in 1 .. Len(s) : a[i] = s[i].item
  BY ItemsAre
<1> HIDE DEF t
<1>3. c \in Seq(Rows) /\ Len(c) = Len(t) /\ \A i \in 1 .. Len(t) : c[i] = t[i].item
  BY <1>1, ItemsAre
<1>4. k \in Rows
  BY DEF Rows
<1> HIDE DEF a, c
<1>5. InsertedAt(c, a, p, k)
  <2>1. Len(t) = Len(s) + 1 /\ Len(s) \in Nat /\ Len(c) = Len(a) + 1
    BY <1>1, <1>2, <1>3 DEF InsertedAt
  <2>2. ASSUME NEW i \in 1 .. Len(s) + 1
        PROVE  c[i] = IF i <= p THEN a[i] ELSE IF i = p + 1 THEN k ELSE a[i - 1]
    <3>1. c[i] = t[i].item
      BY <2>1, <1>1, <1>2, <1>3
    <3>2. t[i] = IF i <= p THEN s[i] ELSE IF i = p + 1 THEN e ELSE s[i - 1]
      BY <1>1 DEF InsertedAt
    <3>3. CASE i <= p
      <4>1. i \in 1 .. Len(s)
        BY <2>1, <3>3
      <4>. QED
        BY <3>1, <3>2, <3>3, <4>1, <1>2
    <3>4. CASE i = p + 1
      <4>1. ~(i <= p)
        BY <3>4
      <4>. QED
        BY <3>1, <3>2, <3>4, <4>1, Zenon
    <3>5. CASE i > p + 1
      <4>1. i - 1 \in 1 .. Len(s) /\ ~(i <= p) /\ i # p + 1
        BY <2>1, <3>5
      <4>2. a[i - 1] = s[i - 1].item
        BY <4>1, <1>2
      <4>. QED
        BY <3>1, <3>2, <4>1, <4>2
    <3>. QED
      BY <3>3, <3>4, <3>5, <2>1
  <2>. QED
    BY <2>1, <2>2, <1>2 DEF InsertedAt
<1>6. c = Put(a, p, k)
  <2>1. p \in 0 .. Len(a)
    BY <1>2
  <2> HIDE DEF k
  <2>. QED
    BY <1>2, <1>3, <1>4, <1>5, <2>1, InsertedIsPut
<1>. QED
  BY <1>6 DEF t, a, c

\* They go where their entry goes (in_memory_adapter.go:169-173).
LEMMA LeafTake ==
    ASSUME NEW s \in Seq(Entries), NEW p \in 0 .. Len(s) - 1
    PROVE  /\ KeysOf(Take(s, p)) = Take(KeysOf(s), p)
           /\ ItemsOf(Take(s, p)) = Take(ItemsOf(s), p)
<1> DEFINE t == Take(s, p)
           a == KeysOf(s)
           c == KeysOf(t)
           d == ItemsOf(s)
           f == ItemsOf(t)
<1>1. t \in Seq(Entries) /\ RemovedAt(t, s, p)
  BY Removed
<1>2. a \in Seq(Keys) /\ Len(a) = Len(s) /\ \A i \in 1 .. Len(s) : a[i] = s[i].key
  BY KeysAre, EntryKeys
<1>3. d \in Seq(Rows) /\ Len(d) = Len(s) /\ \A i \in 1 .. Len(s) : d[i] = s[i].item
  BY ItemsAre
<1> HIDE DEF t
<1>4. c \in Seq(Keys) /\ Len(c) = Len(t) /\ \A i \in 1 .. Len(t) : c[i] = t[i].key
  BY <1>1, KeysAre, EntryKeys
<1>5. f \in Seq(Rows) /\ Len(f) = Len(t) /\ \A i \in 1 .. Len(t) : f[i] = t[i].item
  BY <1>1, ItemsAre
<1> HIDE DEF a, c, d, f
<1>6. RemovedAt(c, a, p)
  <2>1. Len(t) = Len(s) - 1 /\ Len(s) \in Nat
    BY <1>1 DEF RemovedAt
  <2>2. ASSUME NEW i \in 1 .. Len(s) - 1 PROVE c[i] = IF i <= p THEN a[i] ELSE a[i + 1]
    <3>1. i \in 1 .. Len(s) /\ i + 1 \in 1 .. Len(s)
      BY <2>1
    <3>2. c[i] = t[i].key /\ a[i] = s[i].key /\ a[i + 1] = s[i + 1].key
      BY <2>1, <3>1, <1>2, <1>4
    <3>3. t[i] = IF i <= p THEN s[i] ELSE s[i + 1]
      BY <1>1 DEF RemovedAt
    <3>. QED
      BY <3>2, <3>3
  <2>. QED
    BY <2>1, <2>2, <1>2, <1>4 DEF RemovedAt
<1>7. RemovedAt(f, d, p)
  <2>1. Len(t) = Len(s) - 1 /\ Len(s) \in Nat
    BY <1>1 DEF RemovedAt
  <2>2. ASSUME NEW i \in 1 .. Len(s) - 1 PROVE f[i] = IF i <= p THEN d[i] ELSE d[i + 1]
    <3>1. i \in 1 .. Len(s) /\ i + 1 \in 1 .. Len(s)
      BY <2>1
    <3>2. f[i] = t[i].item /\ d[i] = s[i].item /\ d[i + 1] = s[i + 1].item
      BY <2>1, <3>1, <1>3, <1>5
    <3>3. t[i] = IF i <= p THEN s[i] ELSE s[i + 1]
      BY <1>1 DEF RemovedAt
    <3>. QED
      BY <3>2, <3>3
  <2>. QED
    BY <2>1, <2>2, <1>3, <1>5 DEF RemovedAt
<1>8. c = Take(a, p)
  BY <1>2, <1>4, <1>6, RemovedIsTake
<1>9. f = Take(d, p)
  BY <1>3, <1>5, <1>7, RemovedIsTake
<1>. QED
  BY <1>8, <1>9 DEF t, a, c, d, f

\* A part of a leaf has the keys and the items of that part (in_memory_adapter.go:175-179).
LEMMA LeafPart ==
    ASSUME NEW s \in Seq(Entries), NEW a \in Nat, NEW b \in Nat, a <= b, b <= Len(s)
    PROVE  /\ KeysOf(SubSeq(s, a + 1, b)) = SubSeq(KeysOf(s), a + 1, b)
           /\ ItemsOf(SubSeq(s, a + 1, b)) = SubSeq(ItemsOf(s), a + 1, b)
<1> DEFINE t == SubSeq(s, a + 1, b)
           x == KeysOf(s)
           y == KeysOf(t)
           d == ItemsOf(s)
           f == ItemsOf(t)
<1>1. t \in Seq(Entries) /\ PartOf(t, s, a, b)
  BY SubSeqIsPart
<1>2. x \in Seq(Keys) /\ Len(x) = Len(s) /\ \A i \in 1 .. Len(s) : x[i] = s[i].key
  BY KeysAre, EntryKeys
<1>3. d \in Seq(Rows) /\ Len(d) = Len(s) /\ \A i \in 1 .. Len(s) : d[i] = s[i].item
  BY ItemsAre
<1> HIDE DEF t
<1>4. y \in Seq(Keys) /\ Len(y) = Len(t) /\ \A i \in 1 .. Len(t) : y[i] = t[i].key
  BY <1>1, KeysAre, EntryKeys
<1>5. f \in Seq(Rows) /\ Len(f) = Len(t) /\ \A i \in 1 .. Len(t) : f[i] = t[i].item
  BY <1>1, ItemsAre
<1> HIDE DEF x, y, d, f
<1>6. PartOf(y, x, a, b)
  BY <1>1, <1>2, <1>4 DEF PartOf
<1>7. PartOf(f, d, a, b)
  BY <1>1, <1>3, <1>5 DEF PartOf
<1>8. y = SubSeq(x, a + 1, b)
  BY <1>2, <1>4, <1>6, PartIsSubSeq
<1>9. f = SubSeq(d, a + 1, b)
  BY <1>3, <1>5, <1>7, PartIsSubSeq
<1>. QED
  BY <1>8, <1>9 DEF t, x, y, d, f

\* Branch t has the keys of s from position a to before b and the children around them.
RunOf(t, s, a, b) ==
    /\ Len(t) = b - a
    /\ \A i \in 1 .. b - a : t[i].key = s[a + i].key /\ t[i].greater = s[a + i].greater
    /\ t[1].lower = ChildrenOf(s)[a + 1]

\* They are a part of the keys and of the children (exports.go:37-57).
LEMMA BranchRun ==
    ASSUME NEW s \in Seq(BranchEntry), NEW t \in Seq(BranchEntry),
           NEW a \in Nat, NEW b \in Nat, a < b, b <= Len(s), RunOf(t, s, a, b)
    PROVE  /\ PartOf(KeysOf(t), KeysOf(s), a, b)
           /\ PartOf(ChildrenOf(t), ChildrenOf(s), a, b + 1)
           /\ KeysOf(s) \in Seq(Keys) /\ KeysOf(t) \in Seq(Keys) /\ Len(KeysOf(s)) = Len(s)
           /\ ChildrenOf(s) \in Seq(ChildIDs) /\ ChildrenOf(t) \in Seq(ChildIDs)
           /\ Len(ChildrenOf(s)) = Len(s) + 1
<1> DEFINE x == KeysOf(s)
           y == KeysOf(t)
           d == ChildrenOf(s)
           f == ChildrenOf(t)
<1>1. Len(t) = b - a /\ Len(t) > 0 /\ Len(s) > 0 /\ Len(s) \in Nat
  BY DEF RunOf
<1>2. x \in Seq(Keys) /\ Len(x) = Len(s) /\ \A i \in 1 .. Len(s) : x[i] = s[i].key
  BY KeysAre, EntryKeys
<1>3. y \in Seq(Keys) /\ Len(y) = Len(t) /\ \A i \in 1 .. Len(t) : y[i] = t[i].key
  BY KeysAre, EntryKeys
<1>4. d \in Seq(ChildIDs) /\ Len(d) = Len(s) + 1 /\ \A i \in 1 .. Len(s) : d[i + 1] = s[i].greater
  BY <1>1, ChildrenAre
<1>5. f \in Seq(ChildIDs) /\ Len(f) = Len(t) + 1 /\ f[1] = t[1].lower
      /\ \A i \in 1 .. Len(t) : f[i + 1] = t[i].greater
  BY <1>1, ChildrenAre
<1>6. /\ \A i \in 1 .. b - a : t[i].key = s[a + i].key /\ t[i].greater = s[a + i].greater
      /\ t[1].lower = d[a + 1]
  BY DEF RunOf
<1> HIDE DEF x, y, d, f
<1>7. PartOf(y, x, a, b)
  <2>1. \A i \in 1 .. b - a : a + i \in 1 .. Len(s)
    BY <1>1
  <2>. QED
    BY <2>1, <1>1, <1>2, <1>3, <1>6 DEF PartOf
<1>8. ASSUME NEW i \in 1 .. (b + 1) - a PROVE f[i] = d[a + i]
  <2>1. CASE i = 1
    BY <2>1, <1>5, <1>6
  <2>2. CASE i # 1
    <3> DEFINE j == i - 1
    <3>1. j \in 1 .. b - a /\ j + 1 = i /\ a + j \in 1 .. Len(s) /\ (a + j) + 1 = a + i
      BY <2>2, <1>1
    <3>2. f[j + 1] = t[j].greater /\ d[(a + j) + 1] = s[a + j].greater
      BY <3>1, <1>1, <1>4, <1>5
    <3>3. t[j].greater = s[a + j].greater
      BY <3>1, <1>6
    <3>. QED
      BY <3>1, <3>2, <3>3
  <2>. QED
    BY <2>1, <2>2
<1>9. PartOf(f, d, a, b + 1)
  BY <1>1, <1>5, <1>8 DEF PartOf
<1>. QED
  BY <1>2, <1>3, <1>4, <1>5, <1>7, <1>9 DEF x, y, d, f

Shared(s) == \A i \in 1 .. Len(s) - 1 : s[i].greater = s[i + 1].lower

\* Left of an entry is the child right of the one before.
LEMMA SharedLower ==
    ASSUME NEW s \in Seq(BranchEntry), Shared(s), NEW i \in 1 .. Len(s)
    PROVE  s[i].lower = ChildrenOf(s)[i]
<1>1. Len(s) > 0 /\ Len(s) \in Nat
  OBVIOUS
<1>2. ChildrenOf(s)[1] = s[1].lower /\ \A j \in 1 .. Len(s) : ChildrenOf(s)[j + 1] = s[j].greater
  BY <1>1, ChildrenAre
<1>3. CASE i = 1
  BY <1>2, <1>3
<1>4. CASE i # 1
  <2> DEFINE j == i - 1
  <2>1. j \in 1 .. Len(s) /\ j \in 1 .. Len(s) - 1 /\ j + 1 = i
    BY <1>1, <1>4
  <2> HIDE DEF j
  <2>2. s[j].greater = s[j + 1].lower /\ ChildrenOf(s)[j + 1] = s[j].greater
    BY <2>1, <1>2 DEF Shared
  <2>. QED
    BY <2>1, <2>2
<1>. QED
  BY <1>3, <1>4

\* Branch t is s with key k at position p, and the child to its right.
PutAmong(t, s, p, k, child) ==
    /\ \A i \in 1 .. Len(s) + 1 :
          t[i].key = IF i <= p THEN s[i].key ELSE IF i = p + 1 THEN k ELSE s[i - 1].key
    /\ \A i \in 1 .. Len(s) + 1 :
          t[i].greater = IF i <= p THEN s[i].greater ELSE IF i = p + 1 THEN child ELSE s[i - 1].greater
    /\ t[1].lower = s[1].lower

\* A key goes in with the child to its right (in_memory_adapter.go:264-286).
LEMMA BranchPut ==
    ASSUME NEW s \in Seq(BranchEntry), Len(s) > 0, NEW p \in 0 .. Len(s), NEW k \in Keys,
           NEW child \in ChildIDs, NEW t, t = MemoryInsertAt(s, p, k, child)
    PROVE  /\ t \in Seq(BranchEntry) /\ Len(t) = Len(s) + 1
           /\ PutAmong(t, s, p, k, child)
           /\ KeysOf(t) = Put(KeysOf(s), p, k)
           /\ ChildrenOf(t) = Put(ChildrenOf(s), p + 1, child)
<1> DEFINE n == Len(s)
           x == KeysOf(s)
           y == KeysOf(t)
           d == ChildrenOf(s)
           f == ChildrenOf(t)
           e == [key |-> k, lower |-> IF p = 0 THEN s[1].lower ELSE s[p].greater, greater |-> child]
<1>1. /\ t \in Seq(BranchEntry) /\ Len(t) = n + 1
      /\ \A i \in 1 .. n + 1 : t[i] =
            IF i <= p THEN s[i]
            ELSE IF i = p + 1 THEN e
            ELSE IF i = p + 2 THEN [s[p + 1] EXCEPT !.lower = child]
            ELSE s[i - 1]
  BY MemoryInserted
<1>2. e.key = k /\ e.greater = child /\ (p = 0 => e.lower = s[1].lower)
  OBVIOUS
<1>3. n \in Nat /\ n > 0 /\ p \in Nat /\ p <= n
  OBVIOUS
<1> HIDE DEF e
<1>4. \A i \in 1 .. n + 1 : t[i].key = IF i <= p THEN s[i].key ELSE IF i = p + 1 THEN k ELSE s[i - 1].key
  <2> SUFFICES ASSUME NEW i \in 1 .. n + 1
               PROVE  t[i].key = IF i <= p THEN s[i].key ELSE IF i = p + 1 THEN k ELSE s[i - 1].key
    OBVIOUS
  <2>1. CASE i = p + 2
    <3>1. t[i] = [s[p + 1] EXCEPT !.lower = child] /\ i - 1 = p + 1 /\ p + 1 \in 1 .. n
      BY <2>1, <1>1, <1>3
    <3>2. s[p + 1] \in BranchEntry
      BY <3>1
    <3>3. t[i].key = s[p + 1].key
      BY <3>1, <3>2 DEF BranchEntry
    <3>. QED
      BY <2>1, <3>1, <3>3, <1>3
  <2>2. CASE i # p + 2
    BY <2>2, <1>1, <1>2, <1>3
  <2>. QED
    BY <2>1, <2>2
<1>5. \A i \in 1 .. n + 1 :
         t[i].greater = IF i <= p THEN s[i].greater ELSE IF i = p + 1 THEN child ELSE s[i - 1].greater
  <2> SUFFICES ASSUME NEW i \in 1 .. n + 1
               PROVE  t[i].greater = IF i <= p THEN s[i].greater ELSE IF i = p + 1 THEN child ELSE s[i - 1].greater
    OBVIOUS
  <2>1. CASE i = p + 2
    <3>1. t[i] = [s[p + 1] EXCEPT !.lower = child] /\ i - 1 = p + 1 /\ p + 1 \in 1 .. n
      BY <2>1, <1>1, <1>3
    <3>2. s[p + 1] \in BranchEntry
      BY <3>1
    <3>3. t[i].greater = s[p + 1].greater
      BY <3>1, <3>2 DEF BranchEntry
    <3>. QED
      BY <2>1, <3>1, <3>3, <1>3
  <2>2. CASE i # p + 2
    BY <2>2, <1>1, <1>2, <1>3
  <2>. QED
    BY <2>1, <2>2
<1>6. t[1].lower = s[1].lower
  <2>1. 1 \in 1 .. n + 1 /\ 1 # p + 2
    BY <1>3
  <2>2. CASE p = 0
    <3>1. 1 \in 1 .. n + 1 /\ ~(1 <= p) /\ 1 = p + 1
      BY <2>1, <2>2
    <3>2. t[1] = e
      BY <3>1, <1>1, Zenon
    <3>. QED
      BY <3>2, <2>2, <1>2
  <2>3. CASE p # 0
    BY <2>1, <2>3, <1>1, <1>3
  <2>. QED
    BY <2>2, <2>3
<1>15. PutAmong(t, s, p, k, child)
  BY <1>4, <1>5, <1>6 DEF PutAmong
<1>7. x \in Seq(Keys) /\ Len(x) = n /\ \A i \in 1 .. n : x[i] = s[i].key
  BY KeysAre, EntryKeys
<1>8. y \in Seq(Keys) /\ Len(y) = n + 1 /\ \A i \in 1 .. n + 1 : y[i] = t[i].key
  <2>1. y \in Seq(Keys) /\ Len(y) = Len(t) /\ \A i \in 1 .. Len(t) : y[i] = t[i].key
    BY <1>1, KeysAre, EntryKeys
  <2>. QED
    BY <2>1, <1>1
<1>9. d \in Seq(ChildIDs) /\ Len(d) = n + 1 /\ d[1] = s[1].lower
      /\ \A i \in 1 .. n : d[i + 1] = s[i].greater
  BY <1>3, ChildrenAre
<1>10. f \in Seq(ChildIDs) /\ Len(f) = n + 2 /\ f[1] = t[1].lower
       /\ \A i \in 1 .. n + 1 : f[i + 1] = t[i].greater
  <2>1. Len(t) > 0 /\ Len(t) = n + 1
    BY <1>1, <1>3
  <2>2. f \in Seq(ChildIDs) /\ Len(f) = Len(t) + 1 /\ f[1] = t[1].lower
        /\ \A i \in 1 .. Len(t) : f[i + 1] = t[i].greater
    BY <1>1, <2>1, ChildrenAre
  <2>. QED
    BY <2>1, <2>2, <1>3
<1> HIDE DEF n, x, y, d, f
<1>11. InsertedAt(y, x, p, k)
  <2>1. ASSUME NEW i \in 1 .. n + 1
        PROVE  y[i] = IF i <= p THEN x[i] ELSE IF i = p + 1 THEN k ELSE x[i - 1]
    <3>1. CASE i <= p
      <4>1. i \in 1 .. n
        BY <3>1, <1>3
      <4>. QED
        BY SMTT(30), <3>1, <4>1, <1>4, <1>7, <1>8
    <3>2. CASE i = p + 1
      BY <3>2, <1>3, <1>4, <1>8
    <3>3. CASE i > p + 1
      <4>1. i - 1 \in 1 .. n /\ ~(i <= p) /\ i # p + 1
        BY <3>3, <1>3
      <4>2. y[i] = t[i].key /\ t[i].key = s[i - 1].key
        BY <4>1, <1>4, <1>8
      <4>3. x[i - 1] = s[i - 1].key
        BY <4>1, <1>7, Zenon
      <4>. QED
        BY <4>1, <4>2, <4>3
    <3>. QED
      BY <3>1, <3>2, <3>3, <1>3
  <2>. QED
    BY <2>1, <1>7, <1>8 DEF InsertedAt
<1>12. InsertedAt(f, d, p + 1, child)
  <2>1. ASSUME NEW i \in 1 .. n + 2
        PROVE  f[i] = IF i <= p + 1 THEN d[i] ELSE IF i = p + 2 THEN child ELSE d[i - 1]
    <3> DEFINE j == i - 1
    <3>1. CASE i = 1
      BY <3>1, <1>3, <1>6, <1>9, <1>10
    <3>2. CASE i # 1 /\ i <= p + 1
      <4>1. j \in 1 .. n /\ j \in 1 .. n + 1 /\ j + 1 = i /\ j <= p
        BY <3>2, <1>3
      <4>2. f[j + 1] = t[j].greater /\ d[j + 1] = s[j].greater /\ t[j].greater = s[j].greater
        BY <4>1, <1>5, <1>9, <1>10
      <4>. QED
        BY <3>2, <4>1, <4>2
    <3>3. CASE i = p + 2
      <4>1. j \in 1 .. n + 1 /\ j + 1 = i /\ j = p + 1 /\ ~(j <= p) /\ ~(i <= p + 1)
        BY <3>3, <1>3
      <4>2. f[j + 1] = t[j].greater /\ t[j].greater = child
        BY <4>1, <1>5, <1>10
      <4>. QED
        BY <3>3, <4>1, <4>2
    <3>4. CASE i > p + 2
      <4> DEFINE m == i - 2
      <4>1. /\ j \in 1 .. n + 1 /\ j + 1 = i /\ ~(j <= p) /\ j # p + 1 /\ ~(i <= p + 1) /\ i # p + 2
            /\ m \in 1 .. n /\ m + 1 = j /\ j - 1 = m /\ i - 1 = m + 1
        BY <3>4, <1>3
      <4>2. f[j + 1] = t[j].greater /\ t[j].greater = s[j - 1].greater /\ d[m + 1] = s[m].greater
        BY <4>1, <1>5, <1>9, <1>10
      <4>. QED
        BY <4>1, <4>2
    <3>. QED
      BY <3>1, <3>2, <3>3, <3>4, <1>3
  <2>2. Len(f) = Len(d) + 1 /\ Len(d) + 1 = n + 2 /\ (p + 1) + 1 = p + 2
    BY <1>3, <1>9, <1>10
  <2>. QED
    BY <2>1, <2>2 DEF InsertedAt
<1>13. y = Put(x, p, k)
  <2>1. p \in 0 .. Len(x)
    BY <1>3, <1>7
  <2>. QED
    BY <2>1, <1>7, <1>8, <1>11, InsertedIsPut
<1>14. f = Put(d, p + 1, child)
  <2> DEFINE q == p + 1
  <2>1. q \in 0 .. Len(d)
    BY <1>3, <1>9
  <2>2. InsertedAt(f, d, q, child)
    BY <1>12
  <2> HIDE DEF q
  <2>3. f = Put(d, q, child)
    BY <2>1, <2>2, <1>9, <1>10, InsertedIsPut
  <2>. QED
    BY <2>3 DEF q
<1>. QED
  BY <1>1, <1>13, <1>14, <1>15 DEF n, x, y, d, f

-----------------------------------------------------------------------------
(* The halves of a node that is split are the halves of all its entries    *)

\* Where a node of at least four entries is cut (bplus_tree.go:402-423).
LEMMA HalfIs ==
    /\ Capacity \in Nat /\ Capacity >= 4 /\ Half \in Nat /\ Half >= 2 /\ Capacity >= 2 * Half
    /\ Half + 2 <= Capacity /\ Capacity + 1 - Half < Capacity
BY NodesAssumption DEF Half

\* leafSplit: an insert on either side of the cut gives the halves of the leaf with the
\* entry in its place (bplus_tree.go:402-423).
LEMMA LeafHalves ==
    ASSUME NEW s \in Seq(Entries), Len(s) = Capacity, NEW p \in 0 .. Len(s), NEW e \in Entries
    PROVE  /\ MemoryLeafSplit(s, p, e).left = SubSeq(Put(s, p, e), 1, Half)
           /\ MemoryLeafSplit(s, p, e).right = SubSeq(Put(s, p, e), Half + 1, Capacity + 1)
<1> DEFINE all == Put(s, p, e)
           n == SplitFrom(p)
           left == SubSeq(s, 1, n)
           right == SubSeq(s, n + 1, Len(s))
<1>0. /\ Capacity \in Nat /\ Half \in Nat /\ Half >= 2 /\ Half + 2 <= Capacity /\ p \in Nat /\ p <= Capacity
      /\ n = (IF p < Half THEN Half - 1 ELSE Half) /\ n \in 0 .. Len(s)
  BY HalfIs DEF SplitFrom
<1>1. /\ all \in Seq(Entries) /\ Len(all) = Capacity + 1
      /\ \A i \in 1 .. Capacity + 1 : all[i] = IF i <= p THEN s[i] ELSE IF i = p + 1 THEN e ELSE s[i - 1]
  <2>1. all \in Seq(Entries) /\ InsertedAt(all, s, p, e)
    BY Inserted
  <2>. QED
    BY <2>1 DEF InsertedAt
<1>2. /\ left \in Seq(Entries) /\ Len(left) = n /\ \A i \in 1 .. n : left[i] = s[i]
      /\ right \in Seq(Entries) /\ Len(right) = Capacity - n /\ \A i \in 1 .. Capacity - n : right[i] = s[n + i]
  BY <1>0, Cut
<1>3. MemoryLeafSplit(s, p, e) = IF p < Half THEN [left |-> Put(left, p, e), right |-> right]
                                 ELSE [left |-> left, right |-> Put(right, p - Half, e)]
  BY Zenon DEF MemoryLeafSplit, Put, n
<1> DEFINE ml == MemoryLeafSplit(s, p, e).left
           mr == MemoryLeafSplit(s, p, e).right
<1> HIDE DEF all, left, right, n
<1>4. CASE p < Half
  <2> DEFINE t == Put(left, p, e)
  <2>1. n = Half - 1 /\ p \in 0 .. Len(left)
    BY <1>0, <1>2, <1>4
  <2>2. t \in Seq(Entries) /\ InsertedAt(t, left, p, e)
    BY <1>2, <2>1, Inserted
  <2>3. ml = t /\ mr = right
    BY <1>3, <1>4
  <2> HIDE DEF t, ml, mr
  <2>4. PartOf(t, all, 0, Half)
    <3>1. Len(t) = Half /\ \A i \in 1 .. Half : t[i] = IF i <= p THEN left[i] ELSE IF i = p + 1 THEN e ELSE left[i - 1]
      BY <1>0, <1>2, <2>1, <2>2 DEF InsertedAt
    <3>2. ASSUME NEW i \in 1 .. Half PROVE t[i] = all[0 + i]
      <4>1. 0 + i = i /\ i \in 1 .. Capacity + 1
        BY <1>0
      <4>2. CASE i <= p
        <5>1. i \in 1 .. n
          BY <1>0, <1>4, <2>1, <4>2
        <5>. QED
          BY <3>1, <4>1, <4>2, <5>1, <1>1, <1>2
      <4>3. CASE i = p + 1
        <5>1. ~(i <= p)
          BY <4>3, <1>0
        <5>. QED
          BY <3>1, <4>1, <4>3, <5>1, <1>1
      <4>4. CASE i > p + 1
        <5>1. i - 1 \in 1 .. n /\ ~(i <= p) /\ i # p + 1
          BY <1>0, <1>4, <2>1, <4>4
        <5>2. t[i] = left[i - 1] /\ all[i] = s[i - 1]
          BY <3>1, <4>1, <5>1, <1>1
        <5>3. left[i - 1] = s[i - 1]
          BY <5>1, <1>2, Zenon
        <5>. QED
          BY <4>1, <5>2, <5>3
      <4>. QED
        BY <4>2, <4>3, <4>4, <1>0
    <3>. QED
      BY <3>1, <3>2, <1>0 DEF PartOf
  <2>5. PartOf(right, all, Half, Capacity + 1)
    <3>1. Len(right) = (Capacity + 1) - Half
      BY <1>0, <1>2, <2>1
    <3>2. ASSUME NEW i \in 1 .. (Capacity + 1) - Half PROVE right[i] = all[Half + i]
      <4>1. /\ i \in 1 .. Capacity - n /\ Half + i \in 1 .. Capacity + 1 /\ (Half + i) - 1 = n + i
            /\ ~(Half + i <= p) /\ Half + i # p + 1
        BY <1>0, <1>4, <2>1
      <4>2. all[Half + i] = s[(Half + i) - 1]
        BY <4>1, <1>1, Zenon
      <4>3. right[i] = s[n + i]
        BY <4>1, <1>2, Zenon
      <4>. QED
        BY <4>1, <4>2, <4>3
    <3>. QED
      BY <3>1, <3>2 DEF PartOf
  <2>6. t = SubSeq(all, 0 + 1, Half)
    <3>1. 0 \in Nat /\ Half \in Nat /\ 0 <= Half /\ Half <= Len(all)
      BY <1>0, <1>1
    <3>. QED
      BY <3>1,  <1>1, <2>2, <2>4, PartIsSubSeq
  <2>7. right = SubSeq(all, Half + 1, Capacity + 1)
    <3>1. Capacity + 1 \in Nat /\ Half <= Capacity + 1 /\ Capacity + 1 <= Len(all)
      BY <1>0, <1>1
    <3>. QED
      BY <3>1, <1>0, <1>1, <1>2, <2>5, PartIsSubSeq
  <2>. QED
    BY <2>3, <2>6, <2>7 DEF ml, mr, all
<1>5. CASE ~(p < Half)
  <2> DEFINE r == p - Half
             t == Put(right, r, e)
  <2>1. n = Half /\ r \in 0 .. Len(right) /\ r \in Nat /\ p = Half + r
    BY <1>0, <1>2, <1>5
  <2>3. ml = left /\ mr = t
    BY <1>3, <1>5
  <2> HIDE DEF r
  <2>2. t \in Seq(Entries) /\ InsertedAt(t, right, r, e)
    BY <1>2, <2>1, Inserted
  <2> HIDE DEF t, ml, mr
  <2>4. PartOf(left, all, 0, Half)
    <3>2. ASSUME NEW i \in 1 .. Half PROVE left[i] = all[0 + i]
      <4>1. 0 + i = i /\ i \in 1 .. Capacity + 1 /\ i <= p /\ i \in 1 .. n
        BY <1>0, <2>1, <1>5
      <4>. QED
        BY <4>1, <1>1, <1>2
    <3>. QED
      BY <3>2, <1>0, <1>2, <2>1 DEF PartOf
  <2>5. PartOf(t, all, Half, Capacity + 1)
    <3>1. Len(t) = (Capacity + 1) - Half
          /\ \A i \in 1 .. (Capacity + 1) - Half :
                t[i] = IF i <= r THEN right[i] ELSE IF i = r + 1 THEN e ELSE right[i - 1]
      BY <1>0, <1>2, <2>1, <2>2 DEF InsertedAt
    <3>2. ASSUME NEW i \in 1 .. (Capacity + 1) - Half PROVE t[i] = all[Half + i]
      <4>1. Half + i \in 1 .. Capacity + 1
        BY <1>0
      <4>2. CASE i <= r
        <5>1. i \in 1 .. Capacity - n /\ Half + i <= p
          BY <1>0, <2>1, <4>2
        <5>2. t[i] = right[i] /\ all[Half + i] = s[Half + i]
          BY <3>1, <4>1, <4>2, <5>1, <1>1
        <5>. QED
          BY <5>1, <5>2, <1>2, <2>1
      <4>3. CASE i = r + 1
        <5>1. ~(i <= r) /\ Half + i = p + 1 /\ ~(Half + i <= p)
          BY <4>3, <1>0, <2>1
        <5>. QED
          BY <3>1, <4>1, <4>3, <5>1, <1>1
      <4>4. CASE i > r + 1
        <5>1. /\ i - 1 \in 1 .. Capacity - n /\ ~(i <= r) /\ i # r + 1
              /\ ~(Half + i <= p) /\ Half + i # p + 1 /\ (Half + i) - 1 = n + (i - 1)
          BY <1>0, <2>1, <4>4
        <5>2. t[i] = right[i - 1] /\ all[Half + i] = s[(Half + i) - 1]
          BY <3>1, <4>1, <5>1, <1>1
        <5>3. right[i - 1] = s[n + (i - 1)]
          BY <5>1, <1>2, Zenon
        <5>. QED
          BY <5>1, <5>2, <5>3
      <4>. QED
        BY <4>2, <4>3, <4>4, <2>1
    <3>. QED
      BY <3>1, <3>2 DEF PartOf
  <2>6. left = SubSeq(all, 0 + 1, Half)
    <3>1. 0 \in Nat /\ Half \in Nat /\ 0 <= Half /\ Half <= Len(all)
      BY <1>0, <1>1
    <3>. QED
      BY <3>1,  <1>1, <1>2, <2>4, PartIsSubSeq
  <2>7. t = SubSeq(all, Half + 1, Capacity + 1)
    <3>1. Capacity + 1 \in Nat /\ Half <= Capacity + 1 /\ Capacity + 1 <= Len(all)
      BY <1>0, <1>1
    <3>. QED
      BY <3>1, <1>0, <1>1, <2>2, <2>5, PartIsSubSeq
  <2>. QED
    BY <2>3, <2>6, <2>7 DEF ml, mr, all
<1>. QED
  BY <1>4, <1>5

\* Halves whose right one still misses the entry, when it goes there.
HalvesAre(halves, left, right, p, k, child) ==
    halves = [left |-> left,
              right |-> IF p > Half THEN MemoryInsertAt(right, p - Half - 1, k, child) ELSE right]

\* The halves of the array that branchSplit works on: what an insert on the left writes
\* over is not used (bplus_tree.go:446-482, in_memory_adapter.go:241-245).
LEMMA SplitInMemory ==
    ASSUME NEW s \in Seq(BranchEntry), Len(s) = Capacity, NEW p \in 0 .. Len(s), NEW k \in Keys,
           NEW child \in ChildIDs,
           NEW rest, rest = SubSeq(s, 1, SplitFrom(p)),
           NEW cut, cut = SubSeq(s, SplitFrom(p) + 1, Len(s)),
           NEW left, left = IF p < Half THEN MemoryInsertAt(rest, p, k, child) ELSE rest,
           NEW right, right = MemoryBranchOf(RightEntries(cut, p, child)),
           left \in Seq(BranchEntry), Len(left) = Half
    PROVE  HalvesAre(MemoryBranchSplit(s, p, k, child), left, right, p, k, child)
<1> DEFINE n == SplitFrom(p)
           array == IF p \in 1 .. Half - 1 THEN left \o SubSeq(s, Len(left) + 1, Len(s)) ELSE s
<1>1. /\ Capacity \in Nat /\ Half \in Nat /\ Half >= 2 /\ Half + 2 <= Capacity /\ p \in Nat
      /\ n = (IF p < Half THEN Half - 1 ELSE Half)
  BY HalfIs DEF SplitFrom
<1>2. MemoryBranchSplit(s, p, k, child) =
        [left |-> left,
         right |-> IF p > Half
           THEN MemoryInsertAt(MemoryBranchOf(RightEntries(SubSeq(array, n + 1, Len(array)), p, child)),
                               p - Half - 1, k, child)
           ELSE MemoryBranchOf(RightEntries(SubSeq(array, n + 1, Len(array)), p, child))]
  BY Zenon DEF MemoryBranchSplit
<1>3. RightEntries(SubSeq(array, n + 1, Len(array)), p, child) = RightEntries(cut, p, child)
  <2>1. CASE p \in 1 .. Half - 1
    <3>1. n + 1 = Half /\ p # Half /\ Len(left) = n + 1 /\ Len(left) > 0 /\ Len(left) <= Len(s)
      BY <1>1, <2>1
    <3>2. array = left \o SubSeq(s, Len(left) + 1, Len(s))
      BY <2>1
    <3> HIDE DEF array, n
    <3>3. Tail(SubSeq(array, Len(left), Len(array))) = Tail(SubSeq(s, Len(left), Len(s)))
      BY ZenonT(60), <3>1, <3>2, SharedArray
    <3>. QED
      BY <3>1, <3>3, Zenon DEF RightEntries, n
  <2>2. CASE p \notin 1 .. Half - 1
    <3>1. array = s
      BY <2>2
    <3>. QED
      BY <3>1, Zenon
  <2>. QED
    BY <2>1, <2>2
<1> HIDE DEF array
<1>. QED
  BY <1>2, <1>3, Zenon DEF HalvesAre

\* A new branch with its first child and the right child of every entry
\* (in_memory_adapter.go:249-262).
LEMMA NewBranchKeeps ==
    ASSUME NEW s \in Seq(BranchEntry), Len(s) > 0
    PROVE  /\ MemoryBranchOf(s) \in Seq(BranchEntry) /\ Len(MemoryBranchOf(s)) = Len(s)
           /\ \A i \in 1 .. Len(s) : MemoryBranchOf(s)[i].key = s[i].key
           /\ \A i \in 1 .. Len(s) : MemoryBranchOf(s)[i].greater = s[i].greater
           /\ MemoryBranchOf(s)[1].lower = s[1].lower
<1> DEFINE t == MemoryBranchOf(s)
           lower(i) == IF i = 1 THEN s[1].lower ELSE s[i - 1].greater
<1>1. Len(s) \in Nat /\ DOMAIN s = 1 .. Len(s) /\ \A i \in 1 .. Len(s) : s[i] \in BranchEntry
  OBVIOUS
<1>2. t = [i \in 1 .. Len(s) |-> [s[i] EXCEPT !.lower = lower(i)]]
  BY <1>1, Zenon DEF MemoryBranchOf
<1>3. \A i \in 1 .. Len(s) : lower(i) \in ChildIDs
  BY <1>1 DEF BranchEntry
<1> HIDE DEF lower, t
<1>4. ASSUME NEW i \in 1 .. Len(s)
      PROVE  t[i] \in BranchEntry /\ t[i].key = s[i].key /\ t[i].greater = s[i].greater /\ t[i].lower = lower(i)
  BY <1>1, <1>2, <1>3, <1>4 DEF BranchEntry
<1>5. t \in [1 .. Len(s) -> BranchEntry]
  BY <1>2, <1>4
<1>6. t \in Seq(BranchEntry) /\ Len(t) = Len(s)
  BY <1>1, <1>5
<1>7. t[1].lower = s[1].lower
  <2>1. 1 \in 1 .. Len(s)
    BY <1>1
  <2>. QED
    BY <2>1, <1>4 DEF lower
<1>. QED
  BY <1>4, <1>6, <1>7 DEF t

\* All but the first left child.
SameEntries(t, s) == \A i \in 1 .. Len(s) : t[i].key = s[i].key /\ t[i].greater = s[i].greater

\* What RightEntries takes of the entries cut off (bplus_tree.go:457-461).
LEMMA RightEntriesKeep ==
    ASSUME NEW cut \in Seq(BranchEntry), Len(cut) > 1, NEW p \in Nat, NEW child \in ChildIDs
    PROVE  /\ RightEntries(cut, p, child) \in Seq(BranchEntry)
           /\ p = Half => /\ Len(RightEntries(cut, p, child)) = Len(cut)
                          /\ RightEntries(cut, p, child)[1].lower = child
                          /\ SameEntries(RightEntries(cut, p, child), cut)
           /\ p # Half => /\ Len(RightEntries(cut, p, child)) = Len(cut) - 1
                          /\ \A i \in 1 .. Len(cut) - 1 : RightEntries(cut, p, child)[i] = cut[i + 1]
<1> DEFINE t == RightEntries(cut, p, child)
<1>1. CASE p = Half
  <2> DEFINE e == [cut[1] EXCEPT !.lower = child]
  <2>1. 1 \in 1 .. Len(cut) /\ cut[1] \in BranchEntry
    OBVIOUS
  <2>2. e \in BranchEntry /\ e.lower = child /\ e.key = cut[1].key /\ e.greater = cut[1].greater
    BY <2>1 DEF BranchEntry
  <2>3. t = [cut EXCEPT ![1] = e]
    BY <1>1 DEF RightEntries
  <2> HIDE DEF e, t
  <2>4. t \in Seq(BranchEntry) /\ Len(t) = Len(cut) /\ t[1] = e /\ \A i \in 1 .. Len(cut) : i # 1 => t[i] = cut[i]
    BY <2>1, <2>2, <2>3
  <2>5. ASSUME NEW i \in 1 .. Len(cut) PROVE t[i].key = cut[i].key /\ t[i].greater = cut[i].greater
    <3>1. CASE i = 1
      BY <3>1, <2>2, <2>4
    <3>2. CASE i # 1
      BY <3>2, <2>4
    <3>. QED
      BY <3>1, <3>2
  <2>6. SameEntries(t, cut)
    BY <2>5 DEF SameEntries
  <2>. QED
    BY <1>1, <2>2, <2>4, <2>6 DEF t
<1>2. CASE p # Half
  <2>1. t = Tail(cut)
    BY <1>2 DEF RightEntries
  <2>2. Tail(cut) \in Seq(BranchEntry) /\ Len(Tail(cut)) = Len(cut) - 1
        /\ \A i \in 1 .. Len(cut) - 1 : Tail(cut)[i] = cut[i + 1]
    OBVIOUS
  <2> HIDE DEF t
  <2>3. t \in Seq(BranchEntry) /\ Len(t) = Len(cut) - 1 /\ \A i \in 1 .. Len(cut) - 1 : t[i] = cut[i + 1]
    BY <2>1, <2>2, Zenon
  <2>. QED
    BY <1>2, <2>3 DEF t
<1>. QED
  BY <1>1, <1>2

\* The left half of a branch that is split (bplus_tree.go:446-482).
LEMMA BranchLeftHalf ==
    ASSUME NEW s \in Seq(BranchEntry), Len(s) = Capacity, NEW p \in 0 .. Len(s), NEW k \in Keys,
           NEW child \in ChildIDs,
           NEW rest, rest = SubSeq(s, 1, SplitFrom(p)),
           NEW left, left = IF p < Half THEN MemoryInsertAt(rest, p, k, child) ELSE rest,
           NEW all \in Seq(BranchEntry), Len(all) = Capacity + 1, PutAmong(all, s, p, k, child)
    PROVE  left \in Seq(BranchEntry) /\ Len(left) = Half /\ RunOf(left, all, 0, Half)
<1> DEFINE n == SplitFrom(p)
<1>0. /\ Capacity \in Nat /\ Half \in Nat /\ Half >= 2 /\ Half + 2 <= Capacity /\ p \in Nat /\ p <= Capacity
      /\ n = (IF p < Half THEN Half - 1 ELSE Half) /\ n \in 0 .. Len(s) /\ n >= 1
  BY HalfIs DEF SplitFrom
<1>1. rest \in Seq(BranchEntry) /\ Len(rest) = n /\ \A i \in 1 .. n : rest[i] = s[i]
  BY <1>0, Cut
<1>2. /\ \A i \in 1 .. Capacity + 1 :
           all[i].key = IF i <= p THEN s[i].key ELSE IF i = p + 1 THEN k ELSE s[i - 1].key
      /\ \A i \in 1 .. Capacity + 1 :
           all[i].greater = IF i <= p THEN s[i].greater ELSE IF i = p + 1 THEN child ELSE s[i - 1].greater
      /\ all[1].lower = s[1].lower
  BY DEF PutAmong
<1> HIDE DEF n
<1>3. 1 \in 1 .. n /\ rest[1] = s[1]
  BY <1>0, <1>1
<1>6. ChildrenOf(all)[0 + 1] = all[1].lower
  <2>1. Len(all) > 0
    BY <1>0
  <2>2. ChildrenOf(all)[1] = all[1].lower
    BY <2>1, ChildrenAre
  <2>. QED
    BY <2>2
<1>4. CASE p < Half
  <2>1. n = Half - 1 /\ p \in 0 .. Len(rest) /\ Len(rest) > 0
    BY <1>0, <1>1, <1>4
  <2>2. left = MemoryInsertAt(rest, p, k, child)
    BY <1>4
  <2>3. left \in Seq(BranchEntry) /\ Len(left) = Len(rest) + 1 /\ PutAmong(left, rest, p, k, child)
    BY ZenonT(30), <1>1, <2>1, <2>2, BranchPut
  <2>4. /\ \A i \in 1 .. Half :
           left[i].key = IF i <= p THEN rest[i].key ELSE IF i = p + 1 THEN k ELSE rest[i - 1].key
        /\ \A i \in 1 .. Half :
             left[i].greater = IF i <= p THEN rest[i].greater ELSE IF i = p + 1 THEN child ELSE rest[i - 1].greater
        /\ left[1].lower = s[1].lower /\ Len(left) = Half
    <3>1. Len(rest) + 1 = Half
      BY <1>0, <1>1, <2>1
    <3>. QED
      BY <2>3, <3>1, <1>3 DEF PutAmong
  <2>5. ASSUME NEW i \in 1 .. Half
        PROVE  left[i].key = all[0 + i].key /\ left[i].greater = all[0 + i].greater
    <3>1. 0 + i = i /\ i \in 1 .. Capacity + 1
      BY <1>0
    <3>2. CASE i <= p
      <4>1. rest[i] = s[i]
        BY <3>2, <1>0, <1>1, <2>1
      <4>. QED
        BY <3>1, <3>2, <4>1, <2>4, <1>2
    <3>3. CASE i = p + 1
      <4>1. ~(i <= p)
        BY <3>3, <1>0
      <4>. QED
        BY <3>1, <3>3, <4>1, <2>4, <1>2
    <3>4. CASE i > p + 1
      <4>1. i - 1 \in 1 .. n /\ ~(i <= p) /\ i # p + 1
        BY <3>4, <1>0, <2>1
      <4>2. rest[i - 1] = s[i - 1]
        BY <4>1, <1>1, Zenon
      <4>3. left[i].key = rest[i - 1].key /\ left[i].greater = rest[i - 1].greater
        BY <4>1, <2>4
      <4>4. all[i].key = s[i - 1].key /\ all[i].greater = s[i - 1].greater
        BY <4>1, <3>1, <1>2
      <4>. QED
        BY <3>1, <4>2, <4>3, <4>4
    <3>5. i <= p \/ i = p + 1 \/ i > p + 1
      BY <1>0
    <3>. QED
      BY <3>2, <3>3, <3>4, <3>5, Zenon
  <2>6. Half - 0 = Half
    BY <1>0
  <2>7. left[1].lower = ChildrenOf(all)[0 + 1]
    BY <2>4, <1>6, <1>2
  <2>8. RunOf(left, all, 0, Half)
    BY <2>4, <2>5, <2>6, <2>7 DEF RunOf
  <2>. QED
    BY <2>3, <2>4, <2>8
<1>5. CASE ~(p < Half)
  <2>1. n = Half /\ left = rest /\ Half - 0 = Half
    <3>1. n = Half /\ Half - 0 = Half
      BY <1>0, <1>5
    <3>2. left = rest
      BY <1>5, Zenon
    <3>. QED
      BY <3>1, <3>2
  <2>2. ASSUME NEW i \in 1 .. Half
        PROVE  left[i].key = all[0 + i].key /\ left[i].greater = all[0 + i].greater
    <3>1. 0 + i = i /\ i \in 1 .. Capacity + 1 /\ i <= p
      BY <1>0, <1>5
    <3>2. left[i] = s[i]
      BY <2>1, <1>1
    <3>. QED
      BY <3>1, <3>2, <1>2
  <2>. QED
    BY <2>1, <2>2, <1>1, <1>2, <1>3, <1>6 DEF RunOf
<1>. QED
  BY <1>4, <1>5

\* The right half: the key between the halves is in neither, and its child is the first
\* of this one (bplus_tree.go:446-482).
LEMMA BranchRightHalf ==
    ASSUME NEW s \in Seq(BranchEntry), Len(s) = Capacity, Shared(s),
           NEW p \in 0 .. Len(s), NEW k \in Keys, NEW child \in ChildIDs,
           NEW cut, cut = SubSeq(s, SplitFrom(p) + 1, Len(s)),
           NEW right, right = MemoryBranchOf(RightEntries(cut, p, child)),
           NEW half, half = IF p > Half THEN MemoryInsertAt(right, p - Half - 1, k, child) ELSE right,
           NEW all \in Seq(BranchEntry), Len(all) = Capacity + 1, PutAmong(all, s, p, k, child)
    PROVE  half \in Seq(BranchEntry) /\ RunOf(half, all, Half + 1, Capacity + 1)
<1> DEFINE n == SplitFrom(p)
           more == RightEntries(cut, p, child)
           N == Capacity - Half
<1>0. /\ Capacity \in Nat /\ Half \in Nat /\ Half >= 2 /\ Half + 2 <= Capacity /\ p \in Nat /\ p <= Capacity
      /\ n = (IF p < Half THEN Half - 1 ELSE Half) /\ n \in 0 .. Len(s) /\ n >= 1
  BY HalfIs DEF SplitFrom
<1>1. cut \in Seq(BranchEntry) /\ Len(cut) = Capacity - n /\ \A i \in 1 .. Capacity - n : cut[i] = s[n + i]
  BY <1>0, Cut
<1>2. /\ \A i \in 1 .. Capacity + 1 :
           all[i].key = IF i <= p THEN s[i].key ELSE IF i = p + 1 THEN k ELSE s[i - 1].key
      /\ \A i \in 1 .. Capacity + 1 :
           all[i].greater = IF i <= p THEN s[i].greater ELSE IF i = p + 1 THEN child ELSE s[i - 1].greater
  BY DEF PutAmong
<1>3. Half + 1 \in 1 .. Capacity + 1 /\ (Capacity + 1) - (Half + 1) = N /\ N \in Nat /\ N >= 2
  BY <1>0
<1>4. ChildrenOf(all)[(Half + 1) + 1] = all[Half + 1].greater
  <2> DEFINE h == Half + 1
  <2>1. Len(all) > 0 /\ h \in 1 .. Len(all)
    BY <1>0
  <2> HIDE DEF h
  <2>2. ChildrenOf(all)[h + 1] = all[h].greater
    BY <2>1, ChildrenAre
  <2>. QED
    BY <2>2 DEF h
<1>5. Len(cut) > 1
  BY <1>0, <1>1
<1> HIDE DEF n, N
<1>6. more \in Seq(BranchEntry)
  BY <1>0, <1>1, <1>5, RightEntriesKeep
<1>7. ASSUME Len(more) > 0
      PROVE  /\ right \in Seq(BranchEntry) /\ Len(right) = Len(more) /\ right[1].lower = more[1].lower
             /\ \A i \in 1 .. Len(more) : right[i].key = more[i].key /\ right[i].greater = more[i].greater
  <2> HIDE DEF more
  <2>1. right = MemoryBranchOf(more)
    BY DEF more
  <2>2. right \in Seq(BranchEntry)
    BY <2>1, <1>6, <1>7, NewBranchKeeps
  <2>3. Len(right) = Len(more)
    BY <2>1, <1>6, <1>7, NewBranchKeeps
  <2>4. right[1].lower = more[1].lower
    BY <2>1, <1>6, <1>7, NewBranchKeeps
  <2>5. \A i \in 1 .. Len(more) : right[i].key = more[i].key
    BY <2>1, <1>6, <1>7, NewBranchKeeps
  <2>6. \A i \in 1 .. Len(more) : right[i].greater = more[i].greater
    BY <2>1, <1>6, <1>7, NewBranchKeeps
  <2>. QED
    BY <2>2, <2>3, <2>4, <2>5, <2>6
<1>8. CASE p < Half
  <2>1. n = Half - 1 /\ p # Half /\ ~(p > Half)
    BY <1>0, <1>8
  <2>2. Len(more) = Len(cut) - 1 /\ \A i \in 1 .. Len(cut) - 1 : more[i] = cut[i + 1]
    BY <2>1, <1>0, <1>1, <1>5, RightEntriesKeep
  <2> HIDE DEF more
  <2>3. Len(more) = N /\ \A i \in 1 .. N : more[i] = s[Half + i]
    <3>1. Len(cut) - 1 = N
      BY <2>1, <1>0, <1>1 DEF N
    <3>2. ASSUME NEW i \in 1 .. N PROVE more[i] = s[Half + i]
      <4>1. i \in 1 .. Len(cut) - 1 /\ i + 1 \in 1 .. Capacity - n /\ n + (i + 1) = Half + i
        BY <3>1, <2>1, <1>0, <1>1
      <4>2. more[i] = cut[i + 1] /\ cut[i + 1] = s[n + (i + 1)]
        BY <4>1, <2>2, <1>1
      <4>. QED
        BY <4>1, <4>2
    <3>. QED
      BY <2>2, <3>1, <3>2
  <2>4. half = right
    BY <2>1, Zenon
  <2>5. /\ right \in Seq(BranchEntry) /\ Len(right) = N /\ right[1].lower = more[1].lower
        /\ \A i \in 1 .. N : right[i].key = more[i].key /\ right[i].greater = more[i].greater
    <3>1. Len(more) > 0
      BY <2>3, <1>3
    <3>. QED
      BY <3>1, <2>3, <1>7
  <2>6. ASSUME NEW i \in 1 .. N
        PROVE  right[i].key = all[(Half + 1) + i].key /\ right[i].greater = all[(Half + 1) + i].greater
    <3> DEFINE j == (Half + 1) + i
    <3>1. j \in 1 .. Capacity + 1 /\ ~(j <= p) /\ j # p + 1 /\ j - 1 = Half + i
      BY <1>0, <1>3, <1>8 DEF N
    <3> HIDE DEF j
    <3>2. all[j].key = s[j - 1].key /\ all[j].greater = s[j - 1].greater
      BY <3>1, <1>2
    <3>3. right[i].key = s[Half + i].key /\ right[i].greater = s[Half + i].greater
      BY <2>3, <2>5
    <3>4. right[i].key = all[j].key /\ right[i].greater = all[j].greater
      BY <3>1, <3>2, <3>3
    <3>. QED
      BY <3>4 DEF j
  <2>7. right[1].lower = all[Half + 1].greater
    <3>1. 1 \in 1 .. N /\ Half \in 1 .. Len(s) - 1 /\ ~(Half + 1 <= p) /\ Half + 1 # p + 1 /\ (Half + 1) - 1 = Half
      BY <1>0, <1>3, <1>8
    <3>2. right[1].lower = s[Half + 1].lower
      BY <3>1, <2>3, <2>5
    <3>3. s[Half].greater = s[Half + 1].lower
      BY <3>1 DEF Shared
    <3>4. all[Half + 1].greater = s[(Half + 1) - 1].greater
      BY <3>1, <1>2, <1>3
    <3>. QED
      BY <3>1, <3>2, <3>3, <3>4
  <2>. QED
    BY <2>4, <2>5, <2>6, <2>7, <1>3, <1>4 DEF RunOf
<1>9. CASE p = Half
  <2>1. n = Half /\ ~(p > Half)
    BY <1>0, <1>9
  <2>2. Len(more) = Len(cut)
    BY <1>9, <1>0, <1>1, <1>5, RightEntriesKeep
  <2>3. more[1].lower = child
    BY <1>9, <1>0, <1>1, <1>5, RightEntriesKeep
  <2>0. cut \in Seq(BranchEntry) /\ Len(cut) > 1 /\ p \in Nat
    BY <1>0, <1>1, <1>5
  <2>4. SameEntries(more, cut)
    BY <1>9, <2>0, RightEntriesKeep
  <2> HIDE DEF more
  <2>6. Len(more) = N /\ \A i \in 1 .. N : more[i].key = s[Half + i].key /\ more[i].greater = s[Half + i].greater
    BY ZenonT(30), <2>1, <2>2, <2>4, <1>1 DEF N, SameEntries
  <2>7. half = right
    BY <2>1, Zenon
  <2>8. /\ right \in Seq(BranchEntry) /\ Len(right) = N /\ right[1].lower = more[1].lower
        /\ \A i \in 1 .. N : right[i].key = more[i].key /\ right[i].greater = more[i].greater
    <3>1. Len(more) > 0
      BY <2>6, <1>3
    <3>. QED
      BY <3>1, <2>6, <1>7
  <2>9. ASSUME NEW i \in 1 .. N
        PROVE  right[i].key = all[(Half + 1) + i].key /\ right[i].greater = all[(Half + 1) + i].greater
    <3> DEFINE j == (Half + 1) + i
    <3>1. j \in 1 .. Capacity + 1 /\ ~(j <= p) /\ j # p + 1 /\ j - 1 = Half + i
      BY <1>0, <1>3, <1>9 DEF N
    <3> HIDE DEF j
    <3>2. all[j].key = s[j - 1].key /\ all[j].greater = s[j - 1].greater
      BY <3>1, <1>2
    <3>3. right[i].key = s[Half + i].key /\ right[i].greater = s[Half + i].greater
      BY <2>6, <2>8
    <3>4. right[i].key = all[j].key /\ right[i].greater = all[j].greater
      BY <3>1, <3>2, <3>3
    <3>. QED
      BY <3>4 DEF j
  <2>10. right[1].lower = all[Half + 1].greater
    <3>1. ~(Half + 1 <= p) /\ Half + 1 = p + 1
      BY <1>0, <1>9
    <3>2. all[Half + 1].greater = child
      BY <3>1, <1>2, <1>3
    <3>. QED
      BY <3>2, <2>3, <2>8
  <2>. QED
    BY <2>7, <2>8, <2>9, <2>10, <1>3, <1>4 DEF RunOf
<1>10. CASE p > Half
  <2> DEFINE r == p - Half - 1
             M == N - 1
  <2>1. n = Half /\ p # Half
    BY <1>0, <1>10
  <2>2. Len(more) = Len(cut) - 1 /\ \A i \in 1 .. Len(cut) - 1 : more[i] = cut[i + 1]
    BY <2>1, <1>0, <1>1, <1>5, RightEntriesKeep
  <2>3. /\ M \in Nat /\ M + 1 = N /\ M > 0 /\ M = Capacity - Half - 1
        /\ r \in 0 .. M /\ r \in Nat /\ p = Half + 1 + r
    BY <1>0, <1>3, <1>10 DEF N
  <2>4. half = MemoryInsertAt(right, r, k, child)
    BY <1>10, Zenon
  <2> HIDE DEF more, r, M
  <2>5. Len(more) = M /\ \A i \in 1 .. M : more[i] = s[Half + 1 + i]
    <3>1. Len(cut) - 1 = M
      BY <2>1, <2>3, <1>0, <1>1
    <3>2. ASSUME NEW i \in 1 .. M PROVE more[i] = s[Half + 1 + i]
      <4>1. i \in 1 .. Len(cut) - 1 /\ i + 1 \in 1 .. Capacity - n /\ n + (i + 1) = Half + 1 + i
        <5>1. Len(cut) = Capacity - Half /\ Capacity \in Nat /\ Half \in Nat
          BY <2>1, <1>0, <1>1
        <5>. QED
          <6>1. Len(cut) - 1 = M /\ M = Capacity - Half - 1 /\ n = Half /\ i \in 1 .. M
            BY <3>1, <2>1, <2>3, Zenon
          <6> HIDE DEF M, n
          <6>2. i \in 1 .. Len(cut) - 1
            BY <6>1
          <6>3. i + 1 \in 1 .. Capacity - n
            BY <6>1, <5>1
          <6>4. n + (i + 1) = Half + 1 + i
            BY <6>1, <5>1
          <6>. QED
            BY <6>2, <6>3, <6>4
      <4>2. more[i] = cut[i + 1] /\ cut[i + 1] = s[n + (i + 1)]
        BY <4>1, <2>2, <1>1
      <4>. QED
        BY <4>1, <4>2
    <3>. QED
      BY <2>2, <3>1, <3>2
  <2>6. /\ right \in Seq(BranchEntry) /\ Len(right) = M /\ right[1].lower = more[1].lower
        /\ \A i \in 1 .. M : right[i].key = more[i].key /\ right[i].greater = more[i].greater
    <3>1. Len(more) > 0
      BY <2>3, <2>5
    <3>. QED
      BY <3>1, <2>5, <1>7
  <2>7. half \in Seq(BranchEntry) /\ Len(half) = Len(right) + 1 /\ PutAmong(half, right, r, k, child)
    <3>1. Len(right) > 0 /\ r \in 0 .. Len(right)
      BY <2>3, <2>6
    <3>. QED
      BY <3>1, <2>4, <2>6, BranchPut
  <2>8. /\ \A i \in 1 .. N :
             half[i].key = IF i <= r THEN right[i].key ELSE IF i = r + 1 THEN k ELSE right[i - 1].key
        /\ \A i \in 1 .. N :
             half[i].greater = IF i <= r THEN right[i].greater ELSE IF i = r + 1 THEN child ELSE right[i - 1].greater
        /\ half[1].lower = right[1].lower /\ Len(half) = N
    <3>1. Len(right) + 1 = N
      BY <2>3, <2>6
    <3>. QED
      BY <3>1, <2>7 DEF PutAmong
  <2>9. ASSUME NEW i \in 1 .. N
        PROVE  half[i].key = all[(Half + 1) + i].key /\ half[i].greater = all[(Half + 1) + i].greater
    <3> DEFINE j == (Half + 1) + i
    <3>1. j \in 1 .. Capacity + 1 /\ j - 1 = Half + i /\ i \in Nat
      BY <1>0, <1>3 DEF N
    <3>2. CASE i <= r
      <4>1. i \in 1 .. M /\ j <= p
        BY <3>2, <2>3, <1>0
      <4> HIDE DEF j
      <4>2. half[i].key = right[i].key /\ half[i].greater = right[i].greater
        BY <3>2, <2>8
      <4>3. right[i].key = s[Half + 1 + i].key /\ right[i].greater = s[Half + 1 + i].greater
        BY <4>1, <2>5, <2>6
      <4>4. all[j].key = s[j].key /\ all[j].greater = s[j].greater
        BY <4>1, <3>1, <1>2
      <4>. QED
        BY <4>2, <4>3, <4>4 DEF j
    <3>3. CASE i = r + 1
      <4>1. ~(i <= r) /\ ~(j <= p) /\ j = p + 1
        BY <3>3, <2>3, <1>0
      <4> HIDE DEF j
      <4>2. half[i].key = k /\ half[i].greater = child
        BY <4>1, <3>3, <2>8
      <4>3. all[j].key = k /\ all[j].greater = child
        BY <4>1, <3>1, <1>2
      <4>. QED
        BY <4>2, <4>3 DEF j
    <3>4. CASE i > r + 1
      <4>1. /\ i - 1 \in 1 .. M /\ ~(i <= r) /\ i # r + 1 /\ ~(j <= p) /\ j # p + 1
            /\ Half + 1 + (i - 1) = j - 1
        BY <3>4, <2>3, <1>0
      <4> HIDE DEF j
      <4>2. half[i].key = right[i - 1].key /\ half[i].greater = right[i - 1].greater
        BY <4>1, <2>8
      <4>3. right[i - 1].key = s[Half + 1 + (i - 1)].key /\ right[i - 1].greater = s[Half + 1 + (i - 1)].greater
        <5> DEFINE m == i - 1
        <5>1. m \in 1 .. M
          BY <4>1
        <5> HIDE DEF m
        <5>2. right[m].key = s[Half + 1 + m].key /\ right[m].greater = s[Half + 1 + m].greater
          BY <5>1, <2>5, <2>6
        <5>. QED
          BY <5>2 DEF m
      <4>4. all[j].key = s[j - 1].key /\ all[j].greater = s[j - 1].greater
        BY <4>1, <3>1, <1>2
      <4>. QED
        BY <4>1, <4>2, <4>3, <4>4 DEF j
    <3>5. i <= r \/ i = r + 1 \/ i > r + 1
      BY <3>1, <2>3
    <3>. QED
      BY <3>2, <3>3, <3>4, <3>5, Zenon
  <2>10. half[1].lower = all[Half + 1].greater
    <3> DEFINE h == Half + 1
    <3>1. 1 \in 1 .. M /\ h \in 1 .. Len(s) - 1 /\ h <= p /\ h \in 1 .. Capacity + 1
      BY <1>0, <2>3, <1>10
    <3>2. half[1].lower = s[h + 1].lower
      BY <3>1, <2>5, <2>6, <2>8
    <3> HIDE DEF h
    <3>3. s[h].greater = s[h + 1].lower
      BY <3>1 DEF Shared
    <3>4. all[h].greater = s[h].greater
      BY <3>1, <1>2
    <3>5. half[1].lower = all[h].greater
      BY <3>2, <3>3, <3>4
    <3>. QED
      BY <3>5 DEF h
  <2>. QED
    BY <2>7, <2>8, <2>9, <2>10, <1>3, <1>4 DEF RunOf
<1>. QED
  BY <1>0, <1>8, <1>9, <1>10

-----------------------------------------------------------------------------
(* Keys in order                                                           *)

Ordered(a) == Contract!Ascending(a)

\* Place, on the keys the tree sees.
KeyFits(a, p, k) == (p > 0 => a[p] < k) /\ (p < Len(a) => k < a[p + 1])

\* A key that goes in between its neighbours leaves them in order
\* (bplus_tree.go:381-400).
LEMMA OrderedPut ==
    ASSUME NEW a \in Seq(Keys), Ordered(a), NEW p \in 0 .. Len(a), NEW k \in Keys, KeyFits(a, p, k)
    PROVE  Ordered(Put(a, p, k))
<1> DEFINE t == Put(a, p, k)
           n == Len(a)
<1>1. Len(t) = n + 1 /\ \A i \in 1 .. n + 1 : t[i] = IF i <= p THEN a[i] ELSE IF i = p + 1 THEN k ELSE a[i - 1]
  BY Inserted DEF InsertedAt
<1>2. n \in Nat /\ p \in Nat /\ p <= n /\ (p > 0 => a[p] < k) /\ (p < n => k < a[p + 1])
  BY DEF KeyFits
<1>3. \A i \in 1 .. n - 1 : a[i] < a[i + 1]
  BY DEF Ordered, Contract!Ascending
<1> HIDE DEF t, n
<1>4. ASSUME NEW i \in 1 .. n PROVE t[i] < t[i + 1]
  <2>1. i \in 1 .. n + 1 /\ i + 1 \in 1 .. n + 1
    BY <1>2
  <2>2. CASE i + 1 <= p
    <3>1. i \in 1 .. n - 1 /\ i <= p
      BY <1>2, <2>2
    <3>2. t[i] = a[i] /\ t[i + 1] = a[i + 1]
      BY <1>1, <2>1, <2>2, <3>1
    <3>. QED
      BY <1>3, <3>1, <3>2
  <2>3. CASE i = p
    <3>1. i <= p /\ ~(i + 1 <= p) /\ i + 1 = p + 1 /\ p > 0
      BY <1>2, <2>3
    <3>2. t[i] = a[i] /\ t[i + 1] = k
      BY <1>1, <2>1, <3>1
    <3>. QED
      BY <1>2, <2>3, <3>1, <3>2
  <2>4. CASE i = p + 1
    <3>1. ~(i <= p) /\ ~(i + 1 <= p) /\ i + 1 # p + 1 /\ (i + 1) - 1 = p + 1 /\ p < n
      BY <1>2, <2>4
    <3>2. t[i] = k /\ t[i + 1] = a[p + 1]
      BY <1>1, <2>1, <2>4, <3>1
    <3>. QED
      BY <1>2, <3>1, <3>2
  <2>5. CASE i > p + 1
    <3> DEFINE j == i - 1
    <3>1. /\ ~(i <= p) /\ i # p + 1 /\ ~(i + 1 <= p) /\ i + 1 # p + 1 /\ (i + 1) - 1 = j + 1
          /\ j \in 1 .. n - 1
      BY <1>2, <2>5
    <3>2. t[i] = a[j] /\ t[i + 1] = a[j + 1]
      BY <1>1, <2>1, <3>1
    <3> HIDE DEF j
    <3>. QED
      BY <1>3, <3>1, <3>2
  <2>. QED
    BY <2>2, <2>3, <2>4, <2>5, <1>2
<1>5. Ordered(t)
  <2>1. Len(t) - 1 = n
    BY <1>1, <1>2
  <2>. QED
    BY <1>4, <2>1 DEF Ordered, Contract!Ascending
<1>. QED
  BY <1>5 DEF t

\* Nor does one that is taken out disturb them (in_memory_adapter.go:169-173).
LEMMA OrderedTake ==
    ASSUME NEW a \in Seq(Keys), Ordered(a), NEW p \in 0 .. Len(a) - 1
    PROVE  Ordered(Take(a, p))
<1> DEFINE t == Take(a, p)
           n == Len(a)
<1>1. Len(t) = n - 1 /\ \A i \in 1 .. n - 1 : t[i] = IF i <= p THEN a[i] ELSE a[i + 1]
  BY Removed DEF RemovedAt
<1>2. n \in Nat /\ p \in Nat /\ p < n
  OBVIOUS
<1>6. \A i \in 1 .. n : a[i] \in Nat
  <2>1. Keys \subseteq Nat
    BY NodesAssumption
  <2>2. \A i \in 1 .. n : a[i] \in Keys
    OBVIOUS
  <2>. QED
    BY <2>1, <2>2, Zenon
<1>3. \A i \in 1 .. n - 1 : a[i] < a[i + 1]
  BY DEF Ordered, Contract!Ascending
<1> HIDE DEF t, n
<1>4. ASSUME NEW i \in 1 .. n - 2 PROVE t[i] < t[i + 1]
  <2>1. i \in 1 .. n - 1 /\ i + 1 \in 1 .. n - 1 /\ i \in 1 .. n /\ i + 1 \in 1 .. n /\ (i + 1) + 1 \in 1 .. n
    BY <1>2
  <2>2. a[i] < a[i + 1] /\ a[i + 1] < a[(i + 1) + 1]
    BY <1>3, <2>1
  <2>3. CASE i + 1 <= p
    <3>1. i <= p
      BY <1>2, <2>3
    <3>. QED
      BY <1>1, <2>1, <2>2, <2>3, <3>1
  <2>4. CASE i = p
    <3>1. i <= p /\ ~(i + 1 <= p)
      BY <1>2, <2>4
    <3>2. t[i] = a[i] /\ t[i + 1] = a[(i + 1) + 1]
      BY <1>1, <2>1, <3>1
    <3>3. a[i] \in Nat /\ a[i + 1] \in Nat /\ a[(i + 1) + 1] \in Nat
      BY <1>6, <2>1
    <3>. QED
      BY <2>2, <3>2, <3>3
  <2>5. CASE i > p
    <3>1. ~(i <= p) /\ ~(i + 1 <= p)
      BY <1>2, <2>5
    <3>. QED
      BY <1>1, <2>1, <2>2, <3>1
  <2>. QED
    BY <2>3, <2>4, <2>5, <1>2
<1>5. Ordered(t)
  <2>1. Len(t) - 1 = n - 2
    BY <1>1, <1>2
  <2>. QED
    BY <1>4, <2>1 DEF Ordered, Contract!Ascending
<1>. QED
  BY <1>5 DEF t

\* A part of them is in order too (bplus_tree.go:402-482).
LEMMA OrderedPart ==
    ASSUME NEW s \in Seq(Keys), Ordered(s), NEW a \in Nat, NEW b \in Nat, a <= b, b <= Len(s),
           NEW t, PartOf(t, s, a, b)
    PROVE  Ordered(t)
<1>1. \A i \in 1 .. Len(s) - 1 : s[i] < s[i + 1]
  BY DEF Ordered, Contract!Ascending
<1>2. Len(t) = b - a /\ \A i \in 1 .. b - a : t[i] = s[a + i]
  BY DEF PartOf
<1>3. ASSUME NEW i \in 1 .. Len(t) - 1 PROVE t[i] < t[i + 1]
  <2> DEFINE j == a + i
  <2>1. i \in 1 .. b - a /\ i + 1 \in 1 .. b - a /\ j \in 1 .. Len(s) - 1 /\ a + (i + 1) = j + 1
    BY <1>2
  <2>2. t[i] = s[j] /\ t[i + 1] = s[j + 1]
    BY <1>2, <2>1
  <2> HIDE DEF j
  <2>. QED
    BY <1>1, <2>1, <2>2
<1>. QED
  BY <1>3 DEF Ordered, Contract!Ascending

\* A key before all others (exports.go:54-55).
LEMMA PutFirst ==
    ASSUME NEW S, NEW s \in Seq(S), NEW e \in S
    PROVE  <<e>> \o s = Put(s, 0, e)
<1> DEFINE a == <<e>>
           t == a \o s
<1>1. a \in Seq(S) /\ Len(a) = 1 /\ a[1] = e
  OBVIOUS
<1> HIDE DEF a
<1>2. /\ t \in Seq(S) /\ Len(t) = Len(a) + Len(s)
      /\ \A i \in 1 .. Len(a) + Len(s) : t[i] = IF i <= Len(a) THEN a[i] ELSE s[i - Len(a)]
  BY <1>1, ConcatProperties, Zenon
<1> HIDE DEF t
<1>3. Len(s) \in Nat /\ 0 \in 0 .. Len(s)
  OBVIOUS
<1>4. InsertedAt(t, s, 0, e)
  <2>1. Len(t) = Len(s) + 1
    BY <1>1, <1>2, <1>3
  <2>2. ASSUME NEW i \in 1 .. Len(s) + 1
        PROVE  t[i] = IF i <= 0 THEN s[i] ELSE IF i = 0 + 1 THEN e ELSE s[i - 1]
    <3>1. i \in 1 .. Len(a) + Len(s) /\ ~(i <= 0) /\ (i <= 1 => i = 1)
      BY <1>1, <1>3
    <3>2. t[i] = IF i <= 1 THEN a[i] ELSE s[i - 1]
      BY <1>1, <1>2, <3>1
    <3>. QED
      BY <1>1, <1>3, <3>1, <3>2
  <2>. QED
    BY <2>1, <2>2 DEF InsertedAt
<1>5. t = Put(s, 0, e)
  BY <1>2, <1>3, <1>4, InsertedIsPut
<1>. QED
  BY <1>5 DEF t, a

-----------------------------------------------------------------------------
(* The other operations on a branch                                        *)

\* Branch t is s without the key at position p.
KeyGone(t, s, p) ==
    \A i \in 1 .. Len(s) - 1 :
        /\ i <= p => t[i].key = s[i].key /\ t[i].greater = s[i].greater
        /\ i > p => t[i].key = s[i + 1].key /\ t[i].greater = s[i + 1].greater

\* A delete leaves the other keys with the children to their right, and to the left of the
\* first one the child that was there (in_memory_adapter.go:222-237).
LEMMA MemoryDeleted ==
    ASSUME NEW s \in Seq(BranchEntry), Len(s) > 1, NEW p \in 0 .. Len(s) - 1,
           NEW t, t = MemoryDeleteAt(s, p)
    PROVE  /\ t \in Seq(BranchEntry) /\ Len(t) = Len(s) - 1 /\ KeyGone(t, s, p)
           /\ p = 0 => t[1] = s[2]
           /\ p # 0 => t[1] = s[1]
<1> DEFINE n == Len(s)
<1>1. n \in Nat /\ n > 1 /\ p \in Nat /\ 1 \in 1 .. n - 1 /\ 1 \in 1 .. n
  OBVIOUS
<1>2. ASSUME NEW j \in Seq(BranchEntry), Len(j) = n, t = Take(j, p)
      PROVE  /\ t \in Seq(BranchEntry) /\ Len(t) = n - 1
             /\ \A i \in 1 .. n - 1 : t[i] = IF i <= p THEN j[i] ELSE j[i + 1]
  <2>1. t \in Seq(BranchEntry) /\ RemovedAt(t, j, p)
    BY <1>1, <1>2, Removed
  <2>. QED
    BY <1>2, <2>1 DEF RemovedAt
<1>3. CASE p > 0 /\ p < n - 1
  <2> DEFINE e == [s[p + 2] EXCEPT !.lower = s[p].greater]
             j == [s EXCEPT ![p + 2] = e]
  <2>1. p \in 1 .. n /\ p + 2 \in 1 .. n /\ s[p] \in BranchEntry /\ s[p + 2] \in BranchEntry
    BY <1>1, <1>3
  <2>2. e \in BranchEntry /\ e.key = s[p + 2].key /\ e.greater = s[p + 2].greater
    BY <2>1 DEF BranchEntry
  <2>3. t = Take(j, p)
    BY <1>3, Zenon DEF MemoryDeleteAt, Take
  <2> HIDE DEF e
  <2>4. j \in Seq(BranchEntry) /\ Len(j) = n /\ \A i \in 1 .. n : j[i] = IF i = p + 2 THEN e ELSE s[i]
    BY <2>1, <2>2
  <2> HIDE DEF j, n
  <2>5. /\ t \in Seq(BranchEntry) /\ Len(t) = n - 1
        /\ \A i \in 1 .. n - 1 : t[i] = IF i <= p THEN j[i] ELSE j[i + 1]
    BY <1>2, <2>3, <2>4
  <2>6. ASSUME NEW i \in 1 .. n - 1
        PROVE  /\ i <= p => t[i].key = s[i].key /\ t[i].greater = s[i].greater
               /\ i > p => t[i].key = s[i + 1].key /\ t[i].greater = s[i + 1].greater
    <3>1. i \in 1 .. n /\ i + 1 \in 1 .. n /\ i \in Nat
      BY <1>1
    <3>2. CASE i <= p
      <4>1. i # p + 2 /\ ~(i > p)
        BY <1>1, <3>1, <3>2
      <4>2. t[i] = s[i]
        BY <2>4, <2>5, <3>1, <3>2, <4>1
      <4>. QED
        BY <4>1, <4>2
    <3>3. CASE i = p + 1
      <4>1. i + 1 = p + 2 /\ ~(i <= p)
        BY <1>1, <3>3
      <4>2. t[i] = e
        BY <2>4, <2>5, <3>1, <4>1
      <4>. QED
        BY <2>2, <4>1, <4>2
    <3>4. CASE i > p + 1
      <4>1. i + 1 # p + 2 /\ ~(i <= p)
        BY <1>1, <3>1, <3>4
      <4>2. t[i] = s[i + 1]
        BY <2>4, <2>5, <3>1, <4>1
      <4>. QED
        BY <4>1, <4>2
    <3>. QED
      BY <1>1, <3>1, <3>2, <3>3, <3>4
  <2>7. t[1] = s[1] /\ p # 0
    <3>1. 1 <= p /\ 1 # p + 2
      BY <1>1, <1>3
    <3>. QED
      BY <1>1, <2>4, <2>5, <3>1
  <2>. QED
    BY <2>5, <2>6, <2>7 DEF KeyGone, n
<1>4. CASE ~(p > 0 /\ p < n - 1)
  <2>1. t = Take(s, p)
    BY <1>4, Zenon DEF MemoryDeleteAt, Take
  <2>2. /\ t \in Seq(BranchEntry) /\ Len(t) = n - 1
        /\ \A i \in 1 .. n - 1 : t[i] = IF i <= p THEN s[i] ELSE s[i + 1]
    BY <1>2, <2>1
  <2>3. (p = 0 => t[1] = s[2]) /\ (p # 0 => t[1] = s[1])
    BY <1>1, <2>2
  <2>4. KeyGone(t, s, p)
    BY <1>1, <2>2 DEF KeyGone
  <2>. QED
    BY <2>2, <2>3, <2>4
<1>. QED
  BY <1>3, <1>4

\* The first key goes with the child to its left, every other one with the child to its
\* right (in_memory_adapter.go:222-237).
LEMMA BranchTake ==
    ASSUME NEW s \in Seq(BranchEntry), Shared(s), Len(s) > 1, NEW p \in 0 .. Len(s) - 1,
           NEW t, t = MemoryDeleteAt(s, p)
    PROVE  \/ p = 0 /\ KeysOf(t) = Tail(KeysOf(s)) /\ ChildrenOf(t) = Tail(ChildrenOf(s))
           \/ p # 0 /\ KeysOf(t) = Take(KeysOf(s), p) /\ ChildrenOf(t) = Take(ChildrenOf(s), p + 1)
<1> DEFINE n == Len(s)
<1>1. n \in Nat /\ n > 1 /\ p \in 0 .. n - 1 /\ p \in Nat
  OBVIOUS
<1>2. /\ t \in Seq(BranchEntry) /\ Len(t) = n - 1 /\ KeyGone(t, s, p)
      /\ p = 0 => t[1] = s[2]
      /\ p # 0 => t[1] = s[1]
  BY MemoryDeleted
<1>3. 1 \in 1 .. n - 1 /\ 1 \in 1 .. n /\ 2 \in 1 .. n
  BY <1>1
<1>4. s[1].lower = ChildrenOf(s)[1] /\ s[2].lower = ChildrenOf(s)[2]
  BY <1>3, SharedLower
<1>5. CASE p = 0
  <2>1. \A i \in 1 .. n - 1 : t[i].key = s[1 + i].key /\ t[i].greater = s[1 + i].greater
    <3>1. ASSUME NEW i \in 1 .. n - 1 PROVE i > p /\ i + 1 = 1 + i
      BY <1>5
    <3>. QED
      BY <1>2, <3>1 DEF KeyGone
  <2>2. t[1].lower = ChildrenOf(s)[1 + 1] /\ 1 + 1 = 2
    BY <1>2, <1>4, <1>5
  <2>3. RunOf(t, s, 1, n)
    BY <2>1, <2>2, <1>1, <1>2 DEF RunOf
  <2>4. 1 \in Nat /\ 1 < n /\ n <= Len(s)
    BY <1>1
  <2> HIDE DEF n
  <2>5. /\ PartOf(KeysOf(t), KeysOf(s), 1, n) /\ PartOf(ChildrenOf(t), ChildrenOf(s), 1, n + 1)
        /\ KeysOf(s) \in Seq(Keys) /\ KeysOf(t) \in Seq(Keys) /\ Len(KeysOf(s)) = Len(s)
        /\ ChildrenOf(s) \in Seq(ChildIDs) /\ ChildrenOf(t) \in Seq(ChildIDs)
        /\ Len(ChildrenOf(s)) = Len(s) + 1
    BY <2>3, <2>4, <1>1, <1>2, BranchRun
  <2>6. Len(KeysOf(s)) = n /\ Len(ChildrenOf(s)) = n + 1 /\ n > 0 /\ n + 1 > 0
    BY <2>5, <1>1 DEF n
  <2>7. KeysOf(t) = Tail(KeysOf(s))
    BY <2>5, <2>6, TailIsPart
  <2>8. ChildrenOf(t) = Tail(ChildrenOf(s))
    BY <2>5, <2>6, TailIsPart
  <2>. QED
    BY <2>7, <2>8, <1>5
<1>6. CASE p # 0
  <2> DEFINE x == KeysOf(s)
             y == KeysOf(t)
             d == ChildrenOf(s)
             f == ChildrenOf(t)
  <2>1. x \in Seq(Keys) /\ Len(x) = n /\ \A i \in 1 .. n : x[i] = s[i].key
    BY KeysAre, EntryKeys
  <2>2. y \in Seq(Keys) /\ Len(y) = n - 1 /\ \A i \in 1 .. n - 1 : y[i] = t[i].key
    <3>1. y \in Seq(Keys) /\ Len(y) = Len(t) /\ \A i \in 1 .. Len(t) : y[i] = t[i].key
      BY <1>2, KeysAre, EntryKeys
    <3>. QED
      BY <3>1, <1>2
  <2>3. /\ d \in Seq(ChildIDs) /\ Len(d) = n + 1 /\ d[1] = s[1].lower
        /\ \A i \in 1 .. n : d[i + 1] = s[i].greater
    BY <1>1, ChildrenAre
  <2>4. /\ f \in Seq(ChildIDs) /\ Len(f) = n /\ f[1] = t[1].lower
        /\ \A i \in 1 .. n - 1 : f[i + 1] = t[i].greater
    <3>1. Len(t) > 0 /\ Len(t) + 1 = n
      BY <1>1, <1>2
    <3>2. /\ f \in Seq(ChildIDs) /\ Len(f) = Len(t) + 1 /\ f[1] = t[1].lower
          /\ \A i \in 1 .. Len(t) : f[i + 1] = t[i].greater
      BY <3>1, <1>2, ChildrenAre
    <3>. QED
      BY <3>1, <3>2, <1>2
  <2>5. \A i \in 1 .. n - 1 :
            /\ i <= p => t[i].key = s[i].key /\ t[i].greater = s[i].greater
            /\ i > p => t[i].key = s[i + 1].key /\ t[i].greater = s[i + 1].greater
    BY <1>2 DEF KeyGone
  <2>6. t[1].lower = s[1].lower
    BY <1>2, <1>6
  <2> HIDE DEF n, x, y, d, f
  <2>7. RemovedAt(y, x, p)
    <3>1. Len(y) = Len(x) - 1
      BY <1>1, <2>1, <2>2
    <3>2. ASSUME NEW i \in 1 .. Len(x) - 1 PROVE y[i] = IF i <= p THEN x[i] ELSE x[i + 1]
      <4>1. i \in 1 .. n - 1 /\ i \in 1 .. n /\ i + 1 \in 1 .. n
        BY <1>1, <2>1
      <4>2. CASE i <= p
        BY <2>1, <2>2, <2>5, <4>1, <4>2
      <4>3. CASE i > p
        <5>1. ~(i <= p)
          BY <1>1, <4>1, <4>3
        <5>. QED
          BY <2>1, <2>2, <2>5, <4>1, <4>3, <5>1
      <4>. QED
        BY <1>1, <4>1, <4>2, <4>3
    <3>. QED
      BY <3>1, <3>2 DEF RemovedAt
  <2>8. RemovedAt(f, d, p + 1)
    <3>1. Len(f) = Len(d) - 1
      BY <1>1, <2>3, <2>4
    <3>2. ASSUME NEW i \in 1 .. Len(d) - 1 PROVE f[i] = IF i <= p + 1 THEN d[i] ELSE d[i + 1]
      <4>1. CASE i = 1
        BY <1>1, <2>3, <2>4, <2>6, <4>1
      <4>2. CASE i # 1
        <5> DEFINE j == i - 1
        <5>1. j \in 1 .. n - 1 /\ j \in 1 .. n /\ j + 1 \in 1 .. n /\ j + 1 = i /\ i + 1 = (j + 1) + 1
              /\ (j <= p <=> i <= p + 1) /\ (j > p <=> ~(i <= p + 1))
          BY <4>2, <1>1, <2>3
        <5> HIDE DEF j
        <5>2. f[j + 1] = t[j].greater /\ d[j + 1] = s[j].greater /\ d[(j + 1) + 1] = s[j + 1].greater
          BY <5>1, <2>3, <2>4
        <5>3. (j <= p => t[j].greater = s[j].greater) /\ (j > p => t[j].greater = s[j + 1].greater)
          BY <5>1, <2>5
        <5>. QED
          BY <5>1, <5>2, <5>3
      <4>. QED
        BY <4>1, <4>2
    <3>. QED
      BY <3>1, <3>2 DEF RemovedAt
  <2>9. p \in 0 .. Len(x) - 1 /\ p + 1 \in 0 .. Len(d) - 1
    BY <1>1, <2>1, <2>3
  <2>10. y = Take(x, p)
    BY <2>1, <2>2, <2>7, <2>9, RemovedIsTake
  <2>11. f = Take(d, p + 1)
    BY <2>3, <2>4, <2>8, <2>9, RemovedIsTake
  <2>. QED
    BY <1>6, <2>10, <2>11 DEF x, y, d, f
<1>. QED
  BY <1>5, <1>6

\* Shift takes the first key and the child to its right (in_memory_adapter.go:288-295).
LEMMA BranchShiftTakes ==
    ASSUME NEW s \in Seq(BranchEntry), Len(s) > 1, NEW t, t = MemoryShift(s)
    PROVE  KeysOf(t) = Tail(KeysOf(s)) /\ ChildrenOf(t) = Take(ChildrenOf(s), 1)
<1> DEFINE n == Len(s)
           u == Tail(s)
           e == [s[2] EXCEPT !.lower = s[1].lower]
           x == KeysOf(s)
           y == KeysOf(t)
           d == ChildrenOf(s)
           f == ChildrenOf(t)
<1>1. n \in Nat /\ n > 1 /\ 1 \in 1 .. n - 1 /\ 1 \in 1 .. n /\ 2 \in 1 .. n
  OBVIOUS
<1>2. u \in Seq(BranchEntry) /\ Len(u) = n - 1 /\ \A i \in 1 .. n - 1 : u[i] = s[i + 1]
  OBVIOUS
<1>3. s[1] \in BranchEntry /\ s[2] \in BranchEntry
  BY <1>1
<1>4. e \in BranchEntry /\ e.key = s[2].key /\ e.greater = s[2].greater /\ e.lower = s[1].lower
  BY <1>3 DEF BranchEntry
<1>5. t = [u EXCEPT ![1] = e]
  <2>1. u[1] = s[2]
    BY <1>1, <1>2
  <2>2. t = [u EXCEPT ![1].lower = s[1].lower]
    BY Zenon DEF MemoryShift
  <2> HIDE DEF u
  <2>3. t = [u EXCEPT ![1] = [u[1] EXCEPT !.lower = s[1].lower]]
    BY <2>2
  <2>. QED
    BY <2>1, <2>3, Zenon
<1> HIDE DEF u, e
<1>6. t \in Seq(BranchEntry) /\ Len(t) = n - 1 /\ t[1] = e /\ \A i \in 1 .. n - 1 : i # 1 => t[i] = u[i]
  BY <1>1, <1>2, <1>4, <1>5
<1>7. ASSUME NEW i \in 1 .. n - 1 PROVE t[i].key = s[i + 1].key /\ t[i].greater = s[i + 1].greater
  <2>1. CASE i = 1
    BY <2>1, <1>4, <1>6
  <2>2. CASE i # 1
    BY <2>2, <1>2, <1>6
  <2>. QED
    BY <2>1, <2>2
<1>8. x \in Seq(Keys) /\ Len(x) = n /\ \A i \in 1 .. n : x[i] = s[i].key
  BY KeysAre, EntryKeys
<1>9. y \in Seq(Keys) /\ Len(y) = n - 1 /\ \A i \in 1 .. n - 1 : y[i] = t[i].key
  <2>1. y \in Seq(Keys) /\ Len(y) = Len(t) /\ \A i \in 1 .. Len(t) : y[i] = t[i].key
    BY <1>6, KeysAre, EntryKeys
  <2>. QED
    BY <2>1, <1>6
<1>10. /\ d \in Seq(ChildIDs) /\ Len(d) = n + 1 /\ d[1] = s[1].lower
       /\ \A i \in 1 .. n : d[i + 1] = s[i].greater
  BY <1>1, ChildrenAre
<1>11. /\ f \in Seq(ChildIDs) /\ Len(f) = n /\ f[1] = t[1].lower
       /\ \A i \in 1 .. n - 1 : f[i + 1] = t[i].greater
  <2>1. Len(t) > 0 /\ Len(t) + 1 = n
    BY <1>1, <1>6
  <2>2. /\ f \in Seq(ChildIDs) /\ Len(f) = Len(t) + 1 /\ f[1] = t[1].lower
        /\ \A i \in 1 .. Len(t) : f[i + 1] = t[i].greater
    BY <2>1, <1>6, ChildrenAre
  <2>. QED
    BY <2>1, <2>2, <1>6
<1> HIDE DEF n, x, y, d, f
<1>12. PartOf(y, x, 1, n)
  <2>1. ASSUME NEW i \in 1 .. n - 1 PROVE y[i] = x[1 + i]
    <3>1. i + 1 \in 1 .. n /\ 1 + i = i + 1
      BY <1>1
    <3>. QED
      BY <3>1, <1>7, <1>8, <1>9
  <2>. QED
    BY <2>1, <1>9 DEF PartOf
<1>13. y = Tail(x)
  <2>1. Len(x) > 0 /\ PartOf(y, x, 1, Len(x))
    BY <1>1, <1>8, <1>12
  <2>. QED
    BY <2>1, <1>8, <1>9, TailIsPart
<1>14. RemovedAt(f, d, 1)
  <2>1. Len(f) = Len(d) - 1
    BY <1>1, <1>10, <1>11
  <2>2. ASSUME NEW i \in 1 .. Len(d) - 1 PROVE f[i] = IF i <= 1 THEN d[i] ELSE d[i + 1]
    <3>1. CASE i = 1
      BY <3>1, <1>4, <1>6, <1>10, <1>11
    <3>2. CASE i # 1
      <4> DEFINE j == i - 1
      <4>1. j \in 1 .. n - 1 /\ j + 1 = i /\ j + 1 \in 1 .. n /\ ~(i <= 1) /\ i + 1 = (j + 1) + 1
        BY <3>2, <1>1, <1>10
      <4> HIDE DEF j
      <4>2. f[j + 1] = t[j].greater /\ t[j].greater = s[j + 1].greater /\ d[(j + 1) + 1] = s[j + 1].greater
        BY <4>1, <1>7, <1>10, <1>11
      <4>. QED
        BY <4>1, <4>2
    <3>. QED
      BY <3>1, <3>2
  <2>. QED
    BY <2>1, <2>2 DEF RemovedAt
<1>15. f = Take(d, 1)
  <2>1. 1 \in 0 .. Len(d) - 1
    BY <1>1, <1>10
  <2>. QED
    BY <2>1, <1>10, <1>11, <1>14, RemovedIsTake
<1>. QED
  BY <1>13, <1>15 DEF x, y, d, f

\* Unshift puts a key and a child before the others (in_memory_adapter.go:229-239).
LEMMA BranchUnshiftPuts ==
    ASSUME NEW s \in Seq(BranchEntry), Len(s) > 0, NEW k \in Keys, NEW child \in ChildIDs,
           NEW t, t = MemoryUnshift(s, k, child)
    PROVE  KeysOf(t) = Put(KeysOf(s), 0, k) /\ ChildrenOf(t) = Put(ChildrenOf(s), 0, child)
<1> DEFINE n == Len(s)
           e == [key |-> k, lower |-> child, greater |-> s[1].lower]
           d == ChildrenOf(s)
           f == ChildrenOf(t)
<1>1. n \in Nat /\ n > 0 /\ 1 \in 1 .. n /\ 0 \in 0 .. n
  OBVIOUS
<1>2. s[1] \in BranchEntry
  BY <1>1
<1>3. e \in BranchEntry /\ e.key = k /\ e.lower = child /\ e.greater = s[1].lower
  BY <1>2 DEF BranchEntry
<1>4. t = <<e>> \o s
  BY Zenon DEF MemoryUnshift
<1> HIDE DEF e
<1>5. t = Put(s, 0, e)
  BY <1>3, <1>4, PutFirst
<1>6. KeysOf(t) = Put(KeysOf(s), 0, k)
  BY <1>1, <1>3, <1>5, EntryKeys, KeysPut
<1>7. t \in Seq(BranchEntry) /\ InsertedAt(t, s, 0, e)
  BY <1>1, <1>3, <1>5, Inserted
<1>8. Len(t) = n + 1 /\ t[1] = e /\ \A i \in 1 .. n : t[i + 1] = s[i]
  <2>1. Len(t) = n + 1 /\ \A i \in 1 .. n + 1 : t[i] = IF i <= 0 THEN s[i] ELSE IF i = 0 + 1 THEN e ELSE s[i - 1]
    BY <1>7 DEF InsertedAt
  <2>2. 1 \in 1 .. n + 1 /\ ~(1 <= 0) /\ 1 = 0 + 1
    BY <1>1
  <2>3. t[1] = e
    BY <2>1, <2>2, Zenon
  <2>4. ASSUME NEW i \in 1 .. n PROVE t[i + 1] = s[i]
    <3>1. i + 1 \in 1 .. n + 1 /\ ~(i + 1 <= 0) /\ i + 1 # 0 + 1 /\ (i + 1) - 1 = i
      BY <1>1
    <3>. QED
      BY <2>1, <3>1
  <2>. QED
    BY <2>1, <2>3, <2>4
<1>10. /\ d \in Seq(ChildIDs) /\ Len(d) = n + 1 /\ d[1] = s[1].lower
       /\ \A i \in 1 .. n : d[i + 1] = s[i].greater
  BY <1>1, ChildrenAre
<1>11. /\ f \in Seq(ChildIDs) /\ Len(f) = n + 2 /\ f[1] = t[1].lower
       /\ \A i \in 1 .. n + 1 : f[i + 1] = t[i].greater
  <2>1. Len(t) > 0 /\ Len(t) + 1 = n + 2
    BY <1>1, <1>8
  <2>2. /\ f \in Seq(ChildIDs) /\ Len(f) = Len(t) + 1 /\ f[1] = t[1].lower
        /\ \A i \in 1 .. Len(t) : f[i + 1] = t[i].greater
    BY <2>1, <1>7, ChildrenAre
  <2>. QED
    BY <2>1, <2>2, <1>8
<1> HIDE DEF n, d, f
<1>12. InsertedAt(f, d, 0, child)
  <2>1. Len(f) = Len(d) + 1
    BY <1>1, <1>10, <1>11
  <2>2. ASSUME NEW i \in 1 .. Len(d) + 1
        PROVE  f[i] = IF i <= 0 THEN d[i] ELSE IF i = 0 + 1 THEN child ELSE d[i - 1]
    <3>1. CASE i = 1
      BY <3>1, <1>3, <1>8, <1>11
    <3>2. CASE i = 2
      <4>1. 1 \in 1 .. n + 1 /\ i = 1 + 1 /\ ~(i <= 0) /\ i # 0 + 1 /\ i - 1 = 1
        BY <3>2, <1>1
      <4>2. f[1 + 1] = t[1].greater
        BY <4>1, <1>11
      <4>. QED
        BY <4>1, <4>2, <1>3, <1>8, <1>10
    <3>3. CASE i > 2
      <4> DEFINE j == i - 2
      <4>1. /\ j \in 1 .. n /\ j + 1 \in 1 .. n + 1 /\ (j + 1) + 1 = i /\ i - 1 = j + 1
            /\ ~(i <= 0) /\ i # 0 + 1
        BY <3>3, <1>1, <1>10
      <4> HIDE DEF j
      <4>2. f[(j + 1) + 1] = t[j + 1].greater /\ t[j + 1] = s[j] /\ d[j + 1] = s[j].greater
        BY <4>1, <1>8, <1>10, <1>11
      <4>. QED
        BY <4>1, <4>2
    <3>. QED
      BY <3>1, <3>2, <3>3, <1>1, <1>10
  <2>. QED
    BY <2>1, <2>2 DEF InsertedAt
<1>13. f = Put(d, 0, child)
  <2>1. 0 \in 0 .. Len(d)
    BY <1>1, <1>10
  <2>. QED
    BY <2>1, <1>10, <1>11, <1>12, InsertedIsPut
<1>. QED
  BY <1>6, <1>13 DEF d, f

\* Branch t is s with key k at position p.
OtherKey(t, s, p, k) ==
    /\ KeysOf(t) = [KeysOf(s) EXCEPT ![p + 1] = k] /\ ChildrenOf(t) = ChildrenOf(s)
    /\ KeysOf(t) \in Seq(Keys) /\ Len(KeysOf(t)) = Len(s)
    /\ \A i \in 1 .. Len(s) : KeysOf(t)[i] = IF i = p + 1 THEN k ELSE s[i].key

\* Another key, the same children (in_memory_adapter.go:215-217).
LEMMA BranchKeyReplaced ==
    ASSUME NEW s \in Seq(BranchEntry), NEW p \in 0 .. Len(s) - 1, NEW k \in Keys,
           NEW t, t = [s EXCEPT ![p + 1].key = k]
    PROVE  OtherKey(t, s, p, k)
<1> DEFINE n == Len(s)
           q == p + 1
           e == [s[q] EXCEPT !.key = k]
<1>1. n \in Nat /\ n > 0 /\ q \in 1 .. n /\ DOMAIN s = 1 .. n /\ s[q] \in BranchEntry
  OBVIOUS
<1>2. e \in BranchEntry /\ e.key = k /\ e.greater = s[q].greater /\ e.lower = s[q].lower
  BY <1>1 DEF BranchEntry
<1>3. t = [s EXCEPT ![q] = e]
  OBVIOUS
<1> HIDE DEF e, q
<1>4. t \in Seq(BranchEntry) /\ Len(t) = n /\ t[q] = e /\ DOMAIN t = 1 .. n /\ \A i \in 1 .. n : i # q => t[i] = s[i]
  BY <1>1, <1>2, <1>3
<1>5. ASSUME NEW i \in 1 .. n
      PROVE  /\ t[i].key = (IF i = q THEN k ELSE s[i].key)
             /\ t[i].greater = s[i].greater /\ t[i].lower = s[i].lower
  <2>1. CASE i = q
    BY <2>1, <1>2, <1>4
  <2>2. CASE i # q
    <3>1. t[i] = s[i]
      BY <2>2, <1>4
    <3>2. (IF i = q THEN k ELSE s[i].key) = s[i].key
      BY <2>2, Zenon
    <3>3. t[i].key = s[i].key /\ t[i].greater = s[i].greater /\ t[i].lower = s[i].lower
      BY <3>1, Zenon
    <3>. QED
      BY <3>2, <3>3, Zenon
  <2>. QED
    BY <2>1, <2>2
<1>6. KeysOf(t) = [i \in 1 .. n |-> IF i = q THEN k ELSE s[i].key]
  BY <1>4, <1>5 DEF KeysOf
<1>7. KeysOf(s) = [i \in 1 .. n |-> s[i].key]
  BY <1>1, Zenon DEF KeysOf
<1>8. KeysOf(t) = [KeysOf(s) EXCEPT ![q] = k]
  BY <1>1, <1>6, <1>7
<1>9. KeysOf(t) \in Seq(Keys) /\ Len(KeysOf(t)) = n
  <2>1. KeysOf(t) \in Seq(Keys) /\ Len(KeysOf(t)) = Len(t)
    BY <1>4, KeysAre, EntryKeys
  <2>. QED
    BY <2>1, <1>4
<1>10. ChildrenOf(t) = ChildrenOf(s)
  <2>1. t # <<>> /\ s # <<>> /\ 1 \in 1 .. n
    BY <1>1, <1>4
  <2>2. t[1].lower = s[1].lower
    BY <2>1, <1>5
  <2>3. [i \in DOMAIN t |-> t[i].greater] = [i \in DOMAIN s |-> s[i].greater]
    BY <1>1, <1>4, <1>5
  <2>4. ChildrenOf(t) = <<t[1].lower>> \o [i \in DOMAIN t |-> t[i].greater]
    BY <2>1, Zenon DEF ChildrenOf
  <2>5. ChildrenOf(s) = <<s[1].lower>> \o [i \in DOMAIN s |-> s[i].greater]
    BY <2>1, Zenon DEF ChildrenOf
  <2>. QED
    BY <2>2, <2>3, <2>4, <2>5, Zenon
<1>. QED
  BY <1>6, <1>8, <1>9, <1>10 DEF q, OtherKey

\* branchSplit: an insert on either side of the cut, or on it, gives the halves of all
\* keys and of all children, but for the key between them (bplus_tree.go:446-482).
LEMMA BranchHalves ==
    ASSUME NEW s \in Seq(BranchEntry), Len(s) = Capacity, Shared(s),
           NEW p \in 0 .. Len(s), NEW k \in Keys, NEW child \in ChildIDs,
           NEW left, left = MemoryBranchSplit(s, p, k, child).left,
           NEW right, right = MemoryBranchSplit(s, p, k, child).right,
           NEW ks, ks = Put(KeysOf(s), p, k),
           NEW cs, cs = Put(ChildrenOf(s), p + 1, child)
    PROVE  /\ KeysOf(left) = SubSeq(ks, 1, Half) /\ ChildrenOf(left) = SubSeq(cs, 1, Half + 1)
           /\ KeysOf(right) = SubSeq(ks, Half + 2, Capacity + 1)
           /\ ChildrenOf(right) = SubSeq(cs, Half + 2, Capacity + 2)
           /\ ks \in Seq(Keys) /\ Len(ks) = Capacity + 1 /\ Len(cs) = Capacity + 2
           /\ PartOf(KeysOf(left), ks, 0, Half) /\ PartOf(KeysOf(right), ks, Half + 1, Capacity + 1)
<1> DEFINE rest == SubSeq(s, 1, SplitFrom(p))
           cut == SubSeq(s, SplitFrom(p) + 1, Len(s))
           l == IF p < Half THEN MemoryInsertAt(rest, p, k, child) ELSE rest
           r == MemoryBranchOf(RightEntries(cut, p, child))
           h == IF p > Half THEN MemoryInsertAt(r, p - Half - 1, k, child) ELSE r
           all == MemoryInsertAt(s, p, k, child)
<1>0. /\ Capacity \in Nat /\ Half \in Nat /\ Half >= 2 /\ Half + 2 <= Capacity /\ Len(s) > 0
      /\ Half + 1 \in Nat /\ Capacity + 1 \in Nat /\ Half + 1 < Capacity + 1 /\ 0 \in Nat /\ 0 < Half
      /\ (Half + 1) + 1 = Half + 2 /\ (Capacity + 1) + 1 = Capacity + 2 /\ 0 + 1 = 1
      /\ Half + 1 <= Capacity + 1 /\ Half <= Capacity + 1
  BY HalfIs
<1>1. /\ all \in Seq(BranchEntry) /\ Len(all) = Len(s) + 1 /\ PutAmong(all, s, p, k, child)
      /\ KeysOf(all) = Put(KeysOf(s), p, k)
      /\ ChildrenOf(all) = Put(ChildrenOf(s), p + 1, child)
  BY <1>0, BranchPut
<1>2. Len(all) = Capacity + 1 /\ KeysOf(all) = ks /\ ChildrenOf(all) = cs
  BY <1>1
<1>3. l = (IF p < Half THEN MemoryInsertAt(rest, p, k, child) ELSE rest)
  OBVIOUS
<1>4. h = (IF p > Half THEN MemoryInsertAt(r, p - Half - 1, k, child) ELSE r)
  OBVIOUS
<1>5. rest = SubSeq(s, 1, SplitFrom(p)) /\ cut = SubSeq(s, SplitFrom(p) + 1, Len(s))
      /\ r = MemoryBranchOf(RightEntries(cut, p, child))
  OBVIOUS
<1> HIDE DEF all, rest, cut, l, r, h
<1>6. l \in Seq(BranchEntry) /\ Len(l) = Half /\ RunOf(l, all, 0, Half)
  BY <1>1, <1>2, <1>3, <1>5, BranchLeftHalf
<1>7. h \in Seq(BranchEntry) /\ RunOf(h, all, Half + 1, Capacity + 1)
  BY <1>1, <1>2, <1>4, <1>5, BranchRightHalf
<1>8. HalvesAre(MemoryBranchSplit(s, p, k, child), l, r, p, k, child)
  <2>1. /\ rest = SubSeq(s, 1, SplitFrom(p)) /\ cut = SubSeq(s, SplitFrom(p) + 1, Len(s))
        /\ r = MemoryBranchOf(RightEntries(cut, p, child))
        /\ l = (IF p < Half THEN MemoryInsertAt(rest, p, k, child) ELSE rest)
        /\ l \in Seq(BranchEntry) /\ Len(l) = Half
    BY <1>3, <1>5, <1>6, Zenon
  <2>. QED
    BY <2>1, SplitInMemory
<1>9. left = l /\ right = h
  <2>1. MemoryBranchSplit(s, p, k, child) = [left |-> l, right |-> h]
    BY <1>4, <1>8, Zenon DEF HalvesAre
  <2>. QED
    BY <2>1
<1>10. /\ PartOf(KeysOf(l), KeysOf(all), 0, Half)
       /\ PartOf(ChildrenOf(l), ChildrenOf(all), 0, Half + 1)
       /\ KeysOf(all) \in Seq(Keys) /\ KeysOf(l) \in Seq(Keys) /\ Len(KeysOf(all)) = Len(all)
       /\ ChildrenOf(all) \in Seq(ChildIDs) /\ ChildrenOf(l) \in Seq(ChildIDs)
       /\ Len(ChildrenOf(all)) = Len(all) + 1
  <2>1. Half <= Len(all)
    BY <1>0, <1>2
  <2>. QED
    BY <2>1, <1>0, <1>1, <1>6, BranchRun
<1>11. /\ PartOf(KeysOf(h), KeysOf(all), Half + 1, Capacity + 1)
       /\ PartOf(ChildrenOf(h), ChildrenOf(all), Half + 1, (Capacity + 1) + 1)
       /\ KeysOf(h) \in Seq(Keys) /\ ChildrenOf(h) \in Seq(ChildIDs)
  <2>1. Capacity + 1 <= Len(all)
    BY <1>0, <1>2
  <2> DEFINE a == Half + 1
             b == Capacity + 1
  <2>2. a \in Nat /\ b \in Nat /\ a < b /\ b <= Len(all) /\ RunOf(h, all, a, b)
    BY <2>1, <1>0, <1>7
  <2> HIDE DEF a, b
  <2>3. /\ PartOf(KeysOf(h), KeysOf(all), a, b) /\ PartOf(ChildrenOf(h), ChildrenOf(all), a, b + 1)
        /\ KeysOf(h) \in Seq(Keys) /\ ChildrenOf(h) \in Seq(ChildIDs)
    BY <2>2, <1>1, <1>7, BranchRun
  <2>. QED
    BY <2>3 DEF a, b
<1>12. ks \in Seq(Keys) /\ cs \in Seq(ChildIDs) /\ Len(ks) = Capacity + 1 /\ Len(cs) = Capacity + 2
  BY <1>0, <1>2, <1>10
<1>13. KeysOf(left) = SubSeq(ks, 1, Half)
  <2>1. KeysOf(l) = SubSeq(KeysOf(all), 0 + 1, Half)
    <3>1. 0 <= Half /\ Half <= Len(KeysOf(all))
      BY <1>0, <1>2, <1>10
    <3>. QED
      BY <3>1, <1>0, <1>10, PartIsSubSeq
  <2>. QED
    BY <2>1, <1>0, <1>2, <1>9, Zenon
<1>14. ChildrenOf(left) = SubSeq(cs, 1, Half + 1)
  <2>1. ChildrenOf(l) = SubSeq(ChildrenOf(all), 0 + 1, Half + 1)
    <3>1. 0 <= Half + 1 /\ Half + 1 <= Len(ChildrenOf(all))
      BY <1>0, <1>2, <1>10
    <3>. QED
      BY <3>1, <1>0, <1>10, PartIsSubSeq
  <2>. QED
    BY <2>1, <1>0, <1>2, <1>9, Zenon
<1>15. KeysOf(right) = SubSeq(ks, Half + 2, Capacity + 1)
  <2>1. KeysOf(h) = SubSeq(KeysOf(all), (Half + 1) + 1, Capacity + 1)
    <3>1. Capacity + 1 <= Len(KeysOf(all))
      BY <1>0, <1>2, <1>10
    <3>. QED
      BY <3>1, <1>0, <1>10, <1>11, PartIsSubSeq
  <2>. QED
    BY <2>1, <1>0, <1>2, <1>9, Zenon
<1>16. ChildrenOf(right) = SubSeq(cs, Half + 2, Capacity + 2)
  <2>1. ChildrenOf(h) = SubSeq(ChildrenOf(all), (Half + 1) + 1, (Capacity + 1) + 1)
    <3>1. (Capacity + 1) + 1 <= Len(ChildrenOf(all)) /\ (Capacity + 1) + 1 \in Nat
          /\ Half + 1 <= (Capacity + 1) + 1
      BY <1>0, <1>2, <1>10
    <3>. QED
      BY <3>1, <1>0, <1>10, <1>11, PartIsSubSeq
  <2>. QED
    BY <2>1, <1>0, <1>2, <1>9, Zenon
<1>17. PartOf(KeysOf(left), ks, 0, Half) /\ PartOf(KeysOf(right), ks, Half + 1, Capacity + 1)
  BY <1>2, <1>9, <1>10, <1>11, Zenon
<1>. QED
  BY <1>12, <1>13, <1>14, <1>15, <1>16, <1>17

-----------------------------------------------------------------------------
(* Blocks for new children                                                 *)

\* Of a set of numbers that is not empty one is the least
\* (FirstFree, data_blocks_map.go:31-39).
LEMMA LeastBlock ==
    ASSUME NEW T \in SUBSET Nat, T # {}
    PROVE  \E x \in T : \A y \in T : x <= y
<1> DEFINE R == OpToRel(<, Nat)
<1>1. IsWellFoundedOn(R, Nat)
  BY NatLessThanWellFounded
<1> HIDE DEF R
<1>2. PICK x \in T : \A y \in T : ~(<<y, x>> \in R)
  BY <1>1, WFMin, Zenon
<1>3. \A a, b \in Nat : a < b => <<a, b>> \in R
  BY DEF R, OpToRel
<1>4. \A y \in T : ~(y < x)
  BY <1>2, <1>3
<1>. QED
  BY <1>4

\* There is a block that is none of these, as many as one node and a new entry may
\* have (uint32_index_node_adapter.go:123-136).
LEMMA BlockIsFree ==
    ASSUME NEW S, NEW d \in Seq(S), Len(d) <= Capacity + 1,
           NEW ids, \A c \in ids : \E i \in 1 .. Len(d) : d[i] = c
    PROVE  FreeBlock(ids) \in Children
<1>1. Children \ ids # {}
  <2> SUFFICES ASSUME \A c \in Children : c \in ids PROVE FALSE
    OBVIOUS
  <2> DEFINE T == 1 .. Len(d)
             f == [c \in Children |-> CHOOSE i \in T : d[i] = c]
  <2>1. \A c \in Children : f[c] \in T /\ d[f[c]] = c
    <3> SUFFICES ASSUME NEW c \in Children PROVE f[c] \in T /\ d[f[c]] = c
      OBVIOUS
    <3>1. \E i \in T : d[i] = c
      OBVIOUS
    <3>2. f[c] = CHOOSE i \in T : d[i] = c
      OBVIOUS
    <3>. QED
      BY <3>1, <3>2, Zenon
  <2>2. f \in [Children -> T]
    <3>1. \A c \in Children : (CHOOSE i \in T : d[i] = c) \in T
      BY <2>1
    <3>. QED
      BY <3>1, Zenon
  <2>3. IsFiniteSet(T) /\ Cardinality(T) = Len(d)
    <3>1. 1 \in Int /\ Len(d) \in Int /\ Len(d) \in Nat
      OBVIOUS
    <3>2. IsFiniteSet(1 .. Len(d)) /\ Cardinality(1 .. Len(d)) = IF 1 > Len(d) THEN 0 ELSE Len(d) - 1 + 1
      BY <3>1, FS_Interval
    <3>. QED
      BY <3>1, <3>2
  <2> HIDE DEF f, T
  <2>4. IsFiniteSet(Children) /\ Cardinality(T) < Cardinality(Children)
    <3>1. IsFiniteSet(Children) /\ Cardinality(Children) > Capacity + 1 /\ Capacity \in Nat
      BY NodesAssumption
    <3>2. Cardinality(Children) \in Nat /\ Len(d) \in Nat
      BY <3>1, FS_CardinalityType
    <3>. QED
      BY <2>3, <3>1, <3>2
  <2>5. PICK x, y \in Children : x # y /\ f[x] = f[y]
    BY <2>2, <2>3, <2>4, FS_PigeonHole
  <2>. QED
    BY <2>1, <2>5
<1>2. Children \ ids \in SUBSET Nat
  BY NodesAssumption
<1>3. \E c \in Children \ ids : \A other \in Children \ ids : c <= other
  <2> DEFINE T == Children \ ids
  <2> HIDE DEF T
  <2>1. T # {} /\ T \in SUBSET Nat
    BY <1>1, <1>2 DEF T
  <2>2. \E c \in T : \A other \in T : c <= other
    BY <2>1, LeastBlock
  <2>. QED
    BY <2>2 DEF T
<1>4. FreeBlock(ids) \in Children \ ids
  BY <1>3, Zenon DEF FreeBlock
<1>. QED
  BY <1>4

\* So a node that gets a child gets a block of the file (bplus_tree.go:425-444).
LEMMA NewChildIsBlock ==
    ASSUME Inv, memory.kind = "branch", Len(es) > 0
    PROVE  NewChild \in Children /\ NewChild \in ChildIDs
<1> DEFINE d == ChildrenOf(es)
           used == UNION {{es[i].lower, es[i].greater} : i \in DOMAIN es}
<1>0. es \in Seq(BranchEntry) /\ Len(es) <= Capacity /\ Len(es) \in Nat /\ \E b : BranchHas(b, es)
  BY BranchNow
<1>1. PICK b : es \in Seq(BranchEntry) /\ Len(es) <= Capacity /\ Len(es) \in Nat /\ BranchHas(b, es)
  BY <1>0
<1>2. Shared(es)
  BY <1>1, NeighboursShare DEF Shared
<1>3. d \in Seq(ChildIDs) /\ Len(d) = Len(es) + 1 /\ \A i \in 1 .. Len(es) : d[i + 1] = es[i].greater
  BY <1>1, ChildrenAre
<1>4. \A i \in 1 .. Len(es) : es[i].lower = d[i]
  BY <1>1, <1>2, SharedLower
<1>5. DOMAIN es = 1 .. Len(es)
  BY <1>1
<1> HIDE DEF d
<1>6. ASSUME NEW c \in used PROVE \E i \in 1 .. Len(d) : d[i] = c
  <2>1. PICK i \in 1 .. Len(es) : c = es[i].lower \/ c = es[i].greater
    BY <1>5
  <2>2. i \in 1 .. Len(d) /\ i + 1 \in 1 .. Len(d)
    BY <1>1, <1>3
  <2>. QED
    BY <2>1, <2>2, <1>3, <1>4
<1>7. Len(d) <= Capacity + 1
  BY <1>1, <1>3, NodesAssumption
<1> HIDE DEF used
<1>8. FreeBlock(used) \in Children
  BY <1>3, <1>6, <1>7, BlockIsFree
<1>9. NewChild = FreeBlock(used)
  BY Zenon DEF NewChild, used
<1>. QED
  BY <1>8, <1>9, FreeBlockIsChild

\* And the first two children of a new branch are blocks of the file
\* (bplus_tree.go:101-113).
LEMMA FirstChildrenAreBlocks ==
    FreeBlock({}) \in Children /\ FreeBlock({FreeBlock({})}) \in Children
<1>1. \A S, d, ids : d \in Seq(S) /\ Len(d) <= Capacity + 1 /\ (\A c \in ids : \E i \in 1 .. Len(d) : d[i] = c)
                        => FreeBlock(ids) \in Children
  BY BlockIsFree
<1>2. FreeBlock({}) \in Children
  <2>1. <<>> \in Seq(Children) /\ Len(<<>>) <= Capacity + 1
    BY NodesAssumption
  <2>. QED
    BY <2>1, <1>1
<1> DEFINE lt == FreeBlock({})
<1> HIDE DEF lt
<1>3. FreeBlock({lt}) \in Children
  <2> DEFINE d == <<lt>>
  <2>1. d \in Seq({lt}) /\ Len(d) = 1 /\ d[1] = lt
    OBVIOUS
  <2>2. 1 <= Capacity + 1 /\ 1 \in 1 .. 1
    BY NodesAssumption
  <2> HIDE DEF d
  <2>3. \A c \in {lt} : \E i \in 1 .. Len(d) : d[i] = c
    BY <2>1, <2>2
  <2>. QED
    BY <2>1, <2>2, <2>3, <1>1
<1>. QED
  BY <1>2, <1>3 DEF lt

-----------------------------------------------------------------------------
(* The operations of the contract on what the tree sees                    *)

\* The contract takes its inserts from the same module.
LEMMA ContractPut ==
    /\ \A s, p, e : Contract!Lib!InsertAt(s, p + 1, e) = Put(s, p, e)
    /\ \A s, p : Contract!Lib!RemoveAt(s, p + 1) = Take(s, p)
<1>1. \A s, p, e : Contract!Lib!InsertAt(s, p + 1, e) = Put(s, p, e)
  BY Zenon DEF Contract!Lib!InsertAt, Put, Lib!InsertAt
<1>2. \A s, p : Contract!Lib!RemoveAt(s, p + 1) = Take(s, p)
  BY Zenon DEF Contract!Lib!RemoveAt, Take, Lib!RemoveAt
<1>. QED
  BY <1>1, <1>2

\* The fields of a node.
LEMMA SeenFields ==
    ASSUME NEW kind, NEW pa, NEW l, NEW r, NEW keys, NEW items, NEW n, n = Seen(kind, pa, l, r, keys, items)
    PROVE  /\ n.kind = kind /\ n.parent = pa /\ n.left = l /\ n.right = r
           /\ n.keys = keys /\ n.items = items /\ Contract!Total(n) = Len(keys)
<1>1. n = [kind |-> kind, parent |-> pa, left |-> l, right |-> r, keys |-> keys, items |-> items]
  BY Zenon DEF Seen
<1>2. n.kind = kind /\ n.parent = pa /\ n.left = l /\ n.right = r /\ n.keys = keys /\ n.items = items
  BY <1>1
<1>. QED
  BY <1>2, Zenon DEF Contract!Total

\* Node n with other keys and items.
Holding(n, ks, its) == [n EXCEPT !.keys = ks, !.items = its]

\* A node keeps its links whatever it holds (in_memory_adapter.go:149-173).
LEMMA SeenHolding ==
    ASSUME NEW kind, NEW pa, NEW l, NEW r, NEW keys, NEW items, NEW ks, NEW its,
           NEW m, m = Holding(Seen(kind, pa, l, r, keys, items), ks, its)
    PROVE  m = Seen(kind, pa, l, r, ks, its)
BY DEF Seen, Holding

\* A node without links.
Fresh(kind, ks, its) == [Contract!NoNode EXCEPT !.kind = kind, !.keys = ks, !.items = its]

\* A new node has none (uint32_index_node_adapter.go:157-173).
LEMMA FreshSeen ==
    ASSUME NEW kind, NEW ks, NEW its, NEW m, m = Fresh(kind, ks, its)
    PROVE  m = Seen(kind, 0, 0, 0, ks, its)
BY DEF Contract!NoNode, Seen, Fresh

\* Where a row or a child goes when its key goes to position p.
ItemAt(kind, p) == IF kind = "leaf" THEN p ELSE p + 1

\* With, on the keys and the items or children the tree sees (exports.go:16-57).
LEMMA WithIs ==
    ASSUME NEW kind, NEW pa, NEW l, NEW r, NEW keys, NEW items, NEW p \in Nat, NEW k, NEW item,
           NEW n, n = Seen(kind, pa, l, r, keys, items)
    PROVE  Contract!With(n, p, k, item)
             = Seen(kind, pa, l, r, Put(keys, p, k), Put(items, ItemAt(kind, p), item))
<1> DEFINE ks == Contract!Lib!InsertAt(keys, p + 1, k)
           at == IF n.kind = "leaf" THEN p + 1 ELSE p + 2
           its == Contract!Lib!InsertAt(items, at, item)
<1>1. n.kind = kind /\ n.keys = keys /\ n.items = items
  BY SeenFields
<1>2. Contract!With(n, p, k, item) = [n EXCEPT !.keys = Contract!Lib!InsertAt(n.keys, p + 1, k),
                                               !.items = Contract!Lib!InsertAt(n.items, at, item)]
  BY DEF Contract!With
<1>3. Contract!With(n, p, k, item) = [n EXCEPT !.keys = ks, !.items = its]
  BY <1>1, <1>2, Zenon
<1>4. ks = Put(keys, p, k)
  BY ContractPut, Zenon
<1>5. its = Put(items, ItemAt(kind, p), item)
  <2>1. at = ItemAt(kind, p) + 1
    BY <1>1 DEF ItemAt
  <2>. QED
    BY <2>1, ContractPut, Zenon
<1> HIDE DEF ks, its
<1>6. Holding(Seen(kind, pa, l, r, keys, items), ks, its) = Seen(kind, pa, l, r, ks, its)
  BY SeenHolding
<1>. QED
  BY <1>3, <1>4, <1>5, <1>6, Zenon DEF Holding

\* What may go into a node of this kind.
ItemFor(kind) == IF kind = "leaf" THEN Rows ELSE Children

\* Key k fits into a node that has these keys.
Entering(kind, keys, p, k, item) ==
    /\ kind \in {"leaf", "branch"} /\ keys \in Seq(Keys) /\ (kind = "branch" => Len(keys) > 0)
    /\ p \in 0 .. Len(keys) /\ k \in Keys /\ KeyFits(keys, p, k) /\ item \in ItemFor(kind)

Entered(kind, keys, p, k, item, n) ==
    /\ Contract!Total(n) = Len(keys) /\ n.kind = kind /\ p \in 0 .. Contract!Total(n) /\ p \in Nat
    /\ k \in Keys /\ Contract!Fits(n, p, k) /\ item \in Contract!Items(n)

\* What may go in is what the contract allows (bplus_tree.go:381-400).
LEMMA EnteringFits ==
    ASSUME NEW kind, NEW pa, NEW l, NEW r, NEW keys, NEW items, NEW p, NEW k, NEW item,
           Entering(kind, keys, p, k, item), NEW n, n = Seen(kind, pa, l, r, keys, items)
    PROVE  Entered(kind, keys, p, k, item, n)
<1>1. Contract!Total(n) = Len(keys) /\ n.kind = kind /\ n.keys = keys
  BY SeenFields
<1>2. p \in 0 .. Len(keys) /\ Len(keys) \in Nat
  BY DEF Entering
<1>3. Contract!Fits(n, p, k)
  BY <1>1 DEF Contract!Fits, Entering, KeyFits
<1>4. item \in Contract!Items(n)
  BY <1>1 DEF Contract!Items, Entering, ItemFor
<1>. QED
  BY <1>1, <1>2, <1>3, <1>4 DEF Entering, Entered

\* InsertAt with room for one more (exports.go:16-57).
LEMMA InsertKept ==
    ASSUME NEW kind, NEW pa, NEW l, NEW r, NEW keys, NEW items, NEW p, NEW k, NEW item,
           Entering(kind, keys, p, k, item), Len(keys) < Capacity,
           NEW n, n = Seen(kind, pa, l, r, keys, items),
           NEW m, m = Seen(kind, pa, l, r, Put(keys, p, k), Put(items, ItemAt(kind, p), item))
    PROVE  Contract!InsertAt(n, m)
<1>1. /\ Contract!Total(n) = Len(keys) /\ n.kind = kind /\ p \in 0 .. Contract!Total(n) /\ p \in Nat
      /\ k \in Keys /\ Contract!Fits(n, p, k) /\ item \in Contract!Items(n)
  <2>1. Entered(kind, keys, p, k, item, n)
    BY EnteringFits
  <2>. QED
    BY <2>1, Zenon DEF Entered
<1>2. m = Contract!With(n, p, k, item)
  BY <1>1, WithIs
<1>3. Contract!Total(m) = Len(Put(keys, p, k))
  BY SeenFields
<1>4. Len(Put(keys, p, k)) = Len(keys) + 1
  <2>1. keys \in Seq(Keys) /\ p \in 0 .. Len(keys) /\ k \in Keys
    BY DEF Entering
  <2>. QED
    BY <2>1, Inserted DEF InsertedAt
<1>5. Contract!Total(n) < Capacity /\ Contract!Total(m) = Contract!Total(n) + 1
  BY <1>1, <1>3, <1>4
<1>. QED
  BY <1>1, <1>2, <1>5, Zenon DEF Contract!InsertAt

\* The halves of a full node (bplus_tree.go:402-482).
LEMMA SplitKept ==
    ASSUME NEW kind, NEW pa, NEW l, NEW r, NEW keys, NEW items, NEW p, NEW k, NEW item,
           Entering(kind, keys, p, k, item), Len(keys) = Capacity,
           NEW ks, ks = Put(keys, p, k), NEW its, its = Put(items, ItemAt(kind, p), item),
           NEW up, up = IF kind = "leaf" THEN 0 ELSE 1,
           NEW n, n = Seen(kind, pa, l, r, keys, items),
           NEW m, \/ m = Seen(kind, pa, l, r, SubSeq(ks, 1, Half), SubSeq(its, 1, Half + up))
                  \/ m = Seen(kind, 0, 0, 0, SubSeq(ks, Half + 1 + up, Len(ks)),
                                             SubSeq(its, Half + 1 + up, Len(its)))
    PROVE  Contract!Split(n, m)
<1>1. /\ Contract!Total(n) = Len(keys) /\ n.kind = kind /\ p \in 0 .. Contract!Total(n) /\ p \in Nat
      /\ k \in Keys /\ Contract!Fits(n, p, k) /\ item \in Contract!Items(n)
  <2>1. Entered(kind, keys, p, k, item, n)
    BY EnteringFits
  <2>. QED
    BY <2>1, Zenon DEF Entered
<1> DEFINE all == Contract!With(n, p, k, item)
<1>2. all = Seen(kind, pa, l, r, ks, its)
  BY <1>1, WithIs
<1>0. /\ Capacity \in Nat /\ Half \in Nat /\ Half >= 2 /\ Half + 2 <= Capacity /\ Capacity + 1 - Half < Capacity
      /\ up \in {0, 1}
  BY HalfIs
<1>3. ks \in Seq(Keys) /\ Len(ks) = Capacity + 1
  <2>1. keys \in Seq(Keys) /\ p \in 0 .. Len(keys) /\ k \in Keys
    BY DEF Entering
  <2>2. ks \in Seq(Keys) /\ InsertedAt(ks, keys, p, k)
    BY <2>1, Inserted
  <2>. QED
    BY <2>2 DEF InsertedAt
<1>4. Contract!Total(n) = Capacity
  BY <1>1
<1> HIDE DEF all
<1>5. all.keys = ks /\ all.items = its
  BY <1>2, SeenFields
<1>6. Contract!Half = Half
  BY DEF Contract!Half, Half
<1>7. CASE m = Seen(kind, pa, l, r, SubSeq(ks, 1, Half), SubSeq(its, 1, Half + up))
  <2> DEFINE a == SubSeq(ks, 1, Half)
             b == SubSeq(its, 1, Half + up)
  <2>1. Len(a) = Half
    BY <1>0, <1>3
  <2> HIDE DEF a, b
  <2>2. m = Seen(kind, pa, l, r, a, b)
    BY <1>7 DEF a, b
  <2>3. Contract!Total(m) = Half
    BY <2>1, <2>2, SeenFields
  <2>4. m = [all EXCEPT !.keys = a, !.items = b]
    <3>1. Holding(Seen(kind, pa, l, r, ks, its), a, b) = Seen(kind, pa, l, r, a, b)
      BY SeenHolding
    <3>. QED
      BY <1>2, <2>2, <3>1, Zenon DEF Holding
  <2>5. m = [all EXCEPT !.keys = SubSeq(all.keys, 1, Half), !.items = SubSeq(all.items, 1, Half + up)]
    BY <1>5, <2>4, Zenon DEF a, b
  <2>6. Contract!Total(m) < Capacity
    BY <1>0, <2>3
  <2>7. m = [all EXCEPT !.keys = SubSeq(@, 1, Contract!Half),
                        !.items = SubSeq(@, 1, Contract!Half + IF n.kind = "leaf" THEN 0 ELSE 1)]
    BY <1>1, <1>6, <2>5, Zenon
  <2>. QED
    BY <1>1, <1>4, <2>6, <2>7, Zenon DEF Contract!Split, all
<1>8. CASE m = Seen(kind, 0, 0, 0, SubSeq(ks, Half + 1 + up, Len(ks)), SubSeq(its, Half + 1 + up, Len(its)))
  <2> DEFINE a == SubSeq(ks, Half + 1 + up, Len(ks))
             b == SubSeq(its, Half + 1 + up, Len(its))
  <2>1. Len(a) = (Capacity + 1) - Half - up
    BY <1>0, <1>3
  <2> HIDE DEF a, b
  <2>2. m = Seen(kind, 0, 0, 0, a, b)
    BY <1>8 DEF a, b
  <2>3. Contract!Total(m) = (Capacity + 1) - Half - up
    BY <2>1, <2>2, SeenFields
  <2>4. m = [Contract!NoNode EXCEPT !.kind = kind, !.keys = a, !.items = b]
    <3>1. Fresh(kind, a, b) = Seen(kind, 0, 0, 0, a, b)
      BY FreshSeen
    <3>. QED
      BY <2>2, <3>1, Zenon DEF Fresh
  <2>6. Contract!Total(m) < Capacity
    BY <1>0, <2>3
  <2>7. m = [Contract!NoNode EXCEPT !.kind = n.kind,
               !.keys = SubSeq(all.keys, Contract!Half + 1 + (IF n.kind = "leaf" THEN 0 ELSE 1), Len(all.keys)),
               !.items = SubSeq(all.items, Contract!Half + 1 + (IF n.kind = "leaf" THEN 0 ELSE 1), Len(all.items))]
    BY <1>1, <1>5, <1>6, <2>4, Zenon DEF a, b
  <2>. QED
    BY <1>1, <1>4, <2>6, <2>7, Zenon DEF Contract!Split, all
<1>. QED
  BY <1>7, <1>8

\* DeleteAt on a leaf (uint32_index_node_adapter.go:264-279).
LEMMA LeafDeleteKept ==
    ASSUME NEW pa, NEW l, NEW r, NEW keys \in Seq(Keys), NEW items, NEW p \in 0 .. Len(keys) - 1,
           NEW n, n = Seen("leaf", pa, l, r, keys, items),
           NEW m, m = Seen("leaf", pa, l, r, Take(keys, p), Take(items, p))
    PROVE  Contract!DeleteAt(n, m)
<1> DEFINE a == Take(keys, p)
           b == Take(items, p)
           i == p + 1
<1>1. n.kind = "leaf" /\ n.keys = keys /\ n.items = items /\ Contract!Total(n) = Len(keys)
  BY SeenFields
<1>2. Len(a) = Len(keys) - 1
  BY Removed DEF RemovedAt
<1> HIDE DEF a, b
<1>3. m = Seen("leaf", pa, l, r, a, b)
  BY DEF a, b
<1>4. Contract!Total(m) = Len(a)
  BY <1>3, SeenFields
<1>5. m = Holding(n, a, b)
  <2>1. Holding(Seen("leaf", pa, l, r, keys, items), a, b) = Seen("leaf", pa, l, r, a, b)
    BY SeenHolding
  <2>. QED
    BY <1>3, <2>1, Zenon
<1>6. i \in 1 .. Contract!Total(n)
  BY <1>1
<1>7. a = Contract!Lib!RemoveAt(n.keys, i) /\ b = Contract!Lib!RemoveAt(n.items, i)
  BY <1>1, ContractPut, Zenon DEF a, b
<1> HIDE DEF i
<1>8. m = [n EXCEPT !.keys = Contract!Lib!RemoveAt(@, i), !.items = Contract!Lib!RemoveAt(@, i)]
  BY <1>5, <1>7, Zenon DEF Holding
<1>9. Contract!Total(m) = Contract!Total(n) - 1
  BY <1>1, <1>2, <1>4
<1>. QED
  BY <1>1, <1>6, <1>8, <1>9, Zenon DEF Contract!DeleteAt

\* DeleteAt on a branch, of the first key, another one or the only one
\* (in_memory_adapter.go:222-237).
LEMMA BranchDeleteKept ==
    ASSUME NEW pa, NEW l, NEW r, NEW keys \in Seq(Keys), NEW items, NEW ks, NEW its,
           NEW n, n = Seen("branch", pa, l, r, keys, items),
           NEW m, m = Seen("branch", pa, l, r, ks, its),
           \/ Len(keys) > 1 /\ ks = Tail(keys) /\ its = Tail(items)
           \/ \E p \in 1 .. Len(keys) - 1 : ks = Take(keys, p) /\ its = Take(items, p + 1)
           \/ Len(keys) = 1 /\ ks = <<>> /\ its = <<>>
    PROVE  Contract!DeleteAt(n, m)
<1>1. n.kind = "branch" /\ n.keys = keys /\ n.items = items /\ Contract!Total(n) = Len(keys)
  BY SeenFields
<1>2. Contract!Total(m) = Len(ks)
  BY SeenFields
<1>3. m = Holding(n, ks, its)
  <2>1. Holding(Seen("branch", pa, l, r, keys, items), ks, its) = Seen("branch", pa, l, r, ks, its)
    BY SeenHolding
  <2>. QED
    BY <2>1, Zenon
<1>4. CASE Len(keys) > 1 /\ ks = Tail(keys) /\ its = Tail(items)
  <2>1. Len(Tail(keys)) = Len(keys) - 1
    BY <1>4
  <2>2. Contract!Total(m) = Contract!Total(n) - 1
    BY <2>1, <1>1, <1>2, <1>4
  <2>3. m = [n EXCEPT !.keys = Tail(@), !.items = Tail(@)]
    BY <1>1, <1>3, <1>4, Zenon DEF Holding
  <2>4. Contract!Total(n) > 1
    BY <1>1, <1>4
  <2>. QED
    BY <1>1, <2>2, <2>3, <2>4, Zenon DEF Contract!DeleteAt
<1>5. CASE \E p \in 1 .. Len(keys) - 1 : ks = Take(keys, p) /\ its = Take(items, p + 1)
  <2>0. PICK p \in 1 .. Len(keys) - 1 : ks = Take(keys, p) /\ its = Take(items, p + 1)
    BY <1>5
  <2> DEFINE i == p + 1
  <2>1. Len(ks) = Len(keys) - 1
    <3>1. p \in 0 .. Len(keys) - 1
      OBVIOUS
    <3>. QED
      BY <2>0, <3>1, Removed DEF RemovedAt
  <2>2. Contract!Total(m) = Contract!Total(n) - 1
    BY <2>1, <1>1, <1>2
  <2>3. i \in 2 .. Contract!Total(n) /\ Contract!Total(n) > 1
    BY <1>1
  <2>4. ks = Contract!Lib!RemoveAt(n.keys, i) /\ its = Contract!Lib!RemoveAt(n.items, i + 1)
    BY <1>1, <2>0, ContractPut, Zenon
  <2> HIDE DEF i
  <2>5. m = [n EXCEPT !.keys = Contract!Lib!RemoveAt(@, i), !.items = Contract!Lib!RemoveAt(@, i + 1)]
    BY <1>3, <2>4, Zenon DEF Holding
  <2>. QED
    BY <1>1, <2>2, <2>3, <2>5, Zenon DEF Contract!DeleteAt
<1>6. CASE Len(keys) = 1 /\ ks = <<>> /\ its = <<>>
  <2>1. Len(<<>>) = 0
    OBVIOUS
  <2>2. Contract!Total(m) = Contract!Total(n) - 1
    BY <2>1, <1>1, <1>2, <1>6
  <2>3. m = [n EXCEPT !.keys = <<>>, !.items = <<>>]
    BY <1>3, <1>6, Zenon DEF Holding
  <2>4. Contract!Total(n) = 1
    BY <1>1, <1>6
  <2>. QED
    BY <1>1, <2>2, <2>3, <2>4, Zenon DEF Contract!DeleteAt
<1>. QED
  BY <1>4, <1>5, <1>6

\* Shift (uint32_index_node_adapter.go:393-399).
LEMMA ShiftKept ==
    ASSUME NEW pa, NEW l, NEW r, NEW keys \in Seq(Keys), Len(keys) > 1, NEW items,
           NEW n, n = Seen("branch", pa, l, r, keys, items),
           NEW m, m = Seen("branch", pa, l, r, Tail(keys), Take(items, 1))
    PROVE  Contract!Shift(n, m)
<1> DEFINE a == Tail(keys)
           b == Take(items, 1)
<1>1. n.kind = "branch" /\ n.keys = keys /\ n.items = items /\ Contract!Total(n) = Len(keys)
  BY SeenFields
<1> HIDE DEF a, b
<1>2. m = Holding(n, a, b)
  <2>1. Holding(Seen("branch", pa, l, r, keys, items), a, b) = Seen("branch", pa, l, r, a, b)
    BY SeenHolding
  <2>. QED
    BY <2>1, Zenon DEF a, b
<1>3. b = Contract!Lib!RemoveAt(n.items, 2)
  <2>1. 1 + 1 = 2
    OBVIOUS
  <2>2. Contract!Lib!RemoveAt(n.items, 1 + 1) = Take(n.items, 1)
    BY ContractPut, Zenon
  <2>. QED
    BY <1>1, <2>1, <2>2, Zenon DEF b
<1>4. m = [n EXCEPT !.keys = Tail(@), !.items = Contract!Lib!RemoveAt(@, 2)]
  BY <1>1, <1>2, <1>3, Zenon DEF Holding, a
<1>5. Contract!Total(n) > 1
  BY <1>1
<1>. QED
  BY <1>1, <1>4, <1>5, Zenon DEF Contract!Shift

\* Unshift (uint32_index_node_adapter.go:434-447).
LEMMA UnshiftKept ==
    ASSUME NEW pa, NEW l, NEW r, NEW keys \in Seq(Keys), Len(keys) \in 1 .. Capacity - 1, NEW items,
           NEW k \in Keys, k < keys[1], NEW child \in Children,
           NEW n, n = Seen("branch", pa, l, r, keys, items),
           NEW m, m = Seen("branch", pa, l, r, <<k>> \o keys, <<child>> \o items)
    PROVE  Contract!Unshift(n, m)
<1> DEFINE a == <<k>> \o keys
           b == <<child>> \o items
<1>1. n.kind = "branch" /\ n.keys = keys /\ n.items = items /\ Contract!Total(n) = Len(keys)
  BY SeenFields
<1> HIDE DEF a, b
<1>2. m = Holding(n, a, b)
  <2>1. Holding(Seen("branch", pa, l, r, keys, items), a, b) = Seen("branch", pa, l, r, a, b)
    BY SeenHolding
  <2>. QED
    BY <2>1, Zenon DEF a, b
<1>3. m = [n EXCEPT !.keys = <<k>> \o @, !.items = <<child>> \o @]
  BY <1>1, <1>2, Zenon DEF Holding, a, b
<1>4. Contract!Total(n) \in 1 .. Capacity - 1 /\ k < n.keys[1]
  BY <1>1
<1>. QED
  BY <1>1, <1>3, <1>4, Zenon DEF Contract!Unshift

\* ReplaceKeyAt (uint32_index_node_adapter.go:362-373).
LEMMA ReplaceKept ==
    ASSUME NEW pa, NEW l, NEW r, NEW keys \in Seq(Keys), NEW items, NEW i \in 1 .. Len(keys),
           NEW k \in Keys, Ordered([keys EXCEPT ![i] = k]),
           NEW n, n = Seen("branch", pa, l, r, keys, items),
           NEW m, m = Seen("branch", pa, l, r, [keys EXCEPT ![i] = k], items)
    PROVE  Contract!ReplaceKeyAt(n, m)
<1> DEFINE a == [keys EXCEPT ![i] = k]
<1>1. n.kind = "branch" /\ n.keys = keys /\ n.items = items /\ Contract!Total(n) = Len(keys)
  BY SeenFields
<1>2. Ordered(a)
  OBVIOUS
<1>3. m = Seen("branch", pa, l, r, a, items)
  OBVIOUS
<1> HIDE DEF a
<1>4. m.keys = a
  BY <1>3, SeenFields
<1>5. m = [n EXCEPT !.keys = a]
  <2> DEFINE c == [n EXCEPT !.keys = a]
  <2>1. c = [Seen("branch", pa, l, r, keys, items) EXCEPT !.keys = a]
    OBVIOUS
  <2> HIDE DEF c
  <2>2. c = Seen("branch", pa, l, r, a, items)
    BY <2>1 DEF Seen
  <2>. QED
    BY <1>3, <2>2, Zenon DEF c
<1>6. m = [n EXCEPT !.keys[i] = k]
  <2>1. [n EXCEPT !.keys[i] = k] = [n EXCEPT !.keys = [n.keys EXCEPT ![i] = k]]
    OBVIOUS
  <2>. QED
    BY <1>1, <1>5, <2>1, Zenon DEF a
<1>7. Contract!Ascending(m.keys)
  BY <1>2, <1>4, Zenon DEF Ordered
<1>8. i \in 1 .. Contract!Total(n)
  BY <1>1
<1>. QED
  BY <1>1, <1>6, <1>7, <1>8, Zenon DEF Contract!ReplaceKeyAt

\* The setters of a node's links (uint32_index_node_adapter.go:205-225).
LEMMA LinkKept ==
    ASSUME NEW kind, kind # "none", NEW pa, NEW l, NEW r, NEW keys, NEW items, NEW id \in Links,
           NEW n, n = Seen(kind, pa, l, r, keys, items),
           NEW m, \/ m = Seen(kind, id, l, r, keys, items)
                  \/ m = Seen(kind, pa, id, r, keys, items)
                  \/ m = Seen(kind, pa, l, id, keys, items)
    PROVE  Contract!SetLink(n, m)
<1>1. n.kind = kind
  BY SeenFields
<1> DEFINE a == [n EXCEPT !.parent = id]
           b == [n EXCEPT !.left = id]
           c == [n EXCEPT !.right = id]
<1>2. /\ a = [Seen(kind, pa, l, r, keys, items) EXCEPT !.parent = id]
      /\ b = [Seen(kind, pa, l, r, keys, items) EXCEPT !.left = id]
      /\ c = [Seen(kind, pa, l, r, keys, items) EXCEPT !.right = id]
  OBVIOUS
<1> HIDE DEF a, b, c
<1>3. a = Seen(kind, id, l, r, keys, items)
  BY <1>2 DEF Seen
<1>4. b = Seen(kind, pa, id, r, keys, items)
  BY <1>2 DEF Seen
<1>5. c = Seen(kind, pa, l, id, keys, items)
  BY <1>2 DEF Seen
<1>6. m = a \/ m = b \/ m = c
  BY <1>3, <1>4, <1>5, Zenon
<1>. QED
  BY <1>1, <1>6, Zenon DEF Contract!SetLink, a, b, c

\* New nodes (uint32_index_node_adapter.go:115-136, 157-173).
LEMMA CreateKept ==
    ASSUME NEW n, n.kind = "none"
    PROVE  /\ Contract!CreateLeaf(n, Seen("leaf", 0, 0, 0, <<>>, <<>>))
           /\ \A k \in Keys, lt, gte \in Children :
                 Contract!CreateBranch(n, Seen("branch", 0, 0, 0, <<k>>, <<lt, gte>>))
<1>1. \A kind, ks, its : Fresh(kind, ks, its) = Seen(kind, 0, 0, 0, ks, its)
  BY FreshSeen
<1>2. Contract!CreateLeaf(n, Seen("leaf", 0, 0, 0, <<>>, <<>>))
  <2> DEFINE m == [Contract!NoNode EXCEPT !.kind = "leaf"]
  <2>1. m = [Contract!NoNode EXCEPT !.kind = "leaf"]
    OBVIOUS
  <2> HIDE DEF m
  <2>2. m = Seen("leaf", 0, 0, 0, <<>>, <<>>)
    BY <2>1 DEF Contract!NoNode, Seen
  <2>. QED
    BY <2>2, Zenon DEF Contract!CreateLeaf, m
<1>3. ASSUME NEW k \in Keys, NEW lt \in Children, NEW gte \in Children
      PROVE  Contract!CreateBranch(n, Seen("branch", 0, 0, 0, <<k>>, <<lt, gte>>))
  <2>1. Fresh("branch", <<k>>, <<lt, gte>>) = Seen("branch", 0, 0, 0, <<k>>, <<lt, gte>>)
    BY <1>1, Zenon
  <2>. QED
    BY <2>1, Zenon DEF Contract!CreateBranch, Fresh
<1>. QED
  BY <1>2, <1>3, Zenon

-----------------------------------------------------------------------------
(* Each operation of the adapters is one of the contract                   *)

\* The tree only asks for keys that keep the order, which ReplaceKeyAt relies on.
ContractInv == Inv /\ Ordered(KeysOf(es))

\* What a step has to show.
Keeping == Contract!Becomes(InMemory, InMemory') /\ Ordered(KeysOf(memory'.entries))

\* The node is a record of its fields.
LEMMA MemoryIs ==
    ASSUME Inv
    PROVE  memory = [kind |-> memory.kind, parent |-> memory.parent, left |-> memory.left,
                     right |-> memory.right, entries |-> memory.entries]
<1>1. PICK b : NodeIs(b, memory)
  BY DEF Inv
<1>. QED
  BY <1>1 DEF NodeIs, LeafIs, BranchIs, NoNode

\* What the tree sees before and after it.
LEMMA SeenNow ==
    /\ InMemory = Seen(memory.kind, memory.parent, memory.left, memory.right,
                       KeysOf(es), ItemsIn(memory.kind, es))
    /\ InMemory' = Seen(memory'.kind, memory'.parent, memory'.left, memory'.right,
                        KeysOf(memory'.entries), ItemsIn(memory'.kind, memory'.entries))
<1>1. \A m : View(m.kind, m.parent, m.left, m.right, m.entries)
               = Seen(m.kind, m.parent, m.left, m.right, KeysOf(m.entries), ItemsIn(m.kind, m.entries))
  BY ViewIs
<1>2. InMemory = View(memory.kind, memory.parent, memory.left, memory.right, memory.entries)
  BY Zenon DEF InMemory, es
<1>3. InMemory' = View(memory'.kind, memory'.parent, memory'.left, memory'.right, memory'.entries)
  BY Zenon DEF InMemory, es
<1>. QED
  BY <1>1, <1>2, <1>3, Zenon DEF es

\* A node that goes on with other entries.
LEMMA SeenAfter ==
    ASSUME Inv, NEW t, memory' = [memory EXCEPT !.entries = t]
    PROVE  /\ InMemory' = Seen(memory.kind, memory.parent, memory.left, memory.right,
                               KeysOf(t), ItemsIn(memory.kind, t))
           /\ memory'.entries = t
<1>1. memory = [kind |-> memory.kind, parent |-> memory.parent, left |-> memory.left,
                right |-> memory.right, entries |-> memory.entries]
  BY MemoryIs
<1>2. /\ memory'.kind = memory.kind /\ memory'.parent = memory.parent /\ memory'.left = memory.left
      /\ memory'.right = memory.right /\ memory'.entries = t
  BY <1>1
<1>. QED
  BY <1>2, SeenNow, Zenon

\* A new node.
LEMMA SeenNew ==
    ASSUME NEW kind, NEW t, memory' = Unlinked(kind, t)
    PROVE  InMemory' = Seen(kind, 0, 0, 0, KeysOf(t), ItemsIn(kind, t)) /\ memory'.entries = t
<1> DEFINE m == Unlinked(kind, t)
<1>1. memory' = m
  OBVIOUS
<1>2. m.kind = kind /\ m.parent = 0 /\ m.left = 0 /\ m.right = 0 /\ m.entries = t
  BY DEF Unlinked
<1> HIDE DEF m
<1>3. memory'.kind = kind /\ memory'.parent = 0 /\ memory'.left = 0 /\ memory'.right = 0 /\ memory'.entries = t
  BY <1>1, <1>2, Zenon
<1>. QED
  BY <1>3, SeenNow, Zenon

\* No key, or one, is in order: a new node (bplus_tree.go:101-113).
LEMMA OrderedNothing == Ordered(<<>>) /\ \A k : Ordered(<<k>>)
<1>1. Ordered(<<>>)
  BY DEF Ordered, Contract!Ascending
<1>2. ASSUME NEW k PROVE Ordered(<<k>>)
  BY DEF Ordered, Contract!Ascending
<1>. QED
  BY <1>1, <1>2

\* Before it is made there is no node, for the contract either
\* (uint32_index_node_adapter.go:108-113).
LEMMA InitKept == Init => Contract!Init /\ Ordered(KeysOf(es))
<1> SUFFICES ASSUME Init PROVE Contract!Init /\ Ordered(KeysOf(es))
  OBVIOUS
<1>1. memory.kind = "none" /\ memory.parent = 0 /\ memory.left = 0 /\ memory.right = 0 /\ es = <<>>
  BY DEF Init, NoNode, es
<1>2. InMemory = Seen("none", 0, 0, 0, KeysOf(<<>>), ItemsIn("none", <<>>))
  BY <1>1, SeenNow, Zenon
<1>3. KeysOf(<<>>) = <<>> /\ ItemsIn("none", <<>>) = <<>>
  BY NothingSeen DEF ItemsIn
<1>4. Contract!NoNode = Seen("none", 0, 0, 0, <<>>, <<>>)
  BY Zenon DEF Contract!NoNode, Seen
<1>. QED
  BY <1>1, <1>2, <1>3, <1>4, OrderedNothing, Zenon DEF Contract!Init

\* Creating a node (bplus_tree.go:101-113, 402-482).
LEMMA CreateKeeping ==
    ASSUME ContractInv, NEW was, CreatedLeaf(was) \/ (\E k \in Keys : CreatedBranch(was, k))
    PROVE  Keeping
<1>1. memory.kind = "none"
  BY Zenon DEF CreatedLeaf, CreatedBranch
<1>2. InMemory.kind = "none"
  <2> DEFINE n == InMemory
  <2>1. n = Seen(memory.kind, memory.parent, memory.left, memory.right, KeysOf(es), ItemsIn(memory.kind, es))
    BY SeenNow, Zenon
  <2> HIDE DEF n
  <2>2. n.kind = memory.kind
    BY <2>1, SeenFields
  <2>. QED
    BY <2>2, <1>1 DEF n
<1>3. CASE CreatedLeaf(was)
  <2>1. memory' = Unlinked("leaf", <<>>)
    <3>1. [NoNode EXCEPT !.kind = "leaf"] = Unlinked("leaf", <<>>)
      BY DEF NoNode, Unlinked
    <3>. QED
      BY <1>3, <3>1, Zenon DEF CreatedLeaf
  <2>2. InMemory' = Seen("leaf", 0, 0, 0, KeysOf(<<>>), ItemsIn("leaf", <<>>)) /\ memory'.entries = <<>>
    BY <2>1, SeenNew
  <2>3. KeysOf(<<>>) = <<>> /\ ItemsIn("leaf", <<>>) = <<>>
    BY NothingSeen DEF ItemsIn
  <2>4. InMemory' = Seen("leaf", 0, 0, 0, <<>>, <<>>)
    BY <2>2, <2>3, Zenon
  <2>5. Contract!CreateLeaf(InMemory, InMemory')
    BY <1>2, <2>4, CreateKept
  <2>. QED
    BY <2>2, <2>3, <2>5, OrderedNothing, Zenon DEF Keeping, Contract!Becomes
<1>4. CASE \E k \in Keys : CreatedBranch(was, k)
  <2>1. PICK k \in Keys : CreatedBranch(was, k)
    BY <1>4
  <2> DEFINE lt == FreeBlock({})
             gt == FreeBlock({lt})
             e == [key |-> k, lower |-> lt, greater |-> gt]
             t == <<e>>
  <2>2. lt \in Children /\ gt \in Children /\ lt \in ChildIDs /\ gt \in ChildIDs
    BY FirstChildrenAreBlocks, FreeBlockIsChild
  <2>3. memory' = Unlinked("branch", t)
    <3>1. memory' = [NoNode EXCEPT !.kind = "branch", !.entries = t]
      BY <2>1, Zenon DEF CreatedBranch
    <3>. QED
      BY <3>1, UnlinkedIs, Zenon
  <2> HIDE DEF lt, gt
  <2>4. e \in BranchEntry /\ e.key = k /\ e.lower = lt /\ e.greater = gt
    BY <2>2 DEF BranchEntry
  <2> HIDE DEF e
  <2>5. t \in Seq(BranchEntry) /\ Len(t) = 1 /\ t[1] = e /\ t # <<>> /\ DOMAIN t = 1 .. 1
    BY <2>4
  <2> HIDE DEF t
  <2>6. InMemory' = Seen("branch", 0, 0, 0, KeysOf(t), ItemsIn("branch", t)) /\ memory'.entries = t
    BY <2>3, SeenNew
  <2>7. KeysOf(t) = <<k>>
    <3>1. KeysOf(t) \in Seq(Keys) /\ Len(KeysOf(t)) = Len(t) /\ \A i \in 1 .. Len(t) : KeysOf(t)[i] = t[i].key
      BY <2>5, KeysAre, EntryKeys
    <3> DEFINE a == KeysOf(t)
    <3>2. a \in Seq(Keys) /\ Len(a) = 1 /\ a[1] = k
      BY <3>1, <2>4, <2>5
    <3> HIDE DEF a
    <3>3. a = <<k>>
      BY <3>2
    <3>. QED
      BY <3>3 DEF a
  <2>8. ItemsIn("branch", t) = <<lt, gt>>
    <3>1. /\ ChildrenOf(t) \in Seq(ChildIDs) /\ Len(ChildrenOf(t)) = Len(t) + 1 /\ ChildrenOf(t)[1] = t[1].lower
          /\ \A i \in 1 .. Len(t) : ChildrenOf(t)[i + 1] = t[i].greater
      <4>1. Len(t) > 0
        BY <2>5
      <4>. QED
        BY <4>1, <2>5, ChildrenAre
    <3> DEFINE a == ChildrenOf(t)
    <3>2. a \in Seq(ChildIDs) /\ Len(a) = 2 /\ a[1] = lt /\ a[2] = gt
      <4>1. 1 \in 1 .. Len(t) /\ 1 + 1 = 2
        BY <2>5
      <4>2. a[1 + 1] = t[1].greater
        BY <4>1, <3>1
      <4>. QED
        BY <3>1, <4>1, <4>2, <2>4, <2>5
    <3> HIDE DEF a
    <3>3. a = <<lt, gt>>
      BY <3>2
    <3>. QED
      BY <3>3 DEF a, ItemsIn
  <2>9. InMemory' = Seen("branch", 0, 0, 0, <<k>>, <<lt, gt>>)
    BY <2>6, <2>7, <2>8, Zenon
  <2>10. Contract!CreateBranch(InMemory, InMemory')
    BY <1>2, <2>2, <2>9, CreateKept
  <2>. QED
    BY <2>6, <2>7, <2>10, OrderedNothing, Zenon DEF Keeping, Contract!Becomes
<1>. QED
  BY <1>3, <1>4

\* Free (uint32_index_node_adapter.go:108-113).
LEMMA FreedKeeping == ASSUME ContractInv, Freed PROVE Keeping
<1>1. memory' = NoNode
  BY Zenon DEF Freed
<1>2. /\ memory'.kind = "none" /\ memory'.parent = 0 /\ memory'.left = 0 /\ memory'.right = 0
      /\ memory'.entries = <<>>
  BY <1>1 DEF NoNode
<1>3. InMemory' = Seen("none", 0, 0, 0, KeysOf(<<>>), ItemsIn("none", <<>>))
  BY <1>2, SeenNow, Zenon
<1>4. KeysOf(<<>>) = <<>> /\ ItemsIn("none", <<>>) = <<>>
  BY NothingSeen DEF ItemsIn
<1>5. Contract!NoNode = Seen("none", 0, 0, 0, <<>>, <<>>)
  BY Zenon DEF Contract!NoNode, Seen
<1>6. Contract!Free(InMemory, InMemory')
  BY <1>3, <1>4, <1>5, Zenon DEF Contract!Free
<1>. QED
  BY <1>2, <1>4, <1>6, OrderedNothing, Zenon DEF Keeping, Contract!Becomes

\* The setters of the links (uint32_index_node_adapter.go:205-225).
LEMMA SetLinkKeeping == ASSUME ContractInv, SetLink PROVE Keeping
<1>1. memory.kind # "none" /\ \E id \in Links : SetParentID(id) \/ SetLeftSiblingID(id) \/ SetRightSiblingID(id)
  BY Zenon DEF SetLink
<1>2. PICK id \in Links : SetParentID(id) \/ SetLeftSiblingID(id) \/ SetRightSiblingID(id)
  BY <1>1
<1>3. memory = [kind |-> memory.kind, parent |-> memory.parent, left |-> memory.left,
                right |-> memory.right, entries |-> memory.entries]
  BY MemoryIs DEF ContractInv
<1>4. /\ memory'.kind = memory.kind /\ memory'.entries = es
      /\ \/ memory'.parent = id /\ memory'.left = memory.left /\ memory'.right = memory.right
         \/ memory'.parent = memory.parent /\ memory'.left = id /\ memory'.right = memory.right
         \/ memory'.parent = memory.parent /\ memory'.left = memory.left /\ memory'.right = id
  BY <1>2, <1>3 DEF SetParentID, SetLeftSiblingID, SetRightSiblingID, es
<1> DEFINE keys == KeysOf(es)
           items == ItemsIn(memory.kind, es)
           n == InMemory
           m == InMemory'
<1>5. n = Seen(memory.kind, memory.parent, memory.left, memory.right, keys, items)
  BY SeenNow, Zenon
<1>6. m = Seen(memory.kind, memory'.parent, memory'.left, memory'.right, keys, items)
  BY <1>4, SeenNow, Zenon
<1> HIDE DEF keys, items, n, m
<1>7. \/ m = Seen(memory.kind, id, memory.left, memory.right, keys, items)
      \/ m = Seen(memory.kind, memory.parent, id, memory.right, keys, items)
      \/ m = Seen(memory.kind, memory.parent, memory.left, id, keys, items)
  BY <1>4, <1>6, Zenon
<1>8. Contract!SetLink(n, m)
  BY <1>1, <1>5, <1>7, LinkKept
<1>. QED
  BY <1>4, <1>8, Zenon DEF Keeping, Contract!Becomes, ContractInv, n, m, keys

\* What the operations of a leaf find.
LEMMA LeafSeen ==
    ASSUME ContractInv, memory.kind = "leaf"
    PROVE  /\ es \in Seq(Entries) /\ Len(es) <= Capacity /\ Len(es) \in Nat
           /\ KeysOf(es) \in Seq(Keys) /\ Len(KeysOf(es)) = Len(es)
           /\ (\A i \in 1 .. Len(es) : KeysOf(es)[i] = es[i].key) /\ Ordered(KeysOf(es))
           /\ InMemory = Seen("leaf", memory.parent, memory.left, memory.right, KeysOf(es), ItemsOf(es))
<1>2. es \in Seq(Entries) /\ Len(es) <= Capacity /\ Len(es) \in Nat
  BY LeafNow DEF ContractInv
<1>3. KeysOf(es) \in Seq(Keys) /\ Len(KeysOf(es)) = Len(es) /\ \A i \in 1 .. Len(es) : KeysOf(es)[i] = es[i].key
  BY <1>2, KeysAre, EntryKeys
<1>4. InMemory = Seen("leaf", memory.parent, memory.left, memory.right, KeysOf(es), ItemsOf(es))
  BY SeenNow, Zenon DEF ItemsIn
<1>. QED
  BY <1>2, <1>3, <1>4 DEF ContractInv

\* Place is KeyFits on the keys the tree sees (bplus_tree.go:381-400).
LEMMA PlaceFits ==
    ASSUME KeysOf(es) \in Seq(Keys), Len(KeysOf(es)) = Len(es),
           \A i \in 1 .. Len(es) : KeysOf(es)[i] = es[i].key,
           NEW p \in 0 .. Len(es), NEW k, Place(p, k)
    PROVE  KeyFits(KeysOf(es), p, k)
<1>1. Len(es) \in Nat /\ p \in Nat /\ p <= Len(es)
  OBVIOUS
<1>2. p > 0 => es[p].key < k
  BY DEF Place
<1>3. p < Len(es) => k < es[p + 1].key
  BY DEF Place
<1>4. p > 0 => KeysOf(es)[p] = es[p].key
  BY <1>1
<1>5. p < Len(es) => KeysOf(es)[p + 1] = es[p + 1].key
  BY <1>1
<1>. QED
  BY <1>2, <1>3, <1>4, <1>5 DEF KeyFits

\* InsertAt on a leaf (bplus_tree.go:381-423).
LEMMA LeafInsertKeeping ==
    ASSUME ContractInv, NEW p \in 0 .. Len(es), NEW e \in Entries, NEW was, LeafInsert(p, e, was)
    PROVE  Keeping
<1> DEFINE keys == KeysOf(es)
           items == ItemsOf(es)
           k == e.key
           t == Put(es, p, e)
           ks == Put(keys, p, k)
           its == Put(items, p, e.item)
           pa == memory.parent
           l == memory.left
           r == memory.right
<1>1. memory.kind = "leaf" /\ Place(p, k)
  BY Zenon DEF LeafInsert
<1>2. /\ es \in Seq(Entries) /\ Len(es) <= Capacity /\ Len(es) \in Nat
      /\ keys \in Seq(Keys) /\ Len(keys) = Len(es)
      /\ (\A i \in 1 .. Len(es) : keys[i] = es[i].key) /\ Ordered(keys)
      /\ InMemory = Seen("leaf", pa, l, r, keys, items)
  BY <1>1, LeafSeen
<1>3. KeyFits(keys, p, k)
  BY <1>1, <1>2, PlaceFits
<1>4. k \in Keys /\ e.item \in Rows
  BY EntryKeys DEF Rows
<1>5. Entering("leaf", keys, p, k, e.item)
  BY <1>2, <1>3, <1>4 DEF Entering, ItemFor
<1>6. KeysOf(t) = ks
  BY <1>2, EntryKeys, KeysPut
<1>7. ItemsOf(t) = its
  BY <1>2, ItemsPut
<1>8. Ordered(ks) /\ ks \in Seq(Keys) /\ Len(ks) = Len(es) + 1
  <2>1. p \in 0 .. Len(keys)
    BY <1>2
  <2>2. Ordered(ks)
    BY <2>1, <1>2, <1>3, <1>4, OrderedPut
  <2>3. ks \in Seq(Keys) /\ InsertedAt(ks, keys, p, k)
    BY <2>1, <1>2, <1>4, Inserted
  <2>. QED
    BY <2>2, <2>3, <1>2 DEF InsertedAt
<1>9. ItemAt("leaf", p) = p
  BY DEF ItemAt
<1>10. CASE Len(es) < Capacity
  <2>1. memory' = [memory EXCEPT !.entries = t]
    BY <1>10, Zenon DEF LeafInsert, Became, Put
  <2> HIDE DEF t
  <2>2. InMemory' = Seen("leaf", pa, l, r, KeysOf(t), ItemsIn("leaf", t)) /\ memory'.entries = t
    BY <2>1, <1>1, SeenAfter DEF ContractInv
  <2>3. InMemory' = Seen("leaf", pa, l, r, ks, Put(items, ItemAt("leaf", p), e.item))
    BY <2>2, <1>6, <1>7, <1>9, Zenon DEF ItemsIn
  <2>4. Len(keys) < Capacity
    BY <1>2, <1>10
  <2> HIDE DEF keys, items, k
  <2>5. Contract!InsertAt(InMemory, InMemory')
    BY <2>3, <2>4, <1>2, <1>5, InsertKept
  <2>. QED
    BY <2>2, <2>5, <1>6, <1>8, Zenon DEF Keeping, Contract!Becomes
<1>11. CASE ~(Len(es) < Capacity)
  <2>0. Len(es) = Capacity
    BY <1>2, <1>11, NodesAssumption
  <2> DEFINE memories == MemoryLeafSplit(es, p, e)
             ml == memories.left
             mr == memories.right
  <2>1. BecameHalf(LeafSplit(block, was, p, e), memories)
    BY <1>11, Zenon DEF LeafInsert
  <2>2. \/ memory' = [memory EXCEPT !.entries = ml]
        \/ memory' = [NoNode EXCEPT !.kind = "leaf", !.entries = mr]
    BY <2>1, <1>1, Zenon DEF BecameHalf, Became
  <2>3. ml = SubSeq(t, 1, Half) /\ mr = SubSeq(t, Half + 1, Capacity + 1)
    BY <2>0, <1>2, LeafHalves
  <2> HIDE DEF ml, mr, memories
  <2>4. /\ t \in Seq(Entries) /\ Len(t) = Capacity + 1
    <3>1. t \in Seq(Entries) /\ InsertedAt(t, es, p, e)
      BY <1>2, Inserted
    <3>. QED
      BY <3>1, <2>0 DEF InsertedAt
  <2>5. /\ Capacity \in Nat /\ Half \in Nat /\ 0 \in Nat /\ 0 <= Half /\ Half <= Capacity + 1 /\ 0 + 1 = 1
        /\ Capacity + 1 \in Nat /\ Half + 1 + 0 = Half + 1 /\ Half + 0 = Half
    BY HalfIs
  <2>6. Len(ks) = Capacity + 1
    BY <1>8, <2>0
  <2> HIDE DEF t, keys, items
  <2>7. KeysOf(ml) = SubSeq(ks, 1, Half) /\ ItemsOf(ml) = SubSeq(its, 1, Half)
    <3>1. KeysOf(SubSeq(t, 0 + 1, Half)) = SubSeq(KeysOf(t), 0 + 1, Half)
      BY <2>4, <2>5, LeafPart
    <3>2. ItemsOf(SubSeq(t, 0 + 1, Half)) = SubSeq(ItemsOf(t), 0 + 1, Half)
      BY <2>4, <2>5, LeafPart
    <3>. QED
      BY <3>1, <3>2, <2>3, <2>5, <1>6, <1>7, Zenon
  <2>8. /\ KeysOf(mr) = SubSeq(ks, Half + 1, Capacity + 1) /\ ItemsOf(mr) = SubSeq(its, Half + 1, Capacity + 1)
    <3>1. KeysOf(SubSeq(t, Half + 1, Capacity + 1)) = SubSeq(KeysOf(t), Half + 1, Capacity + 1)
      BY <2>4, <2>5, LeafPart
    <3>2. ItemsOf(SubSeq(t, Half + 1, Capacity + 1)) = SubSeq(ItemsOf(t), Half + 1, Capacity + 1)
      BY <2>4, <2>5, LeafPart
    <3>. QED
      BY <3>1, <3>2, <2>3, <1>6, <1>7, Zenon
  <2>9. Len(its) = Capacity + 1
    <3>1. ItemsOf(t) \in Seq(Rows) /\ Len(ItemsOf(t)) = Len(t)
      BY <2>4, ItemsAre
    <3>. QED
      BY <3>1, <2>4, <1>7
  <2>10. Ordered(KeysOf(ml)) /\ Ordered(KeysOf(mr))
    <3>1. PartOf(SubSeq(ks, 0 + 1, Half), ks, 0, Half)
      BY <2>5, <2>6, <1>8, SubSeqIsPart
    <3>2. PartOf(SubSeq(ks, Half + 1, Capacity + 1), ks, Half, Capacity + 1)
      BY <2>5, <2>6, <1>8, SubSeqIsPart
    <3>3. Ordered(SubSeq(ks, 0 + 1, Half))
      BY <3>1, <2>5, <2>6, <1>8, OrderedPart
    <3>4. Ordered(SubSeq(ks, Half + 1, Capacity + 1))
      BY <3>2, <2>5, <2>6, <1>8, OrderedPart
    <3>. QED
      BY <3>3, <3>4, <2>5, <2>7, <2>8, Zenon
  <2> DEFINE n == InMemory
             m == InMemory'
  <2>11. /\ \/ m = Seen("leaf", pa, l, r, KeysOf(ml), ItemsIn("leaf", ml)) /\ memory'.entries = ml
            \/ m = Seen("leaf", 0, 0, 0, KeysOf(mr), ItemsIn("leaf", mr)) /\ memory'.entries = mr
    <3>1. CASE memory' = [memory EXCEPT !.entries = ml]
      BY <3>1, <1>1, SeenAfter DEF ContractInv
    <3>2. CASE memory' = [NoNode EXCEPT !.kind = "leaf", !.entries = mr]
      <4>1. memory' = Unlinked("leaf", mr)
        BY <3>2, UnlinkedIs, Zenon
      <4>. QED
        BY <4>1, SeenNew
    <3>. QED
      BY <3>1, <3>2, <2>2
  <2>12. Ordered(KeysOf(memory'.entries))
    BY <2>10, <2>11, Zenon
  <2>13. n = Seen("leaf", pa, l, r, keys, items)
    BY <1>2, Zenon DEF keys, items
  <2> DEFINE up == 0
  <2>14. \/ m = Seen("leaf", pa, l, r, SubSeq(ks, 1, Half), SubSeq(its, 1, Half + up))
         \/ m = Seen("leaf", 0, 0, 0, SubSeq(ks, Half + 1 + up, Len(ks)), SubSeq(its, Half + 1 + up, Len(its)))
    BY <2>5, <2>6, <2>7, <2>8, <2>9, <2>11, Zenon DEF ItemsIn
  <2>15. its = Put(items, ItemAt("leaf", p), e.item) /\ up = (IF "leaf" = "leaf" THEN 0 ELSE 1)
    BY <1>9, Zenon
  <2>16. Len(keys) = Capacity /\ ks = Put(keys, p, k)
    BY <1>2, <2>0
  <2>17. Entering("leaf", keys, p, k, e.item)
    BY <1>5
  <2> HIDE DEF n, m, k, ks, its, up, pa, l, r
  <2>18. Contract!Split(n, m)
    BY <2>13, <2>14, <2>15, <2>16, <2>17, SplitKept
  <2>. QED
    BY <2>12, <2>18, Zenon DEF Keeping, Contract!Becomes, n, m
<1>. QED
  BY <1>10, <1>11

\* DeleteAt on a leaf (uint32_index_node_adapter.go:264-279).
LEMMA LeafDeleteKeeping ==
    ASSUME ContractInv, NEW p \in 0 .. Len(es) - 1, LeafDelete(p)
    PROVE  Keeping
<1> DEFINE keys == KeysOf(es)
           items == ItemsOf(es)
           t == Take(es, p)
           pa == memory.parent
           l == memory.left
           r == memory.right
<1>1. memory.kind = "leaf"
  BY Zenon DEF LeafDelete
<1>2. /\ es \in Seq(Entries) /\ Len(es) \in Nat
      /\ keys \in Seq(Keys) /\ Len(keys) = Len(es) /\ Ordered(keys)
      /\ InMemory = Seen("leaf", pa, l, r, keys, items)
  BY <1>1, LeafSeen
<1>3. KeysOf(t) = Take(keys, p) /\ ItemsOf(t) = Take(items, p)
  BY <1>2, LeafTake
<1>4. memory' = [memory EXCEPT !.entries = t]
  BY Zenon DEF LeafDelete, Became, Take
<1> HIDE DEF t
<1>5. InMemory' = Seen("leaf", pa, l, r, KeysOf(t), ItemsIn("leaf", t)) /\ memory'.entries = t
  BY <1>1, <1>4, SeenAfter DEF ContractInv
<1>6. InMemory' = Seen("leaf", pa, l, r, Take(keys, p), Take(items, p))
  BY <1>3, <1>5, Zenon DEF ItemsIn
<1>7. p \in 0 .. Len(keys) - 1
  BY <1>2
<1> HIDE DEF keys, items
<1>8. Contract!DeleteAt(InMemory, InMemory')
  BY <1>2, <1>6, <1>7, LeafDeleteKept
<1>9. Ordered(Take(keys, p))
  BY <1>2, <1>7, OrderedTake
<1>. QED
  BY <1>3, <1>5, <1>8, <1>9, Zenon DEF Keeping, Contract!Becomes

\* What the operations of a branch find (uint32_index_node_adapter.go:293-330).
LEMMA BranchSeen ==
    ASSUME ContractInv, memory.kind = "branch"
    PROVE  /\ es \in Seq(BranchEntry) /\ Len(es) <= Capacity /\ Len(es) \in Nat /\ Shared(es)
           /\ KeysOf(es) \in Seq(Keys) /\ Len(KeysOf(es)) = Len(es)
           /\ (\A i \in 1 .. Len(es) : KeysOf(es)[i] = es[i].key) /\ Ordered(KeysOf(es))
           /\ InMemory = Seen("branch", memory.parent, memory.left, memory.right, KeysOf(es), ChildrenOf(es))
<1>0. es \in Seq(BranchEntry) /\ Len(es) <= Capacity /\ Len(es) \in Nat /\ \E b : BranchHas(b, es)
  BY BranchNow DEF ContractInv
<1>1. PICK b : es \in Seq(BranchEntry) /\ Len(es) <= Capacity /\ Len(es) \in Nat /\ BranchHas(b, es)
  BY <1>0
<1>2. Shared(es)
  BY <1>1, NeighboursShare DEF Shared
<1>3. KeysOf(es) \in Seq(Keys) /\ Len(KeysOf(es)) = Len(es) /\ \A i \in 1 .. Len(es) : KeysOf(es)[i] = es[i].key
  BY <1>1, KeysAre, EntryKeys
<1>4. InMemory = Seen("branch", memory.parent, memory.left, memory.right, KeysOf(es), ChildrenOf(es))
  BY SeenNow, Zenon DEF ItemsIn
<1>. QED
  BY <1>1, <1>2, <1>3, <1>4 DEF ContractInv

\* A branch that goes on with other entries, as the tree sees it.
LEMMA BranchSeenAfter ==
    ASSUME ContractInv, memory.kind = "branch", NEW t, memory' = [memory EXCEPT !.entries = t]
    PROVE  /\ InMemory' = Seen("branch", memory.parent, memory.left, memory.right, KeysOf(t), ChildrenOf(t))
           /\ memory'.entries = t
<1>1. /\ InMemory' = Seen("branch", memory.parent, memory.left, memory.right, KeysOf(t), ItemsIn("branch", t))
      /\ memory'.entries = t
  BY SeenAfter DEF ContractInv
<1>. QED
  BY <1>1, Zenon DEF ItemsIn

\* InsertAt on a branch (bplus_tree.go:381-400, 425-482).
LEMMA BranchInsertKeeping ==
    ASSUME ContractInv, NEW p \in 0 .. Len(es), NEW k \in Keys, NEW was, BranchInsert(p, k, was)
    PROVE  Keeping
<1> DEFINE keys == KeysOf(es)
           items == ChildrenOf(es)
           child == NewChild
           t == MemoryInsertAt(es, p, k, child)
           ks == Put(keys, p, k)
           cs == Put(items, p + 1, child)
           pa == memory.parent
           l == memory.left
           r == memory.right
<1>1. memory.kind = "branch" /\ es # <<>> /\ Place(p, k)
  BY Zenon DEF BranchInsert
<1>2. /\ es \in Seq(BranchEntry) /\ Len(es) <= Capacity /\ Len(es) \in Nat /\ Shared(es)
      /\ keys \in Seq(Keys) /\ Len(keys) = Len(es)
      /\ (\A i \in 1 .. Len(es) : keys[i] = es[i].key) /\ Ordered(keys)
      /\ InMemory = Seen("branch", pa, l, r, keys, items)
  BY <1>1, BranchSeen
<1>3. Len(es) > 0
  BY <1>1, <1>2
<1>4. child \in Children /\ child \in ChildIDs
  BY <1>1, <1>3, NewChildIsBlock DEF ContractInv
<1> HIDE DEF child
<1>5. KeyFits(keys, p, k)
  BY <1>1, <1>2, PlaceFits
<1>6. Entering("branch", keys, p, k, child)
  BY <1>2, <1>3, <1>4, <1>5 DEF Entering, ItemFor
<1>7. Ordered(ks)
  <2>1. p \in 0 .. Len(keys)
    BY <1>2
  <2>. QED
    BY <2>1, <1>2, <1>5, OrderedPut
<1>8. ItemAt("branch", p) = p + 1
  BY DEF ItemAt
<1>9. CASE Len(es) < Capacity
  <2>1. memory' = [memory EXCEPT !.entries = t]
    BY <1>9, Zenon DEF BranchInsert, Became, child
  <2>2. KeysOf(t) = ks /\ ChildrenOf(t) = cs
    BY <1>2, <1>3, <1>4, BranchPut
  <2> HIDE DEF t
  <2>3. InMemory' = Seen("branch", pa, l, r, KeysOf(t), ChildrenOf(t)) /\ memory'.entries = t
    BY <2>1, <1>1, BranchSeenAfter
  <2>4. InMemory' = Seen("branch", pa, l, r, ks, Put(items, ItemAt("branch", p), child))
    BY <2>2, <2>3, <1>8, Zenon
  <2>5. Len(keys) < Capacity
    BY <1>2, <1>9
  <2> HIDE DEF keys, items
  <2>6. Contract!InsertAt(InMemory, InMemory')
    BY <2>4, <2>5, <1>2, <1>6, InsertKept
  <2>. QED
    BY <2>2, <2>3, <2>6, <1>7, Zenon DEF Keeping, Contract!Becomes
<1>10. CASE ~(Len(es) < Capacity)
  <2>0. Len(es) = Capacity
    BY <1>2, <1>10, NodesAssumption
  <2> DEFINE memories == MemoryBranchSplit(es, p, k, child)
             ml == memories.left
             mr == memories.right
  <2>1. BecameHalf(BranchSplit(block, was, p, k, child), memories)
    BY <1>10, Zenon DEF BranchInsert, child
  <2>2. \/ memory' = [memory EXCEPT !.entries = ml]
        \/ memory' = [NoNode EXCEPT !.kind = "branch", !.entries = mr]
    BY <2>1, <1>1, Zenon DEF BecameHalf, Became
  <2>3. /\ KeysOf(ml) = SubSeq(ks, 1, Half) /\ ChildrenOf(ml) = SubSeq(cs, 1, Half + 1)
        /\ KeysOf(mr) = SubSeq(ks, Half + 2, Capacity + 1)
        /\ ChildrenOf(mr) = SubSeq(cs, Half + 2, Capacity + 2)
        /\ ks \in Seq(Keys) /\ Len(ks) = Capacity + 1 /\ Len(cs) = Capacity + 2
        /\ PartOf(KeysOf(ml), ks, 0, Half) /\ PartOf(KeysOf(mr), ks, Half + 1, Capacity + 1)
    BY <2>0, <1>2, <1>4, BranchHalves
  <2> HIDE DEF ml, mr, memories
  <2>4. /\ Capacity \in Nat /\ Half \in Nat /\ 0 \in Nat /\ 0 <= Half /\ Half <= Capacity + 1
        /\ Capacity + 1 \in Nat /\ Half + 1 \in Nat /\ Half + 1 <= Capacity + 1 /\ Half + 1 + 1 = Half + 2
    BY HalfIs
  <2> HIDE DEF t, keys, items
  <2>5. Ordered(KeysOf(ml)) /\ Ordered(KeysOf(mr))
    <3> HIDE DEF ks, cs
    <3>1. Ordered(KeysOf(ml))
      BY <2>3, <2>4, <1>7, OrderedPart
    <3>2. Ordered(KeysOf(mr))
      BY <2>3, <2>4, <1>7, OrderedPart
    <3>. QED
      BY <3>1, <3>2
  <2> DEFINE n == InMemory
             m == InMemory'
  <2>6. \/ m = Seen("branch", pa, l, r, KeysOf(ml), ChildrenOf(ml)) /\ memory'.entries = ml
        \/ m = Seen("branch", 0, 0, 0, KeysOf(mr), ChildrenOf(mr)) /\ memory'.entries = mr
    <3>1. CASE memory' = [memory EXCEPT !.entries = ml]
      BY <3>1, <1>1, BranchSeenAfter
    <3>2. CASE memory' = [NoNode EXCEPT !.kind = "branch", !.entries = mr]
      <4>1. memory' = Unlinked("branch", mr)
        BY <3>2, UnlinkedIs, Zenon
      <4>2. m = Seen("branch", 0, 0, 0, KeysOf(mr), ItemsIn("branch", mr)) /\ memory'.entries = mr
        BY <4>1, SeenNew
      <4>. QED
        BY <4>2, Zenon DEF ItemsIn
    <3>. QED
      BY <3>1, <3>2, <2>2
  <2>7. Ordered(KeysOf(memory'.entries))
    BY <2>5, <2>6, Zenon
  <2>8. n = Seen("branch", pa, l, r, keys, items)
    BY <1>2, Zenon DEF keys, items
  <2> DEFINE up == 1
  <2>9. \/ m = Seen("branch", pa, l, r, SubSeq(ks, 1, Half), SubSeq(cs, 1, Half + up))
        \/ m = Seen("branch", 0, 0, 0, SubSeq(ks, Half + 1 + up, Len(ks)), SubSeq(cs, Half + 1 + up, Len(cs)))
    BY <2>3, <2>4, <2>6, Zenon
  <2>10. cs = Put(items, ItemAt("branch", p), child) /\ up = (IF "branch" = "leaf" THEN 0 ELSE 1)
    <3>1. ("branch" = "leaf") = FALSE
      OBVIOUS
    <3>. QED
      BY <3>1, <1>8, Zenon
  <2>11. Len(keys) = Capacity /\ ks = Put(keys, p, k)
    BY <1>2, <2>0
  <2> HIDE DEF n, m, ks, cs, up, pa, l, r
  <2>12. Contract!Split(n, m)
    BY <2>8, <2>9, <2>10, <2>11, <1>6, SplitKept
  <2>. QED
    BY <2>7, <2>12, Zenon DEF Keeping, Contract!Becomes, n, m
<1>. QED
  BY <1>9, <1>10

\* DeleteAt on a branch, in the middle too (in_memory_adapter.go:222-237).
LEMMA BranchDeleteKeeping ==
    ASSUME ContractInv, NEW p \in 0 .. Len(es) - 1, BranchDelete(p)
    PROVE  Keeping
<1> DEFINE keys == KeysOf(es)
           items == ChildrenOf(es)
           t == MemoryDeleteAt(es, p)
           pa == memory.parent
           l == memory.left
           r == memory.right
<1>1. memory.kind = "branch"
  BY Zenon DEF BranchDelete
<1>2. /\ es \in Seq(BranchEntry) /\ Len(es) \in Nat /\ Shared(es)
      /\ keys \in Seq(Keys) /\ Len(keys) = Len(es) /\ Ordered(keys)
      /\ InMemory = Seen("branch", pa, l, r, keys, items)
  BY <1>1, BranchSeen
<1>3. memory' = [memory EXCEPT !.entries = t]
  BY Zenon DEF BranchDelete, Became
<1>4. Len(es) = 1 => t = <<>>
  <2> SUFFICES ASSUME Len(es) = 1 PROVE t = <<>>
    OBVIOUS
  <2>1. p = 0 /\ ~(p > 0)
    BY <1>2
  <2>2. t = Take(es, p)
    BY <2>1, Zenon DEF MemoryDeleteAt, Take
  <2> HIDE DEF t
  <2>3. t \in Seq(BranchEntry) /\ RemovedAt(t, es, p)
    BY <1>2, <2>2, Removed
  <2>4. t \in Seq(BranchEntry) /\ Len(t) = 0
    BY <2>3 DEF RemovedAt
  <2>. QED
    BY <2>4
<1>5. t = MemoryDeleteAt(es, p)
  OBVIOUS
<1> HIDE DEF t
<1>6. InMemory' = Seen("branch", pa, l, r, KeysOf(t), ChildrenOf(t)) /\ memory'.entries = t
  BY <1>1, <1>3, BranchSeenAfter
<1>7. CASE Len(es) = 1
  <2>1. t = <<>>
    BY <1>4, <1>7
  <2>2. KeysOf(t) = <<>> /\ ChildrenOf(t) = <<>>
    BY <2>1, NothingSeen
  <2>3. Len(keys) = 1
    BY <1>2, <1>7
  <2> HIDE DEF keys, items
  <2>4. Contract!DeleteAt(InMemory, InMemory')
    BY <1>2, <1>6, <2>2, <2>3, BranchDeleteKept
  <2>. QED
    BY <1>6, <2>2, <2>4, OrderedNothing, Zenon DEF Keeping, Contract!Becomes
<1>8. CASE Len(es) # 1
  <2>1. Len(es) > 1 /\ Len(keys) > 1 /\ Len(keys) \in Nat /\ p \in 0 .. Len(keys) - 1
    BY <1>2, <1>8
  <2>2. \/ p = 0 /\ KeysOf(t) = Tail(keys) /\ ChildrenOf(t) = Tail(items)
        \/ p # 0 /\ KeysOf(t) = Take(keys, p) /\ ChildrenOf(t) = Take(items, p + 1)
    BY <2>1, <1>2, <1>5, BranchTake
  <2>3. Ordered(Tail(keys))
    <3>1. Len(Tail(keys)) = Len(keys) - 1 /\ \A i \in 1 .. Len(keys) - 1 : Tail(keys)[i] = keys[1 + i]
      BY <1>2, <2>1
    <3>2. PartOf(Tail(keys), keys, 1, Len(keys))
      BY <3>1, <2>1 DEF PartOf
    <3>3. 1 \in Nat /\ 1 <= Len(keys) /\ Len(keys) <= Len(keys)
      BY <2>1
    <3> HIDE DEF keys
    <3>. QED
      BY <3>2, <3>3, <2>1, <1>2, OrderedPart
  <2> DEFINE ks == KeysOf(t)
             its == ChildrenOf(t)
  <2> HIDE DEF keys
  <2>4. Ordered(Take(keys, p))
    BY <1>2, <2>1, OrderedTake
  <2>5. Ordered(ks)
    BY <2>2, <2>3, <2>4, Zenon
  <2>6. \/ Len(keys) > 1 /\ ks = Tail(keys) /\ its = Tail(items)
        \/ \E q \in 1 .. Len(keys) - 1 : ks = Take(keys, q) /\ its = Take(items, q + 1)
        \/ Len(keys) = 1 /\ ks = <<>> /\ its = <<>>
    <3>1. p # 0 => p \in 1 .. Len(keys) - 1
      BY <2>1
    <3>. QED
      BY <2>1, <2>2, <3>1, Zenon
  <2>7. InMemory' = Seen("branch", pa, l, r, ks, its)
    BY <1>6
  <2> HIDE DEF items, ks, its
  <2>8. Contract!DeleteAt(InMemory, InMemory')
    BY <1>2, <2>6, <2>7, BranchDeleteKept
  <2>. QED
    BY <1>6, <2>5, <2>8, Zenon DEF Keeping, Contract!Becomes, ks
<1>. QED
  BY <1>7, <1>8

\* Shift (uint32_index_node_adapter.go:393-399).
LEMMA BranchShiftsKeeping == ASSUME ContractInv, BranchShifts PROVE Keeping
<1> DEFINE keys == KeysOf(es)
           items == ChildrenOf(es)
           t == MemoryShift(es)
           pa == memory.parent
           l == memory.left
           r == memory.right
<1>1. memory.kind = "branch" /\ Len(es) > 1 /\ memory' = [memory EXCEPT !.entries = t]
  BY Zenon DEF BranchShifts, Became
<1>2. /\ es \in Seq(BranchEntry) /\ Len(es) \in Nat
      /\ keys \in Seq(Keys) /\ Len(keys) = Len(es) /\ Ordered(keys)
      /\ InMemory = Seen("branch", pa, l, r, keys, items)
  BY <1>1, BranchSeen
<1>3. KeysOf(t) = Tail(keys) /\ ChildrenOf(t) = Take(items, 1)
  BY <1>1, <1>2, BranchShiftTakes
<1> HIDE DEF t
<1>4. InMemory' = Seen("branch", pa, l, r, KeysOf(t), ChildrenOf(t)) /\ memory'.entries = t
  BY <1>1, BranchSeenAfter
<1>5. InMemory' = Seen("branch", pa, l, r, Tail(keys), Take(items, 1))
  BY <1>3, <1>4, Zenon
<1>6. Len(keys) > 1 /\ Len(keys) \in Nat
  BY <1>1, <1>2
<1> HIDE DEF keys, items
<1>7. Contract!Shift(InMemory, InMemory')
  BY <1>2, <1>5, <1>6, ShiftKept
<1>8. Ordered(Tail(keys))
  <2>1. Len(Tail(keys)) = Len(keys) - 1 /\ \A i \in 1 .. Len(keys) - 1 : Tail(keys)[i] = keys[1 + i]
    BY <1>2, <1>6
  <2>2. PartOf(Tail(keys), keys, 1, Len(keys))
    BY <2>1, <1>6 DEF PartOf
  <2>3. 1 \in Nat /\ 1 <= Len(keys) /\ Len(keys) <= Len(keys)
    BY <1>6
  <2>. QED
    BY <2>2, <2>3, <1>6, <1>2, OrderedPart
<1>. QED
  BY <1>3, <1>4, <1>7, <1>8, Zenon DEF Keeping, Contract!Becomes

\* Unshift (uint32_index_node_adapter.go:434-447).
LEMMA BranchUnshiftsKeeping == ASSUME ContractInv, NEW k \in Keys, BranchUnshifts(k) PROVE Keeping
<1> DEFINE keys == KeysOf(es)
           items == ChildrenOf(es)
           child == NewChild
           t == MemoryUnshift(es, k, child)
           pa == memory.parent
           l == memory.left
           r == memory.right
<1>1. /\ memory.kind = "branch" /\ Len(es) \in 1 .. Capacity - 1 /\ Place(0, k)
      /\ memory' = [memory EXCEPT !.entries = t]
  BY Zenon DEF BranchUnshifts, Became
<1>2. /\ es \in Seq(BranchEntry) /\ Len(es) \in Nat
      /\ keys \in Seq(Keys) /\ Len(keys) = Len(es)
      /\ (\A i \in 1 .. Len(es) : keys[i] = es[i].key) /\ Ordered(keys)
      /\ InMemory = Seen("branch", pa, l, r, keys, items)
  BY <1>1, BranchSeen
<1>3. Len(es) > 0 /\ 0 \in 0 .. Len(es) /\ Len(keys) \in 1 .. Capacity - 1 /\ 0 \in 0 .. Len(keys)
      /\ Len(keys) > 0
  BY <1>1, <1>2
<1>4. child \in Children /\ child \in ChildIDs
  BY <1>1, <1>3, NewChildIsBlock DEF ContractInv
<1> HIDE DEF child
<1>5. KeyFits(keys, 0, k)
  BY <1>1, <1>2, <1>3, PlaceFits
<1>6. k < keys[1]
  BY <1>3, <1>5 DEF KeyFits
<1>7. KeysOf(t) = Put(keys, 0, k) /\ ChildrenOf(t) = Put(items, 0, child)
  BY <1>2, <1>3, <1>4, BranchUnshiftPuts
<1>8. Ordered(Put(keys, 0, k))
  BY <1>2, <1>3, <1>5, OrderedPut
<1>9. items \in Seq(ChildIDs)
  BY <1>2, <1>3, ChildrenAre
<1> HIDE DEF t, keys, items
<1>10. <<k>> \o keys = Put(keys, 0, k)
  BY <1>2, PutFirst
<1>11. <<child>> \o items = Put(items, 0, child)
  BY <1>4, <1>9, PutFirst
<1>12. InMemory' = Seen("branch", pa, l, r, KeysOf(t), ChildrenOf(t)) /\ memory'.entries = t
  BY <1>1, BranchSeenAfter DEF t
<1>13. InMemory' = Seen("branch", pa, l, r, <<k>> \o keys, <<child>> \o items)
  BY <1>7, <1>10, <1>11, <1>12, Zenon
<1>14. Contract!Unshift(InMemory, InMemory')
  BY <1>2, <1>3, <1>4, <1>6, <1>13, UnshiftKept
<1>. QED
  BY <1>7, <1>8, <1>12, <1>14, Zenon DEF Keeping, Contract!Becomes

\* ReplaceKeyAt, with a key between those beside it
\* (uint32_index_node_adapter.go:362-373, bplus_tree.go:232-271).
LEMMA ReplaceKeyKeeping ==
    ASSUME ContractInv, NEW p \in 0 .. Len(es) - 1, NEW k \in Keys, ReplaceKeyAt(p, k)
    PROVE  Keeping
<1> DEFINE keys == KeysOf(es)
           items == ChildrenOf(es)
           i == p + 1
           t == [es EXCEPT ![p + 1].key = k]
           ks == [keys EXCEPT ![p + 1] = k]
           pa == memory.parent
           l == memory.left
           r == memory.right
<1>1. /\ memory.kind = "branch" /\ memory' = [memory EXCEPT !.entries = t]
      /\ p > 0 => es[p].key < k
      /\ p < Len(es) - 1 => k < es[p + 2].key
  BY Zenon DEF ReplaceKeyAt, Became
<1>2. /\ es \in Seq(BranchEntry) /\ Len(es) \in Nat
      /\ keys \in Seq(Keys) /\ Len(keys) = Len(es)
      /\ (\A j \in 1 .. Len(es) : keys[j] = es[j].key) /\ Ordered(keys)
      /\ InMemory = Seen("branch", pa, l, r, keys, items)
  BY <1>1, BranchSeen
<1>0. t = [es EXCEPT ![p + 1].key = k] /\ es \in Seq(BranchEntry)
  BY <1>2
<1> HIDE DEF t
<1>3. /\ KeysOf(t) = ks /\ ChildrenOf(t) = items /\ KeysOf(t) \in Seq(Keys) /\ Len(KeysOf(t)) = Len(es)
      /\ \A j \in 1 .. Len(es) : KeysOf(t)[j] = IF j = p + 1 THEN k ELSE es[j].key
  <2>1. OtherKey(t, es, p, k)
    BY <1>0, BranchKeyReplaced
  <2>. QED
    BY <2>1, Zenon DEF OtherKey
<1>4. InMemory' = Seen("branch", pa, l, r, KeysOf(t), ChildrenOf(t)) /\ memory'.entries = t
  BY <1>1, BranchSeenAfter DEF t
<1>5. p \in Nat /\ p < Len(es)
  BY <1>2
<1>6. \A j \in 1 .. Len(es) - 1 : es[j].key < es[j + 1].key
  <2>1. \A j \in 1 .. Len(keys) - 1 : keys[j] < keys[j + 1]
    BY <1>2 DEF Ordered, Contract!Ascending
  <2> HIDE DEF keys
  <2>2. ASSUME NEW j \in 1 .. Len(es) - 1 PROVE es[j].key < es[j + 1].key
    <3>1. keys[j] < keys[j + 1] /\ keys[j] = es[j].key /\ keys[j + 1] = es[j + 1].key
      BY <2>1, <1>2
    <3>. QED
      BY <3>1
  <2>. QED
    BY <2>2
<1> DEFINE u == KeysOf(t)
<1>7. Len(u) = Len(es) /\ \A j \in 1 .. Len(es) : u[j] = IF j = p + 1 THEN k ELSE es[j].key
  BY <1>3
<1> HIDE DEF u, keys, items, ks
<1>8. ASSUME NEW j \in 1 .. Len(es) - 1 PROVE u[j] < u[j + 1]
  <2>0. j \in 1 .. Len(es) /\ j + 1 \in 1 .. Len(es)
    BY <1>2
  <2>1. CASE j = p
    <3>1. j # p + 1 /\ j + 1 = p + 1 /\ p > 0
      BY <2>1, <1>5
    <3>2. u[j] = es[p].key /\ u[j + 1] = k
      BY <3>1, <2>0, <2>1, <1>7
    <3>. QED
      BY <3>1, <3>2, <1>1
  <2>2. CASE j = p + 1
    <3>1. j + 1 # p + 1 /\ j + 1 = p + 2 /\ p < Len(es) - 1
      BY <2>2, <1>5, <1>2
    <3>2. u[j] = k /\ u[j + 1] = es[p + 2].key
      BY <3>1, <2>0, <2>2, <1>7
    <3>. QED
      BY <3>1, <3>2, <1>1
  <2>3. CASE j # p /\ j # p + 1
    <3>1. j + 1 # p + 1
      BY <2>3, <1>5
    <3>2. u[j] = es[j].key /\ u[j + 1] = es[j + 1].key
      BY <3>1, <2>0, <2>3, <1>7
    <3>. QED
      BY <3>2, <1>6
  <2>. QED
    BY <2>1, <2>2, <2>3
<1>9. Ordered(u)
  BY <1>7, <1>8 DEF Ordered, Contract!Ascending
<1>10. i \in 1 .. Len(keys)
  BY <1>2, <1>5
<1>11. u = ks
  BY <1>3 DEF u
<1>12. InMemory' = Seen("branch", pa, l, r, ks, items)
  BY <1>3, <1>4, Zenon DEF u
<1>13. ks = [keys EXCEPT ![i] = k] /\ Ordered(ks)
  BY <1>9, <1>11 DEF ks
<1> HIDE DEF i
<1>14. Contract!ReplaceKeyAt(InMemory, InMemory')
  BY <1>2, <1>10, <1>12, <1>13, ReplaceKept
<1>. QED
  BY <1>4, <1>9, <1>14, Zenon DEF Keeping, Contract!Becomes, u

-----------------------------------------------------------------------------
(* The theorem                                                             *)

\* Every operation of the adapters is one of the contract (exports.go:16-57).
LEMMA KeepingStep ==
    ASSUME ContractInv, Next
    PROVE  Keeping
<1>1. CASE Create
  <2>1. PICK was \in Stale : CreatedLeaf(was) \/ \E k \in Keys : CreatedBranch(was, k)
    BY <1>1 DEF Create
  <2>. QED
    BY <2>1, CreateKeeping
<1>2. CASE Freed
  BY <1>2, FreedKeeping
<1>3. CASE SetLink
  BY <1>3, SetLinkKeeping
<1>4. CASE BranchShifts
  BY <1>4, BranchShiftsKeeping
<1>5. ASSUME NEW p \in 0 .. Len(es), NEW was \in Stale, NEW e \in Entries, LeafInsert(p, e, was)
      PROVE  Keeping
  BY <1>5, LeafInsertKeeping
<1>6. ASSUME NEW p \in 0 .. Len(es), NEW was \in Stale, NEW k \in Keys, BranchInsert(p, k, was)
      PROVE  Keeping
  BY <1>6, BranchInsertKeeping
<1>7. ASSUME NEW p \in 0 .. Len(es) - 1, LeafDelete(p) PROVE Keeping
  BY <1>7, LeafDeleteKeeping
<1>8. ASSUME NEW p \in 0 .. Len(es) - 1, BranchDelete(p) PROVE Keeping
  BY <1>8, BranchDeleteKeeping
<1>9. ASSUME NEW p \in 0 .. Len(es) - 1, NEW k \in Keys, ReplaceKeyAt(p, k) PROVE Keeping
  BY <1>9, ReplaceKeyKeeping
<1>10. ASSUME NEW k \in Keys, BranchUnshifts(k) PROVE Keeping
  BY <1>10, BranchUnshiftsKeeping
<1>11. CASE Call
  BY <1>3, <1>4, <1>5, <1>6, <1>7, <1>8, <1>9, <1>10, <1>11, Zenon DEF Call
<1>. QED
  BY <1>1, <1>2, <1>11 DEF Next

\* Every step of the adapters is one of the contract or leaves what the tree sees.
LEMMA ContractStep ==
    ContractInv /\ [Next]_vars => ContractInv' /\ [Contract!Next]_InMemory
<1> SUFFICES ASSUME ContractInv, [Next]_vars PROVE ContractInv' /\ [Contract!Next]_InMemory
  OBVIOUS
<1>1. Inv'
  BY InvStep DEF ContractInv
<1>2. CASE Next
  <2>1. Keeping
    BY <1>2, KeepingStep
  <2>. QED
    BY <1>1, <2>1, Zenon DEF Keeping, ContractInv, Contract!Next, es
<1>3. CASE UNCHANGED vars
  <2>1. memory' = memory
    BY <1>3 DEF vars
  <2>2. InMemory' = InMemory /\ KeysOf(es)' = KeysOf(es)
    BY <2>1, Zenon DEF InMemory, View, KeysOf, es
  <2>. QED
    BY <1>1, <2>2, Zenon DEF ContractInv, Ordered
<1>. QED
  BY <1>2, <1>3

\* What the tree does to a node in memory is what it expects of a node, a delete in the
\* middle of a branch included: keys stay in order, each with its row or child, over
\* splits too (exports.go:16-57, in_memory_adapter.go:110-295).  With Agreement this is
\* so of the node in its block as long as it lost no other child.
THEOREM ContractKept == Spec => KeepsContract
<1>1. Init => Contract!Init /\ ContractInv
  BY InitKept, InvInit DEF ContractInv
<1>2. ContractInv /\ [Next]_vars => ContractInv' /\ [Contract!Next]_InMemory
  BY ContractStep
<1>. QED
  BY <1>1, <1>2, PTL DEF Spec, KeepsContract, Contract!Spec
=============================================================================
