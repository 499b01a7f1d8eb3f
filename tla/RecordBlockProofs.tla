-------------------------- MODULE RecordBlockProofs --------------------------
(***************************************************************************)
(* What the operations of a record block do to its layout, for blocks of   *)
(* any size and records of any length: defragment closes every gap, moves  *)
(* no record's bytes apart and leaves the free space in one piece, and Add *)
(* writes into it.  RecordPage, RecordAllocator and Database use them.     *)
(***************************************************************************)
EXTENDS RecordBlock, SequenceTheorems, FiniteSetTheorems, FunctionTheorems, WellFoundedInduction, TLAPS

-----------------------------------------------------------------------------
(* Loops                                                                   *)

\* What a loop reaches it reaches first somewhere (HeaderFor's scan,
\* record_block.go:79-93, and every induction below).
LEMMA LeastNatural ==
    ASSUME NEW T \in SUBSET Nat, T # {}
    PROVE  \E x \in T : \A y \in T : x <= y
<1> DEFINE R == OpToRel(<, Nat)
<1>1. IsWellFoundedOn(R, Nat)
  BY NatLessThanWellFounded
<1> HIDE DEF R
<1>2. PICK x \in T : \A y \in T : ~(<<y, x>> \in R)
  BY <1>1, WFMin, Zenon
<1>3. \A a, b \in Nat : a < b => <<a, b>> \in R
  BY DEF R, OpToRel
<1>4. \A y \in T : ~(y < x)
  BY <1>2, <1>3
<1>. QED
  BY <1>4

\* The turns of the inner loop, and what it leaves.
ShiftLoop(moved, p, order, i, n) ==
    /\ moved[i] = [page |-> p, ptr |-> p.headers[order[i]].start]
    /\ \A j \in i + 1 .. n : moved[j] = ShiftDown(moved[j - 1], order[j])
    /\ ShiftAll(p, order, i) = moved[n]

\* The inner loop of defragment, header by header (record_block.go:341-354).
LEMMA ShiftAllIs ==
    ASSUME NEW p, NEW order, NEW n \in Nat, n = Len(p.headers), NEW i \in 1 .. n
    PROVE  \E moved : ShiftLoop(moved, p, order, i, n)
<1> DEFINE start == [page |-> p, ptr |-> p.headers[order[i]].start]
           Step(acc, j) == ShiftDown(acc, order[j])
           Loop(f, m) == f = [j \in i .. m |-> IF j = i THEN start ELSE Step(f[j - 1], j)]
           bad == {m \in i .. n : ~\E f : Loop(f, m)}
<1>1. ShiftAll(p, order, i) = (CHOOSE f : Loop(f, n))[n]
  BY DEF ShiftAll
<1> HIDE DEF start, Step
<1>2. \E f : Loop(f, i)
  <2> DEFINE f == [j \in i .. i |-> start]
  <2>1. \A j \in i .. i : j = i
    OBVIOUS
  <2>2. f = [j \in i .. i |-> IF j = i THEN start ELSE Step(f[j - 1], j)]
    BY <2>1, Zenon
  <2>. QED
    BY <2>2
<1>3. ASSUME NEW m \in i .. n, m # i, \E f : Loop(f, m - 1)
      PROVE  \E f : Loop(f, m)
  <2>1. PICK f : Loop(f, m - 1)
    BY <1>3
  <2> DEFINE g == [j \in i .. m |-> IF j = m THEN Step(f[m - 1], m) ELSE f[j]]
  <2>2. \A j \in i .. m : j # i => j - 1 \in i .. m /\ j - 1 # m
    BY <1>3
  <2>3. ASSUME NEW j \in i .. m PROVE g[j] = IF j = i THEN start ELSE Step(g[j - 1], j)
    <3>1. CASE j = m
      <4>1. g[m] = Step(f[m - 1], m) /\ g[m - 1] = f[m - 1]
        BY <1>3, <2>2
      <4>. QED
        BY <4>1, <3>1, <1>3, Zenon
    <3>2. CASE j # m
      <4>1. j \in i .. m - 1 /\ g[j] = f[j]
        BY <3>2
      <4>2. f[j] = IF j = i THEN start ELSE Step(f[j - 1], j)
        BY <4>1, <2>1
      <4>3. j # i => g[j - 1] = f[j - 1]
        BY <2>2
      <4>. QED
        BY <4>1, <4>2, <4>3, Zenon
    <3>. QED
      BY <3>1, <3>2
  <2>4. g = [j \in i .. m |-> IF j = i THEN start ELSE Step(g[j - 1], j)]
    <3>1. g = [j \in i .. m |-> g[j]]
      BY Zenon
    <3> HIDE DEF g
    <3>. QED
      BY <2>3, <3>1, Zenon
  <2>. QED
    BY <2>4
<1> HIDE DEF Loop
<1>4. bad = {}
  <2> SUFFICES ASSUME bad # {} PROVE FALSE
    OBVIOUS
  <2>1. PICK m \in bad : \A k \in bad : m <= k
    <3>1. bad \in SUBSET Nat
      OBVIOUS
    <3> HIDE DEF bad
    <3>. QED
      BY <3>1, LeastNatural, Zenon
  <2>2. m # i
    BY <1>2
  <2>3. m - 1 \in i .. n /\ m - 1 \notin bad
    BY <2>1, <2>2
  <2>4. \E f : Loop(f, m - 1)
    BY <2>3, Zenon
  <2>. QED
    BY <1>3, <2>2, <2>4, Zenon
<1>5. \E f : Loop(f, n)
  <2>1. n \in i .. n
    OBVIOUS
  <2>. QED
    BY <2>1, <1>4, Zenon
<1> DEFINE f == CHOOSE f : Loop(f, n)
<1>6. Loop(f, n)
  BY <1>5, Zenon
<1>7. ShiftAll(p, order, i) = f[n]
  BY <1>1, Zenon
<1> HIDE DEF f
<1>8. f[i] = start
  <2>1. i \in i .. n
    OBVIOUS
  <2>. QED
    BY <1>6, <2>1, Zenon DEF Loop
<1>9. \A j \in i + 1 .. n : f[j] = Step(f[j - 1], j)
  <2>1. \A j \in i + 1 .. n : j \in i .. n /\ j # i
    OBVIOUS
  <2>. QED
    BY <1>6, <2>1, Zenon DEF Loop
<1>. QED
  BY <1>7, <1>8, <1>9, Zenon DEF start, Step, ShiftLoop

\* The rounds of the outer loop, and what it leaves.
DefragmentLoop(rounds, p, order, n) ==
    /\ rounds[0] = p
    /\ \A i \in 1 .. n : rounds[i] = CloseGap(rounds[i - 1], order, i)
    /\ Defragment(p, order) = rounds[n]

\* The outer loop, round by round (record_block.go:330-361).
LEMMA DefragmentIs ==
    ASSUME NEW p, NEW order, NEW n \in Nat, n = Len(p.headers)
    PROVE  \E rounds : DefragmentLoop(rounds, p, order, n)
<1> DEFINE Step(page, j) == CloseGap(page, order, j)
           Loop(f, m) == f = [j \in 0 .. m |-> IF j = 0 THEN p ELSE Step(f[j - 1], j)]
           bad == {m \in 0 .. n : ~\E f : Loop(f, m)}
<1>1. Defragment(p, order) = (CHOOSE f : Loop(f, n))[n]
  BY DEF Defragment
<1> HIDE DEF Step
<1>2. \E f : Loop(f, 0)
  <2> DEFINE f == [j \in 0 .. 0 |-> p]
  <2>1. \A j \in 0 .. 0 : j = 0
    OBVIOUS
  <2>2. f = [j \in 0 .. 0 |-> IF j = 0 THEN p ELSE Step(f[j - 1], j)]
    BY <2>1, Zenon
  <2>. QED
    BY <2>2
<1>3. ASSUME NEW m \in 0 .. n, m # 0, \E f : Loop(f, m - 1)
      PROVE  \E f : Loop(f, m)
  <2>1. PICK f : Loop(f, m - 1)
    BY <1>3
  <2> DEFINE g == [j \in 0 .. m |-> IF j = m THEN Step(f[m - 1], m) ELSE f[j]]
  <2>2. \A j \in 0 .. m : j # 0 => j - 1 \in 0 .. m /\ j - 1 # m
    BY <1>3
  <2>3. ASSUME NEW j \in 0 .. m PROVE g[j] = IF j = 0 THEN p ELSE Step(g[j - 1], j)
    <3>1. CASE j = m
      <4>1. g[m] = Step(f[m - 1], m) /\ g[m - 1] = f[m - 1]
        BY <1>3, <2>2
      <4>. QED
        BY <4>1, <3>1, <1>3, Zenon
    <3>2. CASE j # m
      <4>1. j \in 0 .. m - 1 /\ g[j] = f[j]
        BY <3>2
      <4>2. f[j] = IF j = 0 THEN p ELSE Step(f[j - 1], j)
        BY <4>1, <2>1
      <4>3. j # 0 => g[j - 1] = f[j - 1]
        BY <2>2
      <4>. QED
        BY <4>1, <4>2, <4>3, Zenon
    <3>. QED
      BY <3>1, <3>2
  <2>4. g = [j \in 0 .. m |-> IF j = 0 THEN p ELSE Step(g[j - 1], j)]
    <3>1. g = [j \in 0 .. m |-> g[j]]
      BY Zenon
    <3> HIDE DEF g
    <3>. QED
      BY <2>3, <3>1, Zenon
  <2>. QED
    BY <2>4
<1> HIDE DEF Loop
<1>4. bad = {}
  <2> SUFFICES ASSUME bad # {} PROVE FALSE
    OBVIOUS
  <2>1. PICK m \in bad : \A k \in bad : m <= k
    <3>1. bad \in SUBSET Nat
      OBVIOUS
    <3> HIDE DEF bad
    <3>. QED
      BY <3>1, LeastNatural, Zenon
  <2>2. m # 0
    BY <1>2
  <2>3. m - 1 \in 0 .. n /\ m - 1 \notin bad
    BY <2>1, <2>2
  <2>4. \E f : Loop(f, m - 1)
    BY <2>3, Zenon
  <2>. QED
    BY <1>3, <2>2, <2>4, Zenon
<1>5. \E f : Loop(f, n)
  <2>1. n \in 0 .. n
    OBVIOUS
  <2>. QED
    BY <2>1, <1>4, Zenon
<1> DEFINE f == CHOOSE f : Loop(f, n)
<1>6. Loop(f, n)
  BY <1>5, Zenon
<1>7. Defragment(p, order) = f[n]
  BY <1>1, Zenon
<1> HIDE DEF f
<1>8. f[0] = p
  <2>1. 0 \in 0 .. n
    OBVIOUS
  <2>. QED
    BY <1>6, <2>1, Zenon DEF Loop
<1>9. \A j \in 1 .. n : f[j] = Step(f[j - 1], j)
  <2>1. \A j \in 1 .. n : j \in 0 .. n /\ j # 0
    OBVIOUS
  <2>. QED
    BY <1>6, <2>1, Zenon DEF Loop
<1>. QED
  BY <1>7, <1>8, <1>9, Zenon DEF Step, DefragmentLoop

-----------------------------------------------------------------------------
(* Pages                                                                   *)

Addresses == 0 .. PageSize - 1

RowIDs == [block : Nat, local : Nat]

HeaderRec == [id : Nat, start : Addresses, size : 0 .. PageSize, chain : RowIDs]

IsPage(p) ==
    /\ p = [bytes |-> p.bytes, headers |-> p.headers, used |-> p.used, next |-> p.next, prev |-> p.prev]
    /\ p.bytes = [a \in Addresses |-> p.bytes[a]]
    /\ p.headers \in Seq(HeaderRec)
    /\ p.used \in Nat

\* A header's fields are numbers (record_block.go:33-40).
LEMMA HeaderNumbers ==
    ASSUME NEW e \in HeaderRec
    PROVE  /\ e.id \in Nat /\ e.start \in Nat /\ e.start < PageSize
           /\ e.size \in Nat /\ e.size <= PageSize /\ e.chain \in RowIDs
BY PageAssumption DEF HeaderRec, Addresses

\* The fields of a block (record_block.go:54-66).
LEMMA PageFields ==
    ASSUME NEW bytes, NEW headers, NEW used, NEW next, NEW prev,
           NEW p, p = [bytes |-> bytes, headers |-> headers, used |-> used, next |-> next, prev |-> prev]
    PROVE  p.bytes = bytes /\ p.headers = headers /\ p.used = used /\ p.next = next /\ p.prev = prev
OBVIOUS

\* What defragment and the removals leave alone.
SameBlock(q, p) ==
    /\ IsPage(q) /\ Len(q.headers) = Len(p.headers)
    /\ q.used = p.used /\ q.next = p.next /\ q.prev = p.prev

\* One field of a header changes (record_block.go:350-351, 355-359).
LEMMA HeaderWritten ==
    ASSUME NEW hs \in Seq(HeaderRec), NEW m \in 1 .. Len(hs), NEW e \in HeaderRec,
           NEW t, t = [hs EXCEPT ![m] = e]
    PROVE  /\ t \in Seq(HeaderRec) /\ Len(t) = Len(hs)
           /\ t[m] = e
           /\ \A k \in 1 .. Len(hs) : k # m => t[k] = hs[k]
OBVIOUS

\* The record of header m, which was h, is where the pointer was.
MovedDown(out, acc, m, h) ==
    /\ SameBlock(out.page, acc.page)
    /\ out.ptr = acc.ptr + h.size
    /\ \A k \in 1 .. Len(acc.page.headers) : k # m => out.page.headers[k] = acc.page.headers[k]
    /\ out.page.headers[m].id = h.id /\ out.page.headers[m].size = h.size
    /\ out.page.headers[m].chain = h.chain /\ out.page.headers[m].start = acc.ptr
    /\ \A a \in Addresses : out.page.bytes[a] =
          IF a \in acc.ptr .. acc.ptr + h.size - 1
            THEN acc.page.bytes[h.start + (a - acc.ptr)] ELSE acc.page.bytes[a]

\* One turn of the inner loop: a record moves down, byte by byte, to an address
\* that is not above its own (record_block.go:344-353).
LEMMA ShiftDownIs ==
    ASSUME NEW acc, IsPage(acc.page), NEW m \in 1 .. Len(acc.page.headers),
           acc.ptr \in Addresses,
           NEW h, h = acc.page.headers[m],
           h.size # 0 => acc.ptr <= h.start,
           h.start + h.size <= PageSize,
           NEW out, out = ShiftDown(acc, m)
    PROVE  MovedDown(out, acc, m, h)
<1> DEFINE p == acc.page
           to == acc.ptr
           e == [h EXCEPT !.start = to]
           hs == [p.headers EXCEPT ![m] = e]
           bs == CopyBytes(p.bytes, h.start, to, h.size)
<1>1. /\ p = [bytes |-> p.bytes, headers |-> p.headers, used |-> p.used, next |-> p.next, prev |-> p.prev]
      /\ p.bytes = [a \in Addresses |-> p.bytes[a]] /\ p.headers \in Seq(HeaderRec) /\ p.used \in Nat
  BY DEF IsPage
<1>2. h \in HeaderRec
  BY <1>1
<1>3. /\ e \in HeaderRec /\ e.id = h.id /\ e.size = h.size /\ e.chain = h.chain /\ e.start = to
  BY <1>2 DEF HeaderRec
<1>4. /\ hs \in Seq(HeaderRec) /\ Len(hs) = Len(p.headers)
      /\ hs[m] = e /\ \A k \in 1 .. Len(p.headers) : k # m => hs[k] = p.headers[k]
  <2> HIDE DEF e
  <2>. QED
    BY <1>1, <1>3, HeaderWritten
<1>5. [p.headers EXCEPT ![m].start = to] = hs
  <2>1. p.headers[m] = h
    OBVIOUS
  <2>. QED
    BY <2>1
<1>6. out.page = [[p EXCEPT !.bytes = bs] EXCEPT !.headers[m].start = to] /\ out.ptr = to + h.size
  BY Zenon DEF ShiftDown
<1>7. out.page = [bytes |-> bs, headers |-> hs, used |-> p.used, next |-> p.next, prev |-> p.prev]
  <2> HIDE DEF bs, hs, p
  <2>1. [p EXCEPT !.bytes = bs] = [bytes |-> bs, headers |-> p.headers, used |-> p.used, next |-> p.next, prev |-> p.prev]
    BY <1>1
  <2>2. out.page = [bytes |-> bs, headers |-> [p.headers EXCEPT ![m].start = to], used |-> p.used, next |-> p.next, prev |-> p.prev]
    BY <2>1, <1>6
  <2>. QED
    BY <2>2, <1>5
<1>8. DOMAIN p.bytes = Addresses
  BY <1>1
<1>9. bs = [a \in Addresses |-> IF a \in to .. to + h.size - 1
                 THEN p.bytes[h.start + IF h.start < to THEN (a - to) % (to - h.start) ELSE a - to]
                 ELSE p.bytes[a]]
  BY <1>8, Zenon DEF CopyBytes
<1>10. ASSUME NEW a \in Addresses
       PROVE  bs[a] = IF a \in to .. to + h.size - 1 THEN p.bytes[h.start + (a - to)] ELSE p.bytes[a]
  <2> HIDE DEF bs
  <2>1. bs[a] = IF a \in to .. to + h.size - 1
                 THEN p.bytes[h.start + IF h.start < to THEN (a - to) % (to - h.start) ELSE a - to]
                 ELSE p.bytes[a]
    BY <1>9, Zenon
  <2>2. a \in to .. to + h.size - 1 => ~(h.start < to)
    BY <1>2 DEF Addresses, HeaderRec
  <2>. QED
    BY <2>1, <2>2, Zenon
<1>11. bs = [a \in Addresses |-> bs[a]]
  <2>1. bs = [a \in DOMAIN bs |-> bs[a]] /\ DOMAIN bs = Addresses
    BY <1>8 DEF CopyBytes
  <2> HIDE DEF bs
  <2>. QED
    BY <2>1
<1> HIDE DEF bs, hs, p
<1>12. IsPage(out.page)
  <2>1. /\ out.page.bytes = bs /\ out.page.headers = hs /\ out.page.used = p.used
        /\ out.page.next = p.next /\ out.page.prev = p.prev
    BY <1>7
  <2>. QED
    BY <2>1, <1>7, <1>11, <1>4, <1>1 DEF IsPage
<1>13. /\ out.page.bytes = bs /\ out.page.headers = hs /\ out.page.used = p.used
       /\ out.page.next = p.next /\ out.page.prev = p.prev
  BY <1>7
<1>14. SameBlock(out.page, acc.page)
  BY <1>12, <1>13, <1>4 DEF SameBlock, p
<1>15. \A k \in 1 .. Len(acc.page.headers) : k # m => out.page.headers[k] = acc.page.headers[k]
  BY <1>13, <1>4 DEF p
<1>16. \A a \in Addresses : out.page.bytes[a] =
         IF a \in to .. to + h.size - 1 THEN p.bytes[h.start + (a - to)] ELSE p.bytes[a]
  BY <1>13, <1>10
<1>. QED
  BY <1>6, <1>13, <1>14, <1>15, <1>16, <1>3, <1>4 DEF p, MovedDown

-----------------------------------------------------------------------------
(* One gap closed                                                          *)

\* The header at a position of the sorted list.
At(p, order, k) == p.headers[order[k]]

Permutes(order, n) ==
    /\ order \in [1 .. n -> 1 .. n]
    /\ \A k, l \in 1 .. n : order[k] = order[l] => k = l

\* The headers at the positions of A have their bytes one behind the other and fill
\* the first E bytes, when sz says how many bytes each has: its size, or what a
\* soft removed one had.
Laid(p, order, sz, A, E) ==
    LET n == Len(p.headers) IN
    /\ A \subseteq 1 .. n /\ E \in Addresses
    /\ \A k \in A : /\ sz[k] \in Nat /\ At(p, order, k).start + sz[k] <= E
                    /\ At(p, order, k).size # 0 => sz[k] = At(p, order, k).size
    /\ \A k, l \in A : k < l => At(p, order, k).start + sz[k] <= At(p, order, l).start
    /\ \A a \in 0 .. E - 1 : \E k \in A :
          At(p, order, k).start <= a /\ a < At(p, order, k).start + sz[k]
    /\ \A k \in 1 .. n : At(p, order, k).size # 0 => k \in A

\* In the middle of the inner loop: the headers at positions i + 1 .. j have moved
\* behind where that at position i starts, up to the pointer; those behind have not.
Moving(p, order, A, E, i, j, acc) ==
    LET n == Len(p.headers)
        from == At(p, order, i).start
        done == {k \in A : i < k /\ k <= j}
        q == acc.page
    IN
    /\ SameBlock(q, p)
    /\ acc.ptr \in Nat /\ from <= acc.ptr /\ acc.ptr <= E
    /\ \A k \in 1 .. n : /\ At(q, order, k).id = At(p, order, k).id
                         /\ At(q, order, k).size = At(p, order, k).size
                         /\ At(q, order, k).chain = At(p, order, k).chain
                         /\ k <= i \/ j < k => At(q, order, k).start = At(p, order, k).start
    /\ \A a \in Addresses : a < from => q.bytes[a] = p.bytes[a]
    /\ \A k \in A : j < k =>
          /\ acc.ptr <= At(p, order, k).start
          /\ \A a \in Addresses : At(p, order, k).start <= a => q.bytes[a] = p.bytes[a]
    /\ \A k \in done :
          /\ from <= At(q, order, k).start
          /\ At(q, order, k).start + At(q, order, k).size <= acc.ptr
          /\ \A o \in 0 .. At(p, order, k).size - 1 :
                q.bytes[At(q, order, k).start + o] = p.bytes[At(p, order, k).start + o]
    /\ \A k, l \in done : k < l => At(q, order, k).start + At(q, order, k).size <= At(q, order, l).start
    /\ \A a \in from .. acc.ptr - 1 : \E k \in done :
          At(q, order, k).start <= a /\ a < At(q, order, k).start + At(q, order, k).size

\* Every turn of the inner loop goes on like this (record_block.go:342-353).
LEMMA MovingStep ==
    ASSUME NEW p, IsPage(p), NEW order, Permutes(order, Len(p.headers)),
           NEW sz, NEW A, NEW E, Laid(p, order, sz, A, E),
           NEW i \in A, NEW j \in i + 1 .. Len(p.headers),
           NEW acc, Moving(p, order, A, E, i, j - 1, acc),
           NEW out, out = ShiftDown(acc, order[j])
    PROVE  Moving(p, order, A, E, i, j, out)
<1> DEFINE n == Len(p.headers)
           q == acc.page
           r == out.page
           from == At(p, order, i).start
           h == At(q, order, j)
           st(k) == At(p, order, k).start
           size(k) == At(p, order, k).size
           was(k) == At(q, order, k).start
           is(k) == At(r, order, k).start
           done == {k \in A : i < k /\ k <= j}
<1>1. /\ n \in Nat /\ i \in 1 .. n /\ j \in 1 .. n /\ i \in Nat /\ j \in Nat /\ i < j
      /\ A \subseteq 1 .. n /\ E \in Nat /\ E < PageSize /\ PageSize \in Nat
  BY PageAssumption DEF Laid, IsPage, Addresses
<1>2. /\ \A k \in 1 .. n : st(k) \in Nat /\ size(k) \in Nat
      /\ \A k \in A : sz[k] \in Nat /\ st(k) + sz[k] <= E /\ (size(k) # 0 => sz[k] = size(k))
      /\ \A k, l \in A : k < l => st(k) + sz[k] <= st(l)
      /\ \A k \in 1 .. n : size(k) # 0 => k \in A
  <2>1. \A k \in 1 .. n : order[k] \in 1 .. n
    BY DEF Permutes
  <2>2. \A k \in 1 .. n : At(p, order, k) \in HeaderRec
    BY <2>1 DEF At, IsPage
  <2>3. \A k \in 1 .. n : st(k) \in Nat /\ size(k) \in Nat
    BY <2>2, PageAssumption DEF HeaderRec, Addresses
  <2>. QED
    BY <2>3 DEF Laid
<1>3. /\ SameBlock(q, p)
      /\ acc.ptr \in Nat /\ from <= acc.ptr /\ acc.ptr <= E
      /\ \A k \in 1 .. n : /\ At(q, order, k).id = At(p, order, k).id
                           /\ At(q, order, k).size = size(k)
                           /\ At(q, order, k).chain = At(p, order, k).chain
                           /\ k <= i \/ j - 1 < k => was(k) = st(k)
      /\ \A a \in Addresses : a < from => q.bytes[a] = p.bytes[a]
      /\ \A k \in A : j - 1 < k =>
            /\ acc.ptr <= st(k)
            /\ \A a \in Addresses : st(k) <= a => q.bytes[a] = p.bytes[a]
      /\ \A k \in A : i < k /\ k <= j - 1 =>
            /\ from <= was(k) /\ was(k) + size(k) <= acc.ptr
            /\ \A o \in 0 .. size(k) - 1 : q.bytes[was(k) + o] = p.bytes[st(k) + o]
      /\ \A k, l \in A : i < k /\ k <= j - 1 /\ i < l /\ l <= j - 1 /\ k < l => was(k) + size(k) <= was(l)
      /\ \A a \in from .. acc.ptr - 1 : \E k \in A : i < k /\ k <= j - 1 /\ was(k) <= a /\ a < was(k) + size(k)
  BY <1>1 DEF Moving
<1>4. was(j) = st(j) /\ h.size = size(j)
  BY <1>1, <1>3
<1>5. size(j) # 0 => j \in A /\ acc.ptr <= st(j) /\ st(j) + size(j) <= E
  BY <1>1, <1>2, <1>3
<1>6. st(j) + size(j) <= PageSize
  <2>1. CASE size(j) = 0
    <3>1. At(p, order, j) \in HeaderRec
      BY <1>1 DEF At, IsPage, Permutes
    <3>. QED
      BY <3>1, <2>1, <1>1 DEF HeaderRec, Addresses
  <2>2. CASE size(j) # 0
    BY <2>2, <1>5, <1>1, <1>2
  <2>. QED
    BY <2>1, <2>2
<1>7. /\ IsPage(q) /\ Len(q.headers) = n /\ order[j] \in 1 .. n /\ acc.ptr \in Addresses
      /\ q.used = p.used /\ q.next = p.next /\ q.prev = p.prev
  BY <1>1, <1>3 DEF SameBlock, Permutes, Addresses
<1>8. /\ SameBlock(r, q)
      /\ out.ptr = acc.ptr + size(j)
      /\ \A k \in 1 .. n : k # order[j] => r.headers[k] = q.headers[k]
      /\ r.headers[order[j]].id = h.id /\ r.headers[order[j]].size = h.size
      /\ r.headers[order[j]].chain = h.chain /\ r.headers[order[j]].start = acc.ptr
      /\ \A a \in Addresses : r.bytes[a] =
            IF a \in acc.ptr .. acc.ptr + size(j) - 1 THEN q.bytes[st(j) + (a - acc.ptr)] ELSE q.bytes[a]
  <2>1. h = q.headers[order[j]]
    BY DEF At
  <2>2. (h.size # 0 => acc.ptr <= h.start) /\ h.start + h.size <= PageSize
    BY <1>4, <1>5, <1>6
  <2>3. order[j] \in 1 .. Len(acc.page.headers)
    BY <1>7
  <2> HIDE DEF h
  <2>4. MovedDown(out, acc, order[j], h)
    <3>1. /\ IsPage(acc.page) /\ h = acc.page.headers[order[j]] /\ out = ShiftDown(acc, order[j])
          /\ acc.ptr \in Addresses
      BY <2>1, <1>7
    <3>. QED
      BY <2>2, <2>3, <3>1, ShiftDownIs
  <2>5. h.start = st(j) /\ h.size = size(j)
    BY <1>4 DEF h
  <2>. QED
    BY <2>4, <2>5, <1>7, Zenon DEF MovedDown
<1>9. /\ \A k \in 1 .. n : k # j => At(r, order, k) = At(q, order, k)
      /\ At(r, order, j).id = h.id /\ At(r, order, j).size = h.size
      /\ At(r, order, j).chain = h.chain /\ At(r, order, j).start = acc.ptr
  BY <1>8, <1>1 DEF At, Permutes
<1>10. SameBlock(r, p)
  BY <1>8, <1>7 DEF SameBlock
<1>11. out.ptr \in Nat /\ from <= out.ptr /\ out.ptr <= E
  <2>1. CASE size(j) = 0
    BY <2>1, <1>8, <1>3, <1>1, <1>2
  <2>2. CASE size(j) # 0
    BY <2>2, <1>8, <1>3, <1>5, <1>1, <1>2
  <2>. QED
    BY <2>1, <2>2
<1>12. ASSUME NEW k \in 1 .. n
       PROVE  /\ At(r, order, k).id = At(p, order, k).id
              /\ At(r, order, k).size = size(k)
              /\ At(r, order, k).chain = At(p, order, k).chain
              /\ k <= i \/ j < k => is(k) = st(k)
              /\ i < k /\ k <= j - 1 => is(k) = was(k)
  <2>1. CASE k = j
    BY <2>1, <1>9, <1>3, <1>1
  <2>2. CASE k # j
    BY <2>2, <1>9, <1>3, <1>1
  <2>. QED
    BY <2>1, <2>2
<1>13. is(j) = acc.ptr
  BY <1>9
\* Bytes outside the target stay.
<1>14. \A a \in Addresses : a < acc.ptr \/ acc.ptr + size(j) <= a => r.bytes[a] = q.bytes[a]
  BY <1>8, <1>2, <1>1, <1>3 DEF Addresses
<1>15. \A a \in Addresses : a < from => r.bytes[a] = p.bytes[a]
  BY <1>14, <1>3, <1>2, <1>1 DEF Addresses
<1>16. ASSUME NEW k \in A, j < k
       PROVE  /\ out.ptr <= st(k)
              /\ \A a \in Addresses : st(k) <= a => r.bytes[a] = p.bytes[a]
  <2>1. acc.ptr <= st(k) /\ \A a \in Addresses : st(k) <= a => q.bytes[a] = p.bytes[a]
    BY <1>3, <1>16, <1>1
  <2>2. out.ptr <= st(k)
    <3>1. CASE size(j) = 0
      BY <3>1, <2>1, <1>8, <1>3, <1>1, <1>2
    <3>2. CASE size(j) # 0
      <4>1. st(j) + sz[j] <= st(k) /\ sz[j] = size(j)
        BY <3>2, <1>2, <1>5, <1>16, <1>1
      <4>2. acc.ptr <= st(j) /\ st(j) \in Nat /\ size(j) \in Nat /\ st(k) \in Nat /\ acc.ptr \in Nat
        BY <3>2, <1>5, <1>2, <1>1, <1>3
      <4>3. out.ptr = acc.ptr + size(j) /\ st(j) + size(j) <= st(k)
        BY <4>1, <1>8
      <4> HIDE DEF st, size
      <4>. QED
        BY <4>2, <4>3
    <3>. QED
      BY <3>1, <3>2
  <2>3. ASSUME NEW a \in Addresses, st(k) <= a PROVE r.bytes[a] = p.bytes[a]
    <3>1. acc.ptr + size(j) <= a
      BY <2>2, <2>3, <1>8, <1>1, <1>2, <1>3 DEF Addresses
    <3>. QED
      BY <3>1, <1>14, <2>1, <2>3
  <2>. QED
    BY <2>2, <2>3
<1>17. ASSUME NEW k \in A, i < k, k <= j
       PROVE  /\ from <= is(k) /\ is(k) + size(k) <= out.ptr
              /\ \A o \in 0 .. size(k) - 1 : r.bytes[is(k) + o] = p.bytes[st(k) + o]
  <2>1. CASE k = j
    <3>1. from <= is(k) /\ is(k) + size(k) <= out.ptr
      BY <2>1, <1>13, <1>3, <1>8, <1>1, <1>2
    <3>2. ASSUME NEW o \in 0 .. size(k) - 1 PROVE r.bytes[is(k) + o] = p.bytes[st(k) + o]
      <4>1. acc.ptr + o \in Addresses /\ st(j) + o \in Addresses
        <5>1. /\ st(j) \in Nat /\ size(j) \in Nat /\ acc.ptr \in Nat /\ o \in 0 .. size(j) - 1
              /\ size(j) # 0
          BY <2>1, <1>1, <1>2, <1>3
        <5>2. acc.ptr <= st(j) /\ st(j) + size(j) <= E /\ E \in Nat /\ E < PageSize
          BY <5>1, <1>5, <1>1
        <5>3. PageSize \in Nat
          BY PageAssumption
        <5> DEFINE from_j == st(j)
                   size_j == size(j)
                   to == acc.ptr
        <5>4. /\ from_j \in Nat /\ size_j \in Nat /\ to \in Nat /\ o \in 0 .. size_j - 1
              /\ to <= from_j /\ from_j + size_j <= E
          BY <5>1, <5>2
        <5> HIDE DEF from_j, size_j, to
        <5>5. to + o \in 0 .. PageSize - 1 /\ from_j + o \in 0 .. PageSize - 1
          BY <5>2, <5>3, <5>4
        <5>. QED
          BY <5>5 DEF Addresses, from_j, to
      <4>2. r.bytes[acc.ptr + o] = q.bytes[st(j) + ((acc.ptr + o) - acc.ptr)]
        <5>1. acc.ptr + o \in acc.ptr .. acc.ptr + size(j) - 1
          BY <2>1, <1>1, <1>2, <1>3, SMTT(30)
        <5>. QED
          BY <5>1, <4>1, <1>8, Zenon
      <4>3. st(j) + ((acc.ptr + o) - acc.ptr) = st(j) + o
        BY <1>1, <1>2, <1>3
      <4>4. q.bytes[st(j) + o] = p.bytes[st(j) + o]
        <5>1. st(j) <= st(j) + o /\ j - 1 < j
          BY <1>1, <1>2
        <5>. QED
          BY <5>1, <4>1, <1>3, <2>1
      <4>. QED
        BY <4>2, <4>3, <4>4, <2>1, <1>13, Zenon
    <3>. QED
      BY <3>1, <3>2
  <2>2. CASE k # j
    <3>1. i < k /\ k <= j - 1 /\ k \in 1 .. n
      BY <2>2, <1>17, <1>1
    <3>2. is(k) = was(k)
      BY <3>1, <1>12
    <3>3. /\ from <= was(k) /\ was(k) + size(k) <= acc.ptr
          /\ \A o \in 0 .. size(k) - 1 : q.bytes[was(k) + o] = p.bytes[st(k) + o]
      BY <3>1, <1>3
    <3>4. was(k) \in Nat
      <4>1. At(q, order, k) \in HeaderRec
        BY <1>7, <3>1 DEF At, IsPage, Permutes
      <4>. QED
        BY <4>1, <1>1 DEF HeaderRec, Addresses
    <3>5. from <= is(k) /\ is(k) + size(k) <= out.ptr
      BY <3>2, <3>3, <3>4, <3>1, <1>8, <1>1, <1>2, <1>3, SMTT(30)
    <3>6. ASSUME NEW o \in 0 .. size(k) - 1 PROVE r.bytes[is(k) + o] = p.bytes[st(k) + o]
      <4>1. was(k) + o \in Addresses /\ was(k) + o < acc.ptr
        BY SMTT(30), <3>3, <3>4, <3>1, <1>1, <1>2, <1>3 DEF Addresses
      <4>2. r.bytes[was(k) + o] = q.bytes[was(k) + o]
        BY <4>1, <1>14
      <4>. QED
        BY <4>2, <3>2, <3>3
    <3>. QED
      BY <3>5, <3>6
  <2>. QED
    BY <2>1, <2>2
<1>18. ASSUME NEW k \in A, NEW l \in A, i < k, k < l, l <= j
       PROVE  is(k) + size(k) <= is(l)
  <2>1. k \in 1 .. n /\ l \in 1 .. n /\ k <= j - 1 /\ i < l
    BY <1>18, <1>1
  <2>2. is(k) = was(k) /\ was(k) + size(k) <= acc.ptr
    BY <2>1, <1>18, <1>12, <1>3
  <2>3. CASE l = j
    BY <2>3, <2>2, <1>13
  <2>4. CASE l # j
    <3>1. l <= j - 1
      BY <2>4, <2>1, <1>18, <1>1
    <3>. QED
      BY <3>1, <2>1, <2>2, <1>18, <1>12, <1>3
  <2>. QED
    BY <2>3, <2>4
<1>19. ASSUME NEW a \in from .. out.ptr - 1
       PROVE  \E k \in A : i < k /\ k <= j /\ is(k) <= a /\ a < is(k) + size(k)
  <2>1. CASE a < acc.ptr
    <3>1. a \in from .. acc.ptr - 1
      BY <2>1, <1>11, <1>3, <1>2, <1>1
    <3>2. PICK k \in A : i < k /\ k <= j - 1 /\ was(k) <= a /\ a < was(k) + size(k)
      BY <3>1, <1>3
    <3>3. is(k) = was(k) /\ k <= j
      BY <3>2, <1>12, <1>1
    <3>. QED
      BY <3>2, <3>3
  <2>2. CASE ~(a < acc.ptr)
    <3>1. size(j) # 0 /\ acc.ptr <= a /\ a < acc.ptr + size(j)
      BY <2>2, <1>8, <1>11, <1>3, <1>2, <1>1
    <3>. QED
      BY <3>1, <1>5, <1>13, <1>1
  <2>. QED
    BY <2>1, <2>2
<1> HIDE DEF st, size, is, was
<1>20. /\ \A k \in done : At(r, order, k).size = size(k)
       /\ \A k \in done : k \in A /\ i < k /\ k <= j
  BY <1>12, <1>1
<1>. QED
  BY <1>10, <1>11, <1>12, <1>15, <1>16, <1>17, <1>18, <1>19, <1>20 DEF Moving, st, size, is

\* All records behind the gap have moved (record_block.go:341-354).
LEMMA MovedAll ==
    ASSUME NEW p, IsPage(p), NEW n, n = Len(p.headers), NEW order, Permutes(order, n),
           NEW sz, NEW A, NEW E, Laid(p, order, sz, A, E), NEW i \in A
    PROVE  Moving(p, order, A, E, i, n, ShiftAll(p, order, i))
<1>1. n \in Nat /\ i \in 1 .. n /\ A \subseteq 1 .. n /\ E \in Nat /\ PageSize \in Nat
  BY PageAssumption DEF IsPage, Laid, Addresses
<1>2. PICK moved : ShiftLoop(moved, p, order, i, n)
  BY <1>1, ShiftAllIs
<1> DEFINE Ok(j) == Moving(p, order, A, E, i, j, moved[j])
           bad == {j \in i .. n : ~Ok(j)}
<1>3. Ok(i)
  <2>1. moved[i].page = p /\ moved[i].ptr = At(p, order, i).start
    BY <1>2 DEF At, ShiftLoop
  <2>2. At(p, order, i).start \in Nat /\ At(p, order, i).start <= E
    <3>1. order[i] \in 1 .. n
      BY <1>1 DEF Permutes
    <3>2. At(p, order, i) \in HeaderRec
      BY <3>1 DEF At, IsPage
    <3>3. At(p, order, i).start \in Nat
      BY <3>2, <1>1 DEF HeaderRec, Addresses
    <3>. QED
      BY <3>3, <1>1 DEF Laid
  <2>3. ASSUME NEW k \in A, i < k PROVE At(p, order, i).start <= At(p, order, k).start
    <3>1. At(p, order, i).start + sz[i] <= At(p, order, k).start /\ sz[i] \in Nat
      BY <2>3 DEF Laid
    <3>2. At(p, order, k) \in HeaderRec
      BY <1>1 DEF At, IsPage, Permutes
    <3>3. At(p, order, k).start \in Nat
      BY <3>2, <1>1 DEF HeaderRec, Addresses
    <3>. QED
      BY <3>1, <3>3, <2>2
  <2>4. SameBlock(p, p)
    BY DEF SameBlock
  <2>5. {k \in A : i < k /\ k <= i} = {}
    <3>1. \A k \in A : k \in Nat
      BY <1>1
    <3>2. \A k \in A : ~(i < k /\ k <= i)
      BY <3>1, <1>1
    <3>. QED
      BY <3>2, Zenon
  <2>6. At(p, order, i).start .. At(p, order, i).start - 1 = {}
    BY <2>2
  <2>. QED
    BY <2>1, <2>2, <2>3, <2>4, <2>5, <2>6 DEF Moving
<1>4. ASSUME NEW j \in i + 1 .. n, Ok(j - 1) PROVE Ok(j)
  <2>1. moved[j] = ShiftDown(moved[j - 1], order[j])
    BY <1>2 DEF ShiftLoop
  <2> DEFINE acc == moved[j - 1]
             out == moved[j]
  <2>2. Moving(p, order, A, E, i, j - 1, acc) /\ out = ShiftDown(acc, order[j])
    BY <1>4, <2>1
  <2> HIDE DEF acc, out
  <2>3. Moving(p, order, A, E, i, j, out)
    BY <2>2, MovingStep
  <2>. QED
    BY <2>3 DEF out
<1> HIDE DEF Ok
<1>5. bad = {}
  <2> SUFFICES ASSUME bad # {} PROVE FALSE
    OBVIOUS
  <2>1. PICK m \in bad : \A k \in bad : m <= k
    <3>1. bad \in SUBSET Nat
      BY <1>1
    <3> HIDE DEF bad
    <3>. QED
      BY <3>1, LeastNatural, Zenon
  <2>2. m # i /\ m \in i .. n
    BY <1>3
  <2>3. m - 1 \in i .. n /\ m - 1 \notin bad /\ m \in i + 1 .. n
    BY <2>1, <2>2, <1>1
  <2>4. Ok(m - 1)
    BY <2>3, Zenon
  <2>. QED
    BY <1>4, <2>3, <2>4, Zenon
<1>6. n \in i .. n
  BY <1>1
<1>. QED
  BY <1>5, <1>6, <1>2, Zenon DEF Ok, ShiftLoop

\* What a round of defragment that closes a gap leaves: the header at position i without
\* bytes, the others with theirs.
GapClosed(q, p, order, i) ==
    LET n == Len(p.headers) IN
    /\ SameBlock(q, p)
    /\ \A k \in 1 .. n : /\ At(q, order, k).id = At(p, order, k).id
                         /\ At(q, order, k).chain = At(p, order, k).chain
                         /\ At(q, order, k).size = IF k = i THEN 0 ELSE At(p, order, k).size
    /\ \A k \in 1 .. n : k # i => \A o \in 0 .. At(p, order, k).size - 1 :
          q.bytes[At(q, order, k).start + o] = p.bytes[At(p, order, k).start + o]

\* The bytes a header has then: those behind the gap, what their sizes say.
SizesBehind(p, order, sz, i) ==
    [k \in 1 .. Len(p.headers) |-> IF k < i THEN sz[k] ELSE At(p, order, k).size]

\* Header m has no bytes and starts at `to`.
Emptied(q, p, m, to) ==
    /\ SameBlock(q, p) /\ q.bytes = p.bytes
    /\ \A k \in 1 .. Len(p.headers) : k # m => q.headers[k] = p.headers[k]
    /\ q.headers[m].id = p.headers[m].id /\ q.headers[m].chain = p.headers[m].chain
    /\ q.headers[m].size = 0 /\ q.headers[m].start = to

\* Two fields of a header (record_block.go:355-359).
LEMMA HeaderEmptied ==
    ASSUME NEW p, IsPage(p), NEW m \in 1 .. Len(p.headers), NEW to \in Addresses
    PROVE  Emptied([p EXCEPT !.headers[m].size = 0, !.headers[m].start = to], p, m, to)
<1> DEFINE h == p.headers[m]
           e == [id |-> h.id, start |-> to, size |-> 0, chain |-> h.chain]
           hs == [p.headers EXCEPT ![m] = e]
<1>1. h \in HeaderRec /\ p.headers \in Seq(HeaderRec) /\ p.used \in Nat
  BY DEF IsPage
<1>2. h = [id |-> h.id, start |-> h.start, size |-> h.size, chain |-> h.chain]
      /\ h.id \in Nat /\ h.chain \in RowIDs
  BY <1>1 DEF HeaderRec
<1>3. /\ e \in HeaderRec /\ e.id = h.id /\ e.size = 0 /\ e.chain = h.chain /\ e.start = to
  <2>1. 0 \in 0 .. PageSize
    BY PageAssumption
  <2> HIDE DEF h
  <2>. QED
    BY <2>1, <1>2 DEF HeaderRec
<1>4. /\ hs \in Seq(HeaderRec) /\ Len(hs) = Len(p.headers)
      /\ hs[m] = e /\ \A k \in 1 .. Len(p.headers) : k # m => hs[k] = p.headers[k]
  <2> HIDE DEF e
  <2>. QED
    BY <1>1, <1>3, HeaderWritten
<1>5. [[p.headers EXCEPT ![m].size = 0] EXCEPT ![m].start = to] = hs
  <2>1. [[h EXCEPT !.size = 0] EXCEPT !.start = to] = e
    <3> DEFINE u == [id |-> h.id, start |-> h.start, size |-> 0, chain |-> h.chain]
    <3>1. [h EXCEPT !.size = 0] = u
      BY <1>2
    <3>2. [u EXCEPT !.start = to] = e
      OBVIOUS
    <3> HIDE DEF u, e
    <3>. QED
      BY <3>1, <3>2, Zenon
  <2>2. [[p.headers EXCEPT ![m].size = 0] EXCEPT ![m].start = to]
          = [p.headers EXCEPT ![m] = [[h EXCEPT !.size = 0] EXCEPT !.start = to]]
    BY <1>1
  <2> HIDE DEF e
  <2>. QED
    BY <2>1, <2>2, Zenon
<1>6. [p EXCEPT !.headers[m].size = 0, !.headers[m].start = to] =
        [bytes |-> p.bytes, headers |-> hs, used |-> p.used, next |-> p.next, prev |-> p.prev]
  <2>1. p = [bytes |-> p.bytes, headers |-> p.headers, used |-> p.used, next |-> p.next, prev |-> p.prev]
    BY DEF IsPage
  <2>2. ASSUME NEW x, NEW was,
               x = [bytes |-> p.bytes, headers |-> was, used |-> p.used, next |-> p.next, prev |-> p.prev]
        PROVE  [x EXCEPT !.headers[m].size = 0]
                 = [bytes |-> p.bytes, headers |-> [was EXCEPT ![m].size = 0],
                    used |-> p.used, next |-> p.next, prev |-> p.prev]
    BY <2>2
  <2>3. ASSUME NEW x, NEW was,
               x = [bytes |-> p.bytes, headers |-> was, used |-> p.used, next |-> p.next, prev |-> p.prev]
        PROVE  [x EXCEPT !.headers[m].start = to]
                 = [bytes |-> p.bytes, headers |-> [was EXCEPT ![m].start = to],
                    used |-> p.used, next |-> p.next, prev |-> p.prev]
    BY <2>3
  <2>4. [[p EXCEPT !.headers[m].size = 0] EXCEPT !.headers[m].start = to]
          = [bytes |-> p.bytes, headers |-> [[p.headers EXCEPT ![m].size = 0] EXCEPT ![m].start = to],
             used |-> p.used, next |-> p.next, prev |-> p.prev]
    <3> DEFINE y == [p EXCEPT !.headers[m].size = 0]
               was == [p.headers EXCEPT ![m].size = 0]
    <3>1. y = [bytes |-> p.bytes, headers |-> was, used |-> p.used, next |-> p.next, prev |-> p.prev]
      BY <2>1, <2>2, Zenon
    <3> HIDE DEF y, was
    <3>2. [y EXCEPT !.headers[m].start = to]
            = [bytes |-> p.bytes, headers |-> [was EXCEPT ![m].start = to],
               used |-> p.used, next |-> p.next, prev |-> p.prev]
      BY <3>1, <2>3, Zenon
    <3>. QED
      BY <3>2, Zenon DEF y, was
  <2>5. [p EXCEPT !.headers[m].size = 0, !.headers[m].start = to]
          = [[p EXCEPT !.headers[m].size = 0] EXCEPT !.headers[m].start = to]
    BY Zenon
  <2>. QED
    BY <2>4, <2>5, <1>5, Zenon
<1> HIDE DEF hs
<1>7. ASSUME NEW q, q = [bytes |-> p.bytes, headers |-> hs, used |-> p.used, next |-> p.next, prev |-> p.prev]
      PROVE  Emptied(q, p, m, to)
  <2>1. /\ q.bytes = p.bytes /\ q.headers = hs /\ q.used = p.used /\ q.next = p.next /\ q.prev = p.prev
    BY <1>7, PageFields, Zenon
  <2>2. IsPage(q)
    <3>1. p.bytes = [a \in Addresses |-> p.bytes[a]]
      BY DEF IsPage
    <3>. QED
      BY <3>1, <1>1, <1>4, <1>7, <2>1 DEF IsPage
  <2>. QED
    BY <1>3, <1>4, <2>1, <2>2 DEF SameBlock, Emptied
<1>. QED
  BY <1>6, <1>7

\* A round that closes a gap: the layout loses one header, the other records keep their
\* bytes (record_block.go:341-360).
LEMMA CloseGapIs ==
    ASSUME NEW p, IsPage(p), NEW n, n = Len(p.headers), NEW order, Permutes(order, n),
           NEW sz, NEW A, NEW E, Laid(p, order, sz, A, E), NEW i \in A,
           ~((At(p, order, i).id = 0) = (At(p, order, i).size = 0)),
           NEW q, q = CloseGap(p, order, i)
    PROVE  /\ GapClosed(q, p, order, i)
           /\ \E E2 \in Nat : Laid(q, order, SizesBehind(p, order, sz, i), A \ {i}, E2)
<1> DEFINE end == ShiftAll(p, order, i)
           r == end.page
           m == order[i]
           from == At(p, order, i).start
           E2 == end.ptr
           s2 == SizesBehind(p, order, sz, i)
           st(k) == At(p, order, k).start
           size(k) == At(p, order, k).size
           mid(k) == At(r, order, k).start
           is(k) == At(q, order, k).start
<1>1. /\ n \in Nat /\ i \in 1 .. n /\ i \in Nat
      /\ A \subseteq 1 .. n /\ E \in Nat /\ E < PageSize /\ PageSize \in Nat
  BY PageAssumption DEF Laid, IsPage, Addresses
<1>2. /\ \A k \in 1 .. n : st(k) \in Nat /\ size(k) \in Nat
      /\ \A k \in A : sz[k] \in Nat /\ st(k) + sz[k] <= E /\ (size(k) # 0 => sz[k] = size(k))
      /\ \A k, l \in A : k < l => st(k) + sz[k] <= st(l)
      /\ \A a \in 0 .. E - 1 : \E k \in A : st(k) <= a /\ a < st(k) + sz[k]
      /\ \A k \in 1 .. n : size(k) # 0 => k \in A
  <2>1. \A k \in 1 .. n : order[k] \in 1 .. n
    BY DEF Permutes
  <2>2. \A k \in 1 .. n : At(p, order, k) \in HeaderRec
    BY <2>1 DEF At, IsPage
  <2>3. \A k \in 1 .. n : st(k) \in Nat /\ size(k) \in Nat
    BY <2>2, PageAssumption DEF HeaderRec, Addresses
  <2>. QED
    BY <2>3 DEF Laid
<1>3. Moving(p, order, A, E, i, n, end)
  <2>1. ASSUME NEW x, x = ShiftAll(p, order, i) PROVE Moving(p, order, A, E, i, n, x)
    BY <2>1, MovedAll
  <2>. QED
    BY <2>1
<1>4. /\ SameBlock(r, p)
      /\ E2 \in Nat /\ from <= E2 /\ E2 <= E
      /\ \A k \in 1 .. n : /\ At(r, order, k).id = At(p, order, k).id
                           /\ At(r, order, k).size = size(k)
                           /\ At(r, order, k).chain = At(p, order, k).chain
                           /\ k <= i => mid(k) = st(k)
      /\ \A a \in Addresses : a < from => r.bytes[a] = p.bytes[a]
      /\ \A k \in A : i < k =>
            /\ from <= mid(k) /\ mid(k) + size(k) <= E2
            /\ \A o \in 0 .. size(k) - 1 : r.bytes[mid(k) + o] = p.bytes[st(k) + o]
      /\ \A k, l \in A : i < k /\ i < l /\ k < l => mid(k) + size(k) <= mid(l)
      /\ \A a \in from .. E2 - 1 : \E k \in A : i < k /\ mid(k) <= a /\ a < mid(k) + size(k)
  <2>1. \A k \in A : k <= n /\ k \in 1 .. n
    BY <1>1
  <2> HIDE DEF end
  <2>. QED
    BY <1>3, <2>1 DEF Moving
<1>5. q = [r EXCEPT !.headers[m].size = 0, !.headers[m].start = E2]
  <2>1. ~((p.headers[order[i]].id = 0) = (p.headers[order[i]].size = 0))
    BY DEF At
  <2>. QED
    BY <2>1, Zenon DEF CloseGap
<1>6. Emptied(q, r, m, E2)
  <2>1. IsPage(r) /\ m \in 1 .. Len(r.headers) /\ E2 \in Addresses
    BY <1>1, <1>4 DEF SameBlock, Permutes, Addresses
  <2> HIDE DEF r, m, E2
  <2>2. Emptied([r EXCEPT !.headers[m].size = 0, !.headers[m].start = E2], r, m, E2)
    BY <2>1, HeaderEmptied
  <2>. QED
    BY <2>2, <1>5, Zenon
<1>7. /\ SameBlock(q, p) /\ q.bytes = r.bytes
      /\ \A k \in 1 .. n : k # i => At(q, order, k) = At(r, order, k)
      /\ At(q, order, i).id = At(p, order, i).id /\ At(q, order, i).chain = At(p, order, i).chain
      /\ At(q, order, i).size = 0 /\ At(q, order, i).start = E2
  <2>1. SameBlock(q, p) /\ q.bytes = r.bytes
    BY <1>4, <1>6 DEF Emptied, SameBlock
  <2>2. \A k \in 1 .. n : k # i => order[k] # m /\ order[k] \in 1 .. Len(r.headers)
    BY <1>1, <1>4 DEF Permutes, SameBlock
  <2>3. \A k \in 1 .. n : k # i => At(q, order, k) = At(r, order, k)
    BY <2>2, <1>6 DEF Emptied, At
  <2>4. At(r, order, i).id = At(p, order, i).id /\ At(r, order, i).chain = At(p, order, i).chain
    BY <1>4, <1>1
  <2>5. /\ At(q, order, i).id = At(r, order, i).id /\ At(q, order, i).chain = At(r, order, i).chain
        /\ At(q, order, i).size = 0 /\ At(q, order, i).start = E2
    BY <1>6 DEF Emptied, At
  <2>. QED
    BY <2>1, <2>3, <2>4, <2>5
<1> HIDE DEF end, E2, r
<1>8. ASSUME NEW k \in 1 .. n
      PROVE  /\ At(q, order, k).id = At(p, order, k).id
             /\ At(q, order, k).chain = At(p, order, k).chain
             /\ At(q, order, k).size = IF k = i THEN 0 ELSE size(k)
             /\ k # i => is(k) = mid(k)
  <2>1. CASE k = i
    BY <2>1, <1>7
  <2>2. CASE k # i
    BY <2>2, <1>7, <1>4
  <2>. QED
    BY <2>1, <2>2
<1>9. \A k \in 1 .. n : mid(k) \in Nat
  <2>1. \A k \in 1 .. n : order[k] \in 1 .. n
    BY DEF Permutes
  <2>2. \A k \in 1 .. n : At(r, order, k) \in HeaderRec
    BY <2>1, <1>4 DEF At, IsPage, SameBlock
  <2>. QED
    BY <2>2, <1>1 DEF HeaderRec, Addresses
<1>10. ASSUME NEW k \in 1 .. n, k # i, NEW o \in 0 .. size(k) - 1
       PROVE  q.bytes[is(k) + o] = p.bytes[st(k) + o]
  <2>1. k \in A /\ sz[k] = size(k)
    <3>1. size(k) # 0
      BY <1>2
    <3>. QED
      BY <3>1, <1>2
  <2>2. CASE i < k
    BY <2>1, <2>2, <1>4, <1>8, <1>10, <1>7
  <2>3. CASE k < i
    <3>1. is(k) = st(k)
      BY <2>3, <1>8, <1>4, <1>1
    <3>2. st(k) + sz[k] <= from
      BY <2>1, <2>3, <1>2
    <3>3. st(k) + o \in Addresses /\ st(k) + o < from
      <4>1. /\ st(k) \in Nat /\ sz[k] \in Nat /\ from \in Nat /\ from < PageSize /\ o \in 0 .. sz[k] - 1
        BY <2>1, <1>2, <1>4, <1>1
      <4> HIDE DEF st, from
      <4>. QED
        BY <4>1, <3>2, <1>1, SMTT(30) DEF Addresses
    <3>. QED
      BY <3>1, <3>3, <1>4, <1>7
  <2>. QED
    BY <2>2, <2>3, <1>10, <1>1
<1>11. GapClosed(q, p, order, i)
  BY <1>7, <1>8, <1>10 DEF GapClosed
<1>12. \A k \in 1 .. n : s2[k] = IF k < i THEN sz[k] ELSE size(k)
  BY DEF SizesBehind
<1>13. ASSUME NEW k \in A, k < i
       PROVE  k \in 1 .. n /\ is(k) = st(k) /\ s2[k] = sz[k] /\ st(k) + sz[k] <= from /\ sz[k] \in Nat
  BY <1>13, <1>1, <1>2, <1>4, <1>8, <1>12
<1>14. ASSUME NEW k \in A, i < k
       PROVE  k \in 1 .. n /\ is(k) = mid(k) /\ s2[k] = size(k) /\ from <= mid(k) /\ mid(k) + size(k) <= E2
  BY <1>14, <1>1, <1>2, <1>4, <1>8, <1>12
<1> HIDE DEF s2
<1>15. ASSUME NEW k \in A \ {i}
       PROVE  /\ s2[k] \in Nat /\ is(k) + s2[k] <= E2
              /\ At(q, order, k).size # 0 => s2[k] = At(q, order, k).size
  <2>1. k \in 1 .. n /\ k # i
    BY <1>1
  <2>2. size(k) \in Nat /\ (size(k) # 0 => sz[k] = size(k)) /\ At(q, order, k).size = size(k)
    BY <2>1, <1>2, <1>8
  <2>3. from \in Nat /\ from <= E2 /\ E2 \in Nat /\ st(k) \in Nat
    BY <2>1, <1>1, <1>2, <1>4
  <2>4. CASE k < i
    <3>1. is(k) = st(k) /\ s2[k] = sz[k] /\ st(k) + sz[k] <= from /\ sz[k] \in Nat
      BY <2>4, <1>13
    <3> HIDE DEF is, st, size, from
    <3>. QED
      BY <3>1, <2>2, <2>3
  <2>5. CASE i < k
    <3>1. is(k) = mid(k) /\ s2[k] = size(k) /\ mid(k) + size(k) <= E2
      BY <2>5, <1>14
    <3> HIDE DEF is, mid, size, from
    <3>. QED
      BY <3>1, <2>2
  <2>. QED
    BY <2>1, <2>4, <2>5, <1>1
<1>16. ASSUME NEW k \in A \ {i}, NEW l \in A \ {i}, k < l
       PROVE  is(k) + s2[k] <= is(l)
  <2>1. k \in 1 .. n /\ l \in 1 .. n /\ k # i /\ l # i
    BY <1>1
  <2>2. CASE k < i /\ l < i
    BY <2>2, <1>13, <1>2, <1>16
  <2>3. CASE k < i /\ i < l
    <3>1. is(k) + s2[k] <= from /\ from <= is(l)
      BY <2>3, <1>13, <1>14
    <3>2. is(k) \in Nat /\ s2[k] \in Nat /\ from \in Nat /\ is(l) \in Nat
      BY <2>3, <2>1, <1>13, <1>14, <1>9, <1>2, <1>1
    <3> HIDE DEF is, from
    <3>. QED
      BY <3>1, <3>2
  <2>4. CASE i < k /\ i < l
    BY <2>4, <1>14, <1>4, <1>16
  <2>. QED
    BY <2>1, <2>2, <2>3, <2>4, <1>16, <1>1
<1>17. ASSUME NEW a \in 0 .. E2 - 1
       PROVE  \E k \in A \ {i} : is(k) <= a /\ a < is(k) + s2[k]
  <2>1. CASE a < from
    <3>1. a \in 0 .. E - 1
      BY <1>4, <1>1
    <3>2. PICK k \in A : st(k) <= a /\ a < st(k) + sz[k]
      BY <3>1, <1>2
    <3>3. k < i
      <4>1. CASE k = i
        BY <4>1, <3>2, <2>1, <1>1, <1>2
      <4>2. CASE i < k
        <5>1. from + sz[i] <= st(k) /\ from \in Nat /\ sz[i] \in Nat /\ st(k) \in Nat
          BY <4>2, <1>1, <1>2
        <5> HIDE DEF from, st
        <5>. QED
          BY <5>1, <3>2, <2>1, <1>4
      <4>. QED
        BY <4>1, <4>2, <1>1
    <3>. QED
      BY <3>2, <3>3, <1>13, <1>1
  <2>2. CASE ~(a < from)
    <3>1. a \in from .. E2 - 1
      BY <2>2, <1>2, <1>4, <1>1
    <3>2. PICK k \in A : i < k /\ mid(k) <= a /\ a < mid(k) + size(k)
      BY <3>1, <1>4
    <3>. QED
      BY <3>2, <1>14, <1>1
  <2>. QED
    BY <2>1, <2>2
<1>18. ASSUME NEW k \in 1 .. n, At(q, order, k).size # 0 PROVE k \in A \ {i}
  BY <1>18, <1>8, <1>2
<1>19. Len(q.headers) = n /\ E2 \in Addresses /\ A \ {i} \subseteq 1 .. n
  BY <1>7, <1>4, <1>1 DEF SameBlock, Addresses
<1> HIDE DEF is
<1>20. Laid(q, order, s2, A \ {i}, E2)
  BY <1>15, <1>16, <1>17, <1>18, <1>19 DEF Laid, is
<1>. QED
  BY <1>11, <1>20, <1>4 DEF s2

-----------------------------------------------------------------------------
(* Defragment                                                              *)

\* sort.Sort loses no header (record_block.go:328, 366-410).
LEMMA EveryHeaderHasAPlace ==
    ASSUME NEW n \in Nat, NEW order, Permutes(order, n)
    PROVE  \A m \in 1 .. n : \E k \in 1 .. n : order[k] = m
<1>1. order \in Injection(1 .. n, 1 .. n)
  BY DEF Permutes, Injection, IsInjective
<1>2. IsFiniteSet(1 .. n)
  BY FS_Interval
<1>3. order \in Surjection(1 .. n, 1 .. n)
  BY <1>1, <1>2, FS_Injection
<1>. QED
  BY <1>3 DEF Surjection

\* z[m] bytes from where header m starts belong to it, and these fill the first E bytes.
Fill(hs, z, E) ==
    LET N == 1 .. Len(hs) IN
    /\ E \in Addresses
    /\ \A m \in N : z[m] \in Nat /\ (z[m] # 0 => hs[m].start + z[m] <= E)
    /\ \A m, l \in N : m # l /\ z[m] # 0 /\ z[l] # 0 =>
          hs[m].start + z[m] <= hs[l].start \/ hs[l].start + z[l] <= hs[m].start
    /\ \A a \in 0 .. E - 1 : \E m \in N : hs[m].start <= a /\ a < hs[m].start + z[m]

\* A header's bytes are those its size says; a soft removed one, which has none, still
\* stands for some.
Owned(hs, z) ==
    \A m \in 1 .. Len(hs) :
        /\ hs[m].size # 0 => z[m] = hs[m].size
        /\ hs[m].id = 0 /\ hs[m].size = 0 => z[m] = 0
        /\ hs[m].id # 0 => z[m] # 0

SizesOf(hs) == [m \in 1 .. Len(hs) |-> hs[m].size]

\* The positions whose headers have bytes of their own before round i + 1: records, and
\* gaps not reached yet.
Active(p, order, i) ==
    {k \in 1 .. Len(p.headers) :
        \/ At(p, order, k).id # 0 /\ At(p, order, k).size # 0
        \/ i < k /\ ~((At(p, order, k).id = 0) = (At(p, order, k).size = 0))}

\* Page q is p after i rounds of defragment.
Tidied(q, p, order, i) ==
    LET n == Len(p.headers) IN
    /\ SameBlock(q, p)
    /\ \A k \in 1 .. n :
          /\ At(q, order, k).id = At(p, order, k).id
          /\ At(q, order, k).chain = At(p, order, k).chain
          /\ At(q, order, k).size =
                IF k <= i /\ At(p, order, k).id = 0 THEN 0 ELSE At(p, order, k).size
    /\ \A k \in 1 .. n : At(p, order, k).id # 0 => \A o \in 0 .. At(p, order, k).size - 1 :
          q.bytes[At(q, order, k).start + o] = p.bytes[At(p, order, k).start + o]
    /\ \E sz, E : Laid(q, order, sz, Active(p, order, i), E)

\* Before the first round the sorted headers lie one behind the other
\* (record_block.go:328).
LEMMA SortedIsLaid ==
    ASSUME NEW p, IsPage(p), NEW order \in Orders(p.headers),
           NEW z, NEW E, Fill(p.headers, z, E), Owned(p.headers, z)
    PROVE  Permutes(order, Len(p.headers)) /\ Tidied(p, p, order, 0)
<1> DEFINE hs == p.headers
           n == Len(p.headers)
           A == Active(p, order, 0)
           sz == [k \in 1 .. n |-> z[order[k]]]
<1>1. n \in Nat /\ DOMAIN hs = 1 .. n /\ hs \in Seq(HeaderRec)
  BY DEF IsPage
<1>2. Permutes(order, n) /\ \A k, l \in 1 .. n : k < l => At(p, order, k).start <= At(p, order, l).start
  BY <1>1 DEF Orders, Permutes, At
<1>3. \A k \in 1 .. n : order[k] \in 1 .. n /\ sz[k] = z[order[k]] /\ At(p, order, k) = hs[order[k]]
  BY <1>2 DEF Permutes, At
<1>4. \A m \in 1 .. n : hs[m].start \in Nat /\ hs[m].size \in Nat /\ z[m] \in Nat
  <2>1. \A m \in 1 .. n : hs[m] \in HeaderRec
    BY <1>1
  <2>. QED
    BY <2>1, PageAssumption DEF HeaderRec, Addresses, Fill
<1> HIDE DEF sz
<1>5. \A k \in 1 .. n : k \in A <=> sz[k] # 0
  <2>1. ASSUME NEW k \in 1 .. n
        PROVE  k \in A <=> (hs[order[k]].id # 0 \/ hs[order[k]].size # 0)
    <3>1. 0 < k
      BY <1>1
    <3>. QED
      BY <3>1, <1>3, <2>1, Zenon DEF Active
  <2>2. \A m \in 1 .. n : (hs[m].id # 0 \/ hs[m].size # 0) <=> z[m] # 0
    BY <1>4 DEF Owned
  <2>. QED
    BY <2>1, <2>2, <1>3
<1>6. Laid(p, order, sz, A, E)
  <2>1. A \subseteq 1 .. n /\ E \in Addresses
    BY DEF Active, Fill
  <2>2. ASSUME NEW k \in A
        PROVE  /\ sz[k] \in Nat /\ At(p, order, k).start + sz[k] <= E
               /\ At(p, order, k).size # 0 => sz[k] = At(p, order, k).size
    <3>1. k \in 1 .. n /\ order[k] \in 1 .. n /\ z[order[k]] # 0
      BY <2>1, <1>3, <1>5
    <3>2. hs[order[k]].start + z[order[k]] <= E /\ z[order[k]] \in Nat
          /\ (hs[order[k]].size # 0 => z[order[k]] = hs[order[k]].size)
      BY <3>1 DEF Fill, Owned
    <3>. QED
      BY <3>1, <3>2, <1>3
  <2>3. ASSUME NEW k \in A, NEW l \in A, k < l
        PROVE  At(p, order, k).start + sz[k] <= At(p, order, l).start
    <3>1. k \in 1 .. n /\ l \in 1 .. n /\ order[k] \in 1 .. n /\ order[l] \in 1 .. n
          /\ z[order[k]] # 0 /\ z[order[l]] # 0
      BY <2>1, <1>3, <1>5
    <3>2. order[k] # order[l]
      BY <3>1, <2>3, <1>2, <1>1 DEF Permutes
    <3>3. hs[order[k]].start <= hs[order[l]].start
      BY <3>1, <2>3, <1>2, <1>3
    <3>4. \/ hs[order[k]].start + z[order[k]] <= hs[order[l]].start
          \/ hs[order[l]].start + z[order[l]] <= hs[order[k]].start
      BY <3>1, <3>2 DEF Fill
    <3>5. hs[order[k]].start \in Nat /\ hs[order[l]].start \in Nat /\ z[order[k]] \in Nat /\ z[order[l]] \in Nat
      BY <3>1, <1>4
    <3>6. hs[order[k]].start + z[order[k]] <= hs[order[l]].start
      BY SMTT(30), <3>1, <3>3, <3>4, <3>5
    <3>. QED
      BY <3>1, <3>6, <1>3
  <2>4. ASSUME NEW a \in 0 .. E - 1
        PROVE  \E k \in A : At(p, order, k).start <= a /\ a < At(p, order, k).start + sz[k]
    <3>1. PICK m \in 1 .. n : hs[m].start <= a /\ a < hs[m].start + z[m]
      BY DEF Fill
    <3>2. z[m] # 0
      BY <3>1, <1>4
    <3>3. PICK k \in 1 .. n : order[k] = m
      BY <1>1, <1>2, EveryHeaderHasAPlace
    <3>. QED
      BY <3>1, <3>2, <3>3, <1>3, <1>5
  <2>5. \A k \in 1 .. n : At(p, order, k).size # 0 => k \in A
    BY <1>3, <1>4, <1>5 DEF Owned
  <2>. QED
    BY <2>1, <2>2, <2>3, <2>4, <2>5 DEF Laid
<1>7. SameBlock(p, p)
  BY DEF SameBlock
<1>8. \A k \in 1 .. n : ~(k <= 0)
  BY <1>1
<1>. QED
  BY <1>2, <1>6, <1>7, <1>8 DEF Tidied

\* Every round keeps it (record_block.go:330-361).
LEMMA TidiedStep ==
    ASSUME NEW p, IsPage(p), NEW n, n = Len(p.headers), NEW order, Permutes(order, n),
           NEW i \in 1 .. n, NEW r, Tidied(r, p, order, i - 1),
           NEW q, q = CloseGap(r, order, i)
    PROVE  Tidied(q, p, order, i)
<1> DEFINE A == Active(p, order, i - 1)
           idle == (At(p, order, i).id = 0) = (At(p, order, i).size = 0)
<1>1. n \in Nat /\ i \in Nat /\ 1 <= i /\ i <= n /\ order[i] \in 1 .. n
  BY DEF IsPage, Permutes
<1>2. /\ SameBlock(r, p)
      /\ \A k \in 1 .. n :
            /\ At(r, order, k).id = At(p, order, k).id
            /\ At(r, order, k).chain = At(p, order, k).chain
            /\ At(r, order, k).size =
                  IF k <= i - 1 /\ At(p, order, k).id = 0 THEN 0 ELSE At(p, order, k).size
      /\ \A k \in 1 .. n : At(p, order, k).id # 0 => \A o \in 0 .. At(p, order, k).size - 1 :
            r.bytes[At(r, order, k).start + o] = p.bytes[At(p, order, k).start + o]
  BY DEF Tidied
<1>3. PICK sz, E : Laid(r, order, sz, A, E)
  BY DEF Tidied
<1>4. At(r, order, i).id = At(p, order, i).id /\ At(r, order, i).size = At(p, order, i).size
  BY <1>1, <1>2
<1>5. IsPage(r) /\ Len(r.headers) = n
  BY <1>2 DEF SameBlock
<1>6. CASE idle
  <2>1. q = r
    <3>1. (r.headers[order[i]].id = 0) = (r.headers[order[i]].size = 0)
      BY <1>4, <1>6 DEF At
    <3>. QED
      BY <3>1, Zenon DEF CloseGap
  <2>2. Active(p, order, i) = A
    <3>1. ASSUME NEW k \in 1 .. n PROVE k \in Active(p, order, i) <=> k \in A
      <4>1. CASE k = i
        BY <4>1, <1>6, <1>1 DEF Active
      <4>2. CASE k # i
        <5>1. i < k <=> i - 1 < k
          BY <4>2, <1>1
        <5>. QED
          BY <5>1, Zenon DEF Active
      <4>. QED
        BY <4>1, <4>2
    <3>2. Active(p, order, i) \subseteq 1 .. n /\ A \subseteq 1 .. n
      BY DEF Active
    <3> HIDE DEF A
    <3>. QED
      BY <3>1, <3>2
  <2>3. ASSUME NEW k \in 1 .. n
        PROVE  At(r, order, k).size = IF k <= i /\ At(p, order, k).id = 0 THEN 0 ELSE At(p, order, k).size
    <3>1. CASE k = i
      BY <3>1, <1>6, <1>4, <1>1
    <3>2. CASE k # i
      <4>1. k <= i <=> k <= i - 1
        BY <3>2, <1>1
      <4>. QED
        BY <4>1, <1>2, Zenon
    <3>. QED
      BY <3>1, <3>2
  <2> HIDE DEF A
  <2>. QED
    BY <2>1, <2>2, <2>3, <1>2, <1>3 DEF Tidied
<1>7. CASE ~idle
  <2>1. i \in A
    BY <1>1, <1>7 DEF Active
  <2> HIDE DEF A
  <2>2. ~((At(r, order, i).id = 0) = (At(r, order, i).size = 0))
    BY <1>4, <1>7, Zenon
  <2>3. /\ GapClosed(q, r, order, i)
        /\ \E E2 \in Nat : Laid(q, order, SizesBehind(r, order, sz, i), A \ {i}, E2)
    BY <2>1, <2>2, <1>3, <1>5, CloseGapIs
  <2>4. /\ SameBlock(q, r)
        /\ \A k \in 1 .. n : /\ At(q, order, k).id = At(r, order, k).id
                             /\ At(q, order, k).chain = At(r, order, k).chain
                             /\ At(q, order, k).size = IF k = i THEN 0 ELSE At(r, order, k).size
        /\ \A k \in 1 .. n : k # i => \A o \in 0 .. At(r, order, k).size - 1 :
              q.bytes[At(q, order, k).start + o] = r.bytes[At(r, order, k).start + o]
    BY <2>3, <1>5 DEF GapClosed
  <2>5. SameBlock(q, p)
    BY <2>4, <1>2 DEF SameBlock
  <2>6. Active(p, order, i) = A \ {i}
    <3>1. ASSUME NEW k \in 1 .. n PROVE k \in Active(p, order, i) <=> k \in A /\ k # i
      <4>1. CASE k = i
        BY <4>1, <1>7, <1>1 DEF Active
      <4>2. CASE k # i
        <5>1. i < k <=> i - 1 < k
          BY <4>2, <1>1
        <5>. QED
          BY <5>1, <4>2, Zenon DEF Active, A
      <4>. QED
        BY <4>1, <4>2
    <3>2. Active(p, order, i) \subseteq 1 .. n /\ A \subseteq 1 .. n
      BY DEF Active, A
    <3>. QED
      BY <3>1, <3>2
  <2>7. ASSUME NEW k \in 1 .. n
        PROVE  At(q, order, k).size = IF k <= i /\ At(p, order, k).id = 0 THEN 0 ELSE At(p, order, k).size
    <3>1. CASE k = i
      BY <3>1, <2>4, <1>7, <1>4, <1>1
    <3>2. CASE k # i
      <4>1. k <= i <=> k <= i - 1
        BY <3>2, <1>1
      <4>2. At(q, order, k).size = At(r, order, k).size
        BY <3>2, <2>4
      <4>. QED
        BY <4>1, <4>2, <1>2, Zenon
    <3>. QED
      BY <3>1, <3>2
  <2>8. ASSUME NEW k \in 1 .. n, At(p, order, k).id # 0, NEW o \in 0 .. At(p, order, k).size - 1
        PROVE  q.bytes[At(q, order, k).start + o] = p.bytes[At(p, order, k).start + o]
    <3>1. CASE k = i
      <4>1. At(p, order, k).size = 0
        BY <3>1, <1>7, <2>8
      <4>. QED
        BY <4>1
    <3>2. CASE k # i
      <4>1. At(r, order, k).size = At(p, order, k).size
        BY <1>2, <2>8
      <4>. QED
        BY <4>1, <3>2, <2>4, <2>8, <1>2
    <3>. QED
      BY <3>1, <3>2
  <2>9. \E s2, E2 : Laid(q, order, s2, Active(p, order, i), E2)
    BY <2>3, <2>6, Zenon
  <2>10. \A k \in 1 .. n : At(q, order, k).id = At(p, order, k).id /\ At(q, order, k).chain = At(p, order, k).chain
    BY <2>4, <1>2
  <2>. QED
    BY <2>5, <2>7, <2>8, <2>9, <2>10 DEF Tidied
<1>. QED
  BY <1>6, <1>7

\* What defragment makes of page p: no gaps, every record's bytes as they were.
Defragmented(q, p) ==
    LET N == 1 .. Len(p.headers) IN
    /\ SameBlock(q, p)
    /\ \A m \in N : /\ q.headers[m].id = p.headers[m].id
                    /\ q.headers[m].chain = p.headers[m].chain
                    /\ q.headers[m].size = IF p.headers[m].id = 0 THEN 0 ELSE p.headers[m].size
    /\ \A m \in N : p.headers[m].id # 0 => \A o \in 0 .. p.headers[m].size - 1 :
          q.bytes[q.headers[m].start + o] = p.bytes[p.headers[m].start + o]
    /\ \E E : Fill(q.headers, SizesOf(q.headers), E)

\* Whatever the order of headers with the same start, defragment closes every gap
\* and takes no record's bytes apart (record_block.go:327-364).
LEMMA DefragmentCloses ==
    ASSUME NEW p, IsPage(p), NEW order \in Orders(p.headers),
           NEW z, NEW E0, Fill(p.headers, z, E0), Owned(p.headers, z)
    PROVE  Defragmented(Defragment(p, order), p)
<1> DEFINE n == Len(p.headers)
           q == Defragment(p, order)
<1>1. n \in Nat
  BY DEF IsPage
<1>2. Permutes(order, n) /\ Tidied(p, p, order, 0)
  BY SortedIsLaid
<1>3. PICK rounds : DefragmentLoop(rounds, p, order, n)
  BY <1>1, DefragmentIs
<1> DEFINE Ok(i) == Tidied(rounds[i], p, order, i)
           bad == {i \in 0 .. n : ~Ok(i)}
<1>4. Ok(0)
  BY <1>2, <1>3 DEF DefragmentLoop
<1>5. ASSUME NEW i \in 1 .. n, Ok(i - 1) PROVE Ok(i)
  <2> DEFINE r == rounds[i - 1]
             s == rounds[i]
  <2>1. s = CloseGap(r, order, i) /\ Tidied(r, p, order, i - 1)
    BY <1>3, <1>5 DEF DefragmentLoop
  <2> HIDE DEF r, s
  <2>2. Tidied(s, p, order, i)
    BY <2>1, <1>2, TidiedStep
  <2>. QED
    BY <2>2 DEF s
<1> HIDE DEF Ok
<1>6. bad = {}
  <2> SUFFICES ASSUME bad # {} PROVE FALSE
    OBVIOUS
  <2>1. PICK m \in bad : \A k \in bad : m <= k
    <3>1. bad \in SUBSET Nat
      BY <1>1
    <3> HIDE DEF bad
    <3>. QED
      BY <3>1, LeastNatural, Zenon
  <2>2. m # 0 /\ m \in 0 .. n
    BY <1>4
  <2>3. m - 1 \in 0 .. n /\ m - 1 \notin bad /\ m \in 1 .. n
    BY <2>1, <2>2, <1>1
  <2>4. Ok(m - 1)
    BY <2>3, Zenon
  <2>. QED
    BY <1>5, <2>3, <2>4, Zenon
<1>7. Tidied(q, p, order, n)
  <2>1. n \in 0 .. n
    BY <1>1
  <2>2. Ok(n)
    BY <2>1, <1>6, Zenon
  <2>. QED
    BY <2>2, <1>3 DEF Ok, DefragmentLoop
<1> HIDE DEF q
<1>8. /\ SameBlock(q, p)
      /\ \A k \in 1 .. n :
            /\ At(q, order, k).id = At(p, order, k).id
            /\ At(q, order, k).chain = At(p, order, k).chain
            /\ At(q, order, k).size = IF At(p, order, k).id = 0 THEN 0 ELSE At(p, order, k).size
      /\ \A k \in 1 .. n : At(p, order, k).id # 0 => \A o \in 0 .. At(p, order, k).size - 1 :
            q.bytes[At(q, order, k).start + o] = p.bytes[At(p, order, k).start + o]
  <2>1. \A k \in 1 .. n : k <= n
    BY <1>1
  <2>. QED
    BY <2>1, <1>7 DEF Tidied
<1>9. PICK sz, E : Laid(q, order, sz, Active(p, order, n), E)
  BY <1>7 DEF Tidied
<1>10. Len(q.headers) = n /\ q.headers \in Seq(HeaderRec)
  BY <1>8 DEF SameBlock, IsPage
<1>11. \A m \in 1 .. n : \E k \in 1 .. n : order[k] = m
  BY <1>1, <1>2, EveryHeaderHasAPlace
<1>12. \A k \in 1 .. n : At(p, order, k) = p.headers[order[k]] /\ At(q, order, k) = q.headers[order[k]]
                         /\ order[k] \in 1 .. n
  BY <1>2 DEF At, Permutes
<1>13. ASSUME NEW m \in 1 .. n
       PROVE  /\ q.headers[m].id = p.headers[m].id
              /\ q.headers[m].chain = p.headers[m].chain
              /\ q.headers[m].size = IF p.headers[m].id = 0 THEN 0 ELSE p.headers[m].size
              /\ p.headers[m].id # 0 => \A o \in 0 .. p.headers[m].size - 1 :
                    q.bytes[q.headers[m].start + o] = p.bytes[p.headers[m].start + o]
  <2>1. PICK k \in 1 .. n : order[k] = m
    BY <1>11
  <2>2. At(p, order, k) = p.headers[m] /\ At(q, order, k) = q.headers[m]
    BY <1>12, <2>1
  <2>. QED
    BY <2>2, <1>8
<1> DEFINE A == Active(p, order, n)
           hs == q.headers
           w == SizesOf(hs)
<1>14. \A m \in 1 .. n : hs[m].start \in Nat /\ hs[m].size \in Nat
  <2>1. \A m \in 1 .. n : hs[m] \in HeaderRec
    BY <1>10
  <2>. QED
    BY <2>1, PageAssumption DEF HeaderRec, Addresses
<1>15. \A m \in 1 .. n : w[m] = hs[m].size
  BY <1>10 DEF SizesOf
<1>16. ASSUME NEW k \in A
       PROVE  k \in 1 .. n /\ order[k] \in 1 .. n /\ sz[k] = hs[order[k]].size /\ hs[order[k]].size # 0
  <2>1. k \in 1 .. n /\ At(p, order, k).id # 0 /\ At(p, order, k).size # 0
    BY <1>1 DEF Active
  <2>2. At(q, order, k).size # 0
    BY <2>1, <1>8
  <2>3. sz[k] = At(q, order, k).size
    BY <2>2, <1>9 DEF Laid
  <2>. QED
    BY <2>1, <2>2, <2>3, <1>12
<1>17. ASSUME NEW m \in 1 .. n, hs[m].size # 0
       PROVE  \E k \in A : order[k] = m
  <2>1. PICK k \in 1 .. n : order[k] = m
    BY <1>11
  <2>2. At(q, order, k).size # 0
    BY <2>1, <1>12, <1>17
  <2>3. k \in A
    BY <2>2, <1>9, <1>10 DEF Laid
  <2>. QED
    BY <2>1, <2>3
<1> HIDE DEF A, w, hs
<1>18. /\ E \in Addresses
       /\ \A k \in A : hs[order[k]].start + hs[order[k]].size <= E
       /\ \A k, l \in A : k < l => hs[order[k]].start + hs[order[k]].size <= hs[order[l]].start
       /\ \A a \in 0 .. E - 1 : \E k \in A : hs[order[k]].start <= a /\ a < hs[order[k]].start + hs[order[k]].size
  <2>1. /\ E \in Addresses
        /\ \A k \in A : At(q, order, k).start + sz[k] <= E
        /\ \A k, l \in A : k < l => At(q, order, k).start + sz[k] <= At(q, order, l).start
        /\ \A a \in 0 .. E - 1 : \E k \in A : At(q, order, k).start <= a /\ a < At(q, order, k).start + sz[k]
    BY <1>9 DEF Laid, A
  <2>2. \A k \in A : At(q, order, k) = hs[order[k]] /\ sz[k] = hs[order[k]].size
    BY <1>12, <1>16 DEF hs
  <2>3. E \in Addresses
    BY <2>1
  <2>4. ASSUME NEW k \in A PROVE hs[order[k]].start + hs[order[k]].size <= E
    BY <2>1, <2>2
  <2>5. ASSUME NEW k \in A, NEW l \in A, k < l
        PROVE  hs[order[k]].start + hs[order[k]].size <= hs[order[l]].start
    BY <2>1, <2>2, <2>5
  <2>6. ASSUME NEW a \in 0 .. E - 1
        PROVE  \E k \in A : hs[order[k]].start <= a /\ a < hs[order[k]].start + hs[order[k]].size
    BY <2>1, <2>2
  <2>. QED
    BY <2>3, <2>4, <2>5, <2>6
<1>19. Fill(hs, w, E)
  <2>1. E \in Addresses
    BY <1>18
  <2>2. ASSUME NEW m \in 1 .. n PROVE w[m] \in Nat /\ (w[m] # 0 => hs[m].start + w[m] <= E)
    BY <1>14, <1>15, <1>17, <1>18 DEF hs
  <2>3. ASSUME NEW m \in 1 .. n, NEW l \in 1 .. n, m # l, w[m] # 0, w[l] # 0
        PROVE  hs[m].start + w[m] <= hs[l].start \/ hs[l].start + w[l] <= hs[m].start
    <3>1. w[m] = hs[m].size /\ w[l] = hs[l].size
      BY <1>15 DEF hs
    <3>2. PICK k \in A : order[k] = m
      BY <3>1, <2>3, <1>17
    <3>3. PICK j \in A : order[j] = l
      BY <3>1, <2>3, <1>17
    <3>4. k < j \/ j < k
      BY <3>2, <3>3, <2>3, <1>16, <1>1
    <3>. QED
      BY <3>1, <3>2, <3>3, <3>4, <1>18
  <2>4. ASSUME NEW a \in 0 .. E - 1
        PROVE  \E m \in 1 .. n : hs[m].start <= a /\ a < hs[m].start + w[m]
    <3>1. PICK k \in A : hs[order[k]].start <= a /\ a < hs[order[k]].start + hs[order[k]].size
      BY <1>18
    <3>2. order[k] \in 1 .. n /\ w[order[k]] = hs[order[k]].size
      BY <1>15, <1>16 DEF hs
    <3>. QED
      BY <3>1, <3>2
  <2>5. Len(hs) = n
    BY <1>10 DEF hs
  <2>. QED
    BY <2>1, <2>2, <2>3, <2>4, <2>5 DEF Fill
<1>20. \E F : Fill(q.headers, SizesOf(q.headers), F)
  BY <1>19 DEF hs, w
<1>21. Defragmented(q, p)
  BY <1>8, <1>13, <1>20 DEF Defragmented
<1>. QED
  BY <1>21 DEF q

-----------------------------------------------------------------------------
(* How much a block holds                                                  *)

\* The bytes of its records, each as a header and a position in its record.
LiveKeys(hs) == {x \in (1 .. Len(hs)) \X (0 .. PageSize) : hs[x[1]].id # 0 /\ x[2] < hs[x[1]].size}

\* The keys of one header with this size.
KeysOf(m, size) == {m} \X (0 .. size - 1)

\* A block holds finitely many bytes (record_block.go:210-216).
LEMMA KeysAreFinite ==
    ASSUME NEW hs \in Seq(HeaderRec)
    PROVE  IsFiniteSet(LiveKeys(hs)) /\ Cardinality(LiveKeys(hs)) \in Nat
<1>1. Len(hs) \in Nat /\ PageSize \in Nat
  BY PageAssumption
<1>2. IsFiniteSet(1 .. Len(hs)) /\ IsFiniteSet(0 .. PageSize)
  BY <1>1, FS_Interval
<1>3. IsFiniteSet((1 .. Len(hs)) \X (0 .. PageSize))
  BY <1>2, FS_Product
<1>4. LiveKeys(hs) \in SUBSET ((1 .. Len(hs)) \X (0 .. PageSize))
  BY DEF LiveKeys
<1>5. IsFiniteSet(LiveKeys(hs))
  BY <1>3, <1>4, FS_Subset
<1>. QED
  BY <1>5, FS_CardinalityType

\* A record has as many bytes as its header's size (record_block.go:283-302).
LEMMA KeysOfCount ==
    ASSUME NEW m, NEW size \in Nat
    PROVE  IsFiniteSet(KeysOf(m, size)) /\ Cardinality(KeysOf(m, size)) = size
<1>1. IsFiniteSet({m}) /\ Cardinality({m}) = 1
  BY FS_Singleton
<1>2. IsFiniteSet(0 .. size - 1) /\ Cardinality(0 .. size - 1) = size
  <2>1. 0 \in Int /\ size - 1 \in Int
    OBVIOUS
  <2>2. IsFiniteSet(0 .. size - 1)
    BY <2>1, FS_Interval
  <2>3. Cardinality(0 .. size - 1) = IF 0 > size - 1 THEN 0 ELSE (size - 1) - 0 + 1
    BY <2>1, FS_Interval, Zenon
  <2>. QED
    BY <2>2, <2>3
<1>3. /\ IsFiniteSet({m} \X (0 .. size - 1))
      /\ Cardinality({m} \X (0 .. size - 1)) = Cardinality({m}) * Cardinality(0 .. size - 1)
  BY <1>1, <1>2, FS_Product
<1>. QED
  BY <1>1, <1>2, <1>3 DEF KeysOf

\* A record more in a header that held none, or one less (record_block.go:103, 134,
\* 167, 197).
LEMMA KeysAdded ==
    ASSUME NEW hs \in Seq(HeaderRec), NEW t \in Seq(HeaderRec), NEW m \in 1 .. Len(t),
           Len(hs) <= Len(t),
           \A k \in 1 .. Len(t) : k # m => /\ k <= Len(hs)
                                           /\ t[k].id = 0 <=> hs[k].id = 0
                                           /\ t[k].id # 0 => t[k].size = hs[k].size,
           m <= Len(hs) => hs[m].id = 0 \/ hs[m].size = 0,
           t[m].id # 0
    PROVE  Cardinality(LiveKeys(t)) = Cardinality(LiveKeys(hs)) + t[m].size
<1> DEFINE K == KeysOf(m, t[m].size)
<1>1. t[m] \in HeaderRec /\ t[m].size \in Nat /\ t[m].size <= PageSize /\ PageSize \in Nat
  <2>1. t[m] \in HeaderRec
    OBVIOUS
  <2>2. t[m].size \in 0 .. PageSize
    BY <2>1 DEF HeaderRec
  <2>. QED
    BY <2>1, <2>2, PageAssumption
<1>2. LiveKeys(t) = LiveKeys(hs) \cup K
  <2>1. ASSUME NEW x \in LiveKeys(t) PROVE x \in LiveKeys(hs) \cup K
    <3>1. x \in (1 .. Len(t)) \X (0 .. PageSize) /\ t[x[1]].id # 0 /\ x[2] < t[x[1]].size
      BY DEF LiveKeys
    <3>2. CASE x[1] = m
      <4>1. x = <<x[1], x[2]>> /\ x[2] \in 0 .. t[m].size - 1
        BY <3>1, <3>2, <1>1
      <4>. QED
        BY <4>1, <3>2 DEF KeysOf
    <3>3. CASE x[1] # m
      <4>1. x[1] \in 1 .. Len(hs) /\ hs[x[1]].id # 0 /\ x[2] < hs[x[1]].size
        BY <3>1, <3>3
      <4>2. x \in (1 .. Len(hs)) \X (0 .. PageSize)
        BY <4>1, <3>1
      <4>. QED
        BY <4>1, <4>2 DEF LiveKeys
    <3>. QED
      BY <3>2, <3>3
  <2>2. ASSUME NEW x \in LiveKeys(hs) PROVE x \in LiveKeys(t)
    <3>1. x \in (1 .. Len(hs)) \X (0 .. PageSize) /\ hs[x[1]].id # 0 /\ x[2] < hs[x[1]].size
      BY DEF LiveKeys
    <3>2. x[1] # m
      <4>1. hs[x[1]] \in HeaderRec
        BY <3>1
      <4>. QED
        BY SMTT(30), <3>1, <4>1 DEF HeaderRec
    <3>3. x[1] \in 1 .. Len(t) /\ t[x[1]].id # 0 /\ x[2] < t[x[1]].size
      BY <3>1, <3>2
    <3>4. x \in (1 .. Len(t)) \X (0 .. PageSize)
      BY <3>1, <3>3
    <3>. QED
      BY <3>3, <3>4 DEF LiveKeys
  <2>3. ASSUME NEW x \in K PROVE x \in LiveKeys(t)
    <3>1. x \in (1 .. Len(t)) \X (0 .. PageSize) /\ x[1] = m /\ x[2] < t[m].size
      BY <1>1 DEF KeysOf
    <3>. QED
      BY <3>1 DEF LiveKeys
  <2> HIDE DEF K
  <2>. QED
    BY <2>1, <2>2, <2>3
<1>3. LiveKeys(hs) \cap K = {}
  <2>1. ASSUME NEW x \in LiveKeys(hs), x \in K PROVE FALSE
    <3>1. x[1] = m /\ x[1] \in 1 .. Len(hs) /\ hs[m].id # 0 /\ x[2] < hs[m].size /\ x[2] \in 0 .. t[m].size - 1
      BY <2>1 DEF LiveKeys, KeysOf
    <3>2. hs[m].size = 0
      BY <3>1
    <3>. QED
      BY <3>1, <3>2, <1>1
  <2> HIDE DEF K
  <2>. QED
    BY <2>1
<1>4. IsFiniteSet(LiveKeys(hs)) /\ Cardinality(LiveKeys(hs)) \in Nat
  BY KeysAreFinite
<1>5. IsFiniteSet(K) /\ Cardinality(K) = t[m].size
  BY <1>1, KeysOfCount
<1>6. Cardinality(LiveKeys(hs) \cap K) = 0
  BY <1>3, FS_EmptySet
<1> HIDE DEF K
<1>7. Cardinality(LiveKeys(hs) \cup K) = Cardinality(LiveKeys(hs)) + Cardinality(K) - Cardinality(LiveKeys(hs) \cap K)
  BY <1>4, <1>5, FS_Union
<1>. QED
  BY <1>1, <1>2, <1>4, <1>5, <1>6, <1>7

\* The bytes of the records, as addresses.
LiveBytes(hs) ==
    UNION {hs[m].start .. hs[m].start + hs[m].size - 1 : m \in {k \in 1 .. Len(hs) : hs[k].id # 0}}

\* Records that share no byte cover as many as their sizes add up to.
LEMMA KeysAreBytes ==
    ASSUME NEW hs \in Seq(HeaderRec), NEW E, Fill(hs, SizesOf(hs), E)
    PROVE  /\ IsFiniteSet(LiveBytes(hs))
           /\ Cardinality(LiveBytes(hs)) = Cardinality(LiveKeys(hs))
<1> DEFINE f == [x \in LiveKeys(hs) |-> hs[x[1]].start + x[2]]
           size(m) == hs[m].size
           st(m) == hs[m].start
<1>1. \A m \in 1 .. Len(hs) : st(m) \in Nat /\ size(m) \in Nat /\ size(m) <= PageSize
  <2>1. \A m \in 1 .. Len(hs) : hs[m] \in HeaderRec
    OBVIOUS
  <2>. QED
    BY <2>1, PageAssumption DEF HeaderRec, Addresses
<1>2. \A m, l \in 1 .. Len(hs) : m # l /\ size(m) # 0 /\ size(l) # 0 =>
         st(m) + size(m) <= st(l) \/ st(l) + size(l) <= st(m)
  <2>1. \A m \in 1 .. Len(hs) : SizesOf(hs)[m] = size(m)
    BY DEF SizesOf
  <2>2. \A m, l \in 1 .. Len(hs) : m # l /\ SizesOf(hs)[m] # 0 /\ SizesOf(hs)[l] # 0 =>
           st(m) + SizesOf(hs)[m] <= st(l) \/ st(l) + SizesOf(hs)[l] <= st(m)
    BY DEF Fill
  <2>. QED
    BY <2>1, <2>2
<1>3. \A x \in LiveKeys(hs) : /\ x = <<x[1], x[2]>> /\ x[1] \in 1 .. Len(hs) /\ x[2] \in Nat
                              /\ x[2] < size(x[1]) /\ hs[x[1]].id # 0
  BY PageAssumption DEF LiveKeys
<1>4. \A x \in LiveKeys(hs) : f[x] = st(x[1]) + x[2]
  OBVIOUS
<1>5. f \in [LiveKeys(hs) -> LiveBytes(hs)]
  <2>1. ASSUME NEW x \in LiveKeys(hs) PROVE st(x[1]) + x[2] \in LiveBytes(hs)
    <3>1. x[1] \in 1 .. Len(hs) /\ x[2] \in Nat /\ x[2] < size(x[1]) /\ hs[x[1]].id # 0
          /\ st(x[1]) \in Nat /\ size(x[1]) \in Nat
      BY <1>1, <1>3
    <3>2. st(x[1]) + x[2] \in st(x[1]) .. st(x[1]) + size(x[1]) - 1
      BY <3>1
    <3>. QED
      BY <3>1, <3>2 DEF LiveBytes
  <2>. QED
    BY <2>1
<1>6. ASSUME NEW x \in LiveKeys(hs), NEW y \in LiveKeys(hs), f[x] = f[y] PROVE x = y
  <2>1. st(x[1]) + x[2] = st(y[1]) + y[2]
    BY <1>6, <1>4
  <2>2. /\ x[1] \in 1 .. Len(hs) /\ x[2] \in Nat /\ x[2] < size(x[1])
        /\ y[1] \in 1 .. Len(hs) /\ y[2] \in Nat /\ y[2] < size(y[1])
        /\ st(x[1]) \in Nat /\ size(x[1]) \in Nat /\ st(y[1]) \in Nat /\ size(y[1]) \in Nat
    BY <1>1, <1>3
  <2> HIDE DEF st, size
  <2>3. x[1] = y[1]
    <3> SUFFICES ASSUME x[1] # y[1] PROVE FALSE
      OBVIOUS
    <3>1. size(x[1]) # 0 /\ size(y[1]) # 0
      BY <2>2
    <3>2. st(x[1]) + size(x[1]) <= st(y[1]) \/ st(y[1]) + size(y[1]) <= st(x[1])
      BY <3>1, <2>2, <1>2
    <3>. QED
      BY <3>2, <2>1, <2>2
  <2>4. x[2] = y[2]
    BY <2>1, <2>2, <2>3
  <2>. QED
    BY <2>3, <2>4, <1>3
<1>7. ASSUME NEW a \in LiveBytes(hs) PROVE \E x \in LiveKeys(hs) : f[x] = a
  <2>1. PICK m \in 1 .. Len(hs) : hs[m].id # 0 /\ a \in st(m) .. st(m) + size(m) - 1
    BY DEF LiveBytes
  <2>2. /\ st(m) \in Nat /\ size(m) \in Nat /\ size(m) <= PageSize /\ PageSize \in Nat
    BY <1>1, PageAssumption
  <2> DEFINE o == a - st(m)
  <2>3. o \in 0 .. PageSize /\ o < size(m) /\ st(m) + o = a
    BY <2>1, <2>2
  <2> HIDE DEF o
  <2>4. <<m, o>> \in LiveKeys(hs)
    BY <2>1, <2>3 DEF LiveKeys
  <2>5. f[<<m, o>>] = a
    BY <2>3, <2>4, <1>4
  <2> HIDE DEF f
  <2>. QED
    BY <2>4, <2>5
<1> HIDE DEF f
<1>8. f \in Bijection(LiveKeys(hs), LiveBytes(hs))
  BY <1>5, <1>6, <1>7 DEF Bijection, Injection, Surjection, IsInjective
<1>9. ExistsBijection(LiveKeys(hs), LiveBytes(hs))
  BY <1>8 DEF ExistsBijection
<1>. QED
  BY <1>9, KeysAreFinite, FS_Bijection

\* Without gaps the records end where the utilization says (record_block.go:109, 117).
LEMMA NoGapsCount ==
    ASSUME NEW hs \in Seq(HeaderRec), NEW E, Fill(hs, SizesOf(hs), E),
           \A m \in 1 .. Len(hs) : hs[m].id = 0 => hs[m].size = 0
    PROVE  Cardinality(LiveKeys(hs)) = E
<1>1. E \in Nat /\ \A m \in 1 .. Len(hs) : hs[m].start \in Nat /\ hs[m].size \in Nat
  <2>1. \A m \in 1 .. Len(hs) : hs[m] \in HeaderRec
    OBVIOUS
  <2>. QED
    BY <2>1, PageAssumption DEF HeaderRec, Addresses, Fill
<1>2. \A m \in 1 .. Len(hs) : SizesOf(hs)[m] = hs[m].size
  BY DEF SizesOf
<1>3. \A m \in 1 .. Len(hs) : hs[m].size # 0 => hs[m].start + hs[m].size <= E
  BY <1>2 DEF Fill
<1>4. \A a \in 0 .. E - 1 : \E m \in 1 .. Len(hs) : hs[m].start <= a /\ a < hs[m].start + hs[m].size
  BY <1>2 DEF Fill
<1>5. LiveBytes(hs) = 0 .. E - 1
  <2>1. ASSUME NEW a \in LiveBytes(hs) PROVE a \in 0 .. E - 1
    <3>1. PICK m \in 1 .. Len(hs) : a \in hs[m].start .. hs[m].start + hs[m].size - 1
      BY DEF LiveBytes
    <3>2. hs[m].size # 0
      BY <3>1, <1>1
    <3>. QED
      BY <3>1, <3>2, <1>1, <1>3
  <2>2. ASSUME NEW a \in 0 .. E - 1 PROVE a \in LiveBytes(hs)
    <3>1. PICK m \in 1 .. Len(hs) : hs[m].start <= a /\ a < hs[m].start + hs[m].size
      BY <1>4
    <3>2. hs[m].size # 0
      BY <3>1, <1>1
    <3>3. a \in hs[m].start .. hs[m].start + hs[m].size - 1
      BY <3>1, <1>1
    <3>. QED
      BY <3>2, <3>3 DEF LiveBytes
  <2>. QED
    BY <2>1, <2>2
<1>6. Cardinality(0 .. E - 1) = IF 0 > E - 1 THEN 0 ELSE (E - 1) - 0 + 1
  <2>1. 0 \in Int /\ E - 1 \in Int
    BY <1>1
  <2>. QED
    BY <2>1, FS_Interval, Zenon
<1>7. Cardinality(LiveBytes(hs)) = Cardinality(LiveKeys(hs))
  BY KeysAreBytes
<1>. QED
  BY <1>1, <1>5, <1>6, <1>7

-----------------------------------------------------------------------------
(* Add                                                                     *)

\* The record is behind the others, and header h says so.
Written(q, d, used, h, id, data, E) ==
    LET len == Len(data) IN
    /\ IsPage(q) /\ Len(q.headers) = Len(d.headers)
    /\ q.used = used + len /\ q.next = d.next /\ q.prev = d.prev
    /\ \A m \in 1 .. Len(d.headers) : m # h => q.headers[m] = d.headers[m]
    /\ q.headers[h] = Header(id, E, len)
    /\ \A a \in Addresses : q.bytes[a] = IF a \in E .. E + len - 1 THEN data[a - E + 1] ELSE d.bytes[a]
    /\ Fill(q.headers, SizesOf(q.headers), E + len)

\* The end of Add, on a page whose records are in one piece (record_block.go:109-141).
LEMMA WriteRecordIs ==
    ASSUME NEW d, IsPage(d), NEW h \in 1 .. Len(d.headers), d.headers[h].size = 0,
           NEW E \in Nat, Fill(d.headers, SizesOf(d.headers), E),
           NEW used \in Nat, NEW count \in Nat, used - MinUsed - count * HeaderSize = E,
           NEW data, Len(data) \in Nat \ {0}, E + Len(data) < PageSize,
           NEW id \in Nat
    PROVE  Written(WriteRecord(d, used, count, h, id, data), d, used, h, id, data, E)
<1> DEFINE len == Len(data)
           new == Header(id, E, len)
           hs == [d.headers EXCEPT ![h] = new]
           bs == [a \in DOMAIN d.bytes |-> IF a \in E .. E + len - 1 THEN data[a - E + 1] ELSE d.bytes[a]]
           n == Len(d.headers)
<1>1. /\ d = [bytes |-> d.bytes, headers |-> d.headers, used |-> d.used, next |-> d.next, prev |-> d.prev]
      /\ d.bytes = [a \in Addresses |-> d.bytes[a]] /\ d.headers \in Seq(HeaderRec) /\ d.used \in Nat
      /\ n \in Nat /\ PageSize \in Nat /\ len \in Nat /\ len # 0
  BY PageAssumption DEF IsPage
<1>2. new \in HeaderRec /\ new.id = id /\ new.start = E /\ new.size = len
  <2>1. NoRow \in RowIDs
    BY DEF NoRow, RowIDs
  <2>2. E \in Addresses /\ len \in 0 .. PageSize
    BY <1>1 DEF Addresses
  <2> HIDE DEF len
  <2>. QED
    BY <2>1, <2>2 DEF Header, HeaderRec
<1>3. /\ hs \in Seq(HeaderRec) /\ Len(hs) = n
      /\ hs[h] = new /\ \A k \in 1 .. n : k # h => hs[k] = d.headers[k]
  <2> HIDE DEF new
  <2>. QED
    BY <1>1, <1>2, HeaderWritten
<1>4. WriteRecord(d, used, count, h, id, data) = [d EXCEPT !.headers[h] = new, !.bytes = bs, !.used = used + len]
  <2>1. WriteRecord(d, used, count, h, id, data) =
          [d EXCEPT !.headers[h] = Header(id, used - MinUsed - count * HeaderSize, Len(data)),
              !.bytes = [a \in DOMAIN d.bytes |->
                            IF a \in used - MinUsed - count * HeaderSize .. used - MinUsed - count * HeaderSize + Len(data) - 1
                              THEN data[a - (used - MinUsed - count * HeaderSize) + 1] ELSE d.bytes[a]],
              !.used = used + Len(data)]
    BY Zenon DEF WriteRecord
  <2>. QED
    BY <2>1, Zenon
<1> HIDE DEF new, bs
<1>5. [d EXCEPT !.headers[h] = new, !.bytes = bs, !.used = used + len] =
        [bytes |-> bs, headers |-> hs, used |-> used + len, next |-> d.next, prev |-> d.prev]
  <2>1. ASSUME NEW x, x = [bytes |-> d.bytes, headers |-> d.headers, used |-> d.used, next |-> d.next, prev |-> d.prev],
               NEW t, t = [x.headers EXCEPT ![h] = new]
        PROVE  [x EXCEPT !.headers[h] = new, !.bytes = bs, !.used = used + len] =
                 [bytes |-> bs, headers |-> t, used |-> used + len, next |-> d.next, prev |-> d.prev]
    <3> HIDE DEF hs
    <3>1. [x EXCEPT !.headers[h] = new] =
            [bytes |-> d.bytes, headers |-> t, used |-> d.used, next |-> d.next, prev |-> d.prev]
      BY <2>1
    <3>2. ASSUME NEW y, y = [bytes |-> d.bytes, headers |-> t, used |-> d.used, next |-> d.next, prev |-> d.prev]
          PROVE  [y EXCEPT !.bytes = bs, !.used = used + len] =
                   [bytes |-> bs, headers |-> t, used |-> used + len, next |-> d.next, prev |-> d.prev]
      <4>1. [y EXCEPT !.bytes = bs] =
              [bytes |-> bs, headers |-> t, used |-> d.used, next |-> d.next, prev |-> d.prev]
        BY <3>2
      <4>2. ASSUME NEW w, w = [bytes |-> bs, headers |-> t, used |-> d.used, next |-> d.next, prev |-> d.prev]
            PROVE  [w EXCEPT !.used = used + len] =
                     [bytes |-> bs, headers |-> t, used |-> used + len, next |-> d.next, prev |-> d.prev]
        BY <4>2
      <4>. QED
        BY <4>1, <4>2
    <3>. QED
      BY <3>1, <3>2
  <2>. QED
    BY <2>1, <1>1, Zenon DEF hs
<1>6. bs = [a \in Addresses |-> bs[a]]
      /\ \A a \in Addresses : bs[a] = IF a \in E .. E + len - 1 THEN data[a - E + 1] ELSE d.bytes[a]
  <2>1. DOMAIN d.bytes = Addresses
    BY <1>1
  <2>2. bs = [a \in Addresses |-> IF a \in E .. E + len - 1 THEN data[a - E + 1] ELSE d.bytes[a]]
    BY <2>1, Zenon DEF bs
  <2>. QED
    BY <2>2
<1>7. Fill(hs, SizesOf(hs), E + len)
  <2> DEFINE z == SizesOf(hs)
             was == SizesOf(d.headers)
  <2>1. \A m \in 1 .. n : z[m] = hs[m].size /\ was[m] = d.headers[m].size
    BY <1>3 DEF SizesOf
  <2>2. z[h] = len /\ hs[h].start = E /\ was[h] = 0
    BY <2>1, <1>3, <1>2
  <2>3. ASSUME NEW m \in 1 .. n, m # h PROVE z[m] = was[m] /\ hs[m].start = d.headers[m].start
    <3>1. hs[m] = d.headers[m]
      BY <1>3, <2>3
    <3> HIDE DEF z, was, hs
    <3>. QED
      BY <3>1, <2>1
  <2>4. ASSUME NEW m \in 1 .. n PROVE was[m] \in Nat /\ d.headers[m].start \in Nat
    <3>1. d.headers[m] \in HeaderRec
      BY <1>1
    <3>2. d.headers[m].start \in Nat /\ d.headers[m].size \in Nat
      BY <3>1, HeaderNumbers, Zenon
    <3> HIDE DEF was
    <3>. QED
      BY <3>2, <2>1
  <2>5. /\ \A m \in 1 .. n : was[m] # 0 => d.headers[m].start + was[m] <= E
        /\ \A m, l \in 1 .. n : m # l /\ was[m] # 0 /\ was[l] # 0 =>
              d.headers[m].start + was[m] <= d.headers[l].start \/ d.headers[l].start + was[l] <= d.headers[m].start
        /\ \A a \in 0 .. E - 1 : \E m \in 1 .. n : d.headers[m].start <= a /\ a < d.headers[m].start + was[m]
    BY DEF Fill
  <2> HIDE DEF z, was, hs
  <2>6. E + len \in Addresses
    BY <1>1 DEF Addresses
  <2>7. ASSUME NEW m \in 1 .. n PROVE z[m] \in Nat /\ (z[m] # 0 => hs[m].start + z[m] <= E + len)
    <3>1. CASE m = h
      BY <3>1, <2>2, <1>1
    <3>2. CASE m # h
      <4>1. z[m] = was[m] /\ hs[m].start = d.headers[m].start /\ was[m] \in Nat /\ d.headers[m].start \in Nat
            /\ (was[m] # 0 => d.headers[m].start + was[m] <= E)
        BY <3>2, <2>3, <2>4, <2>5
      <4>. QED
        BY <4>1, <1>1
    <3>. QED
      BY <3>1, <3>2
  <2>8. ASSUME NEW m \in 1 .. n, NEW l \in 1 .. n, m # l, z[m] # 0, z[l] # 0
        PROVE  hs[m].start + z[m] <= hs[l].start \/ hs[l].start + z[l] <= hs[m].start
    <3>1. CASE m = h
      <4>1. hs[l].start + z[l] <= E
        BY <3>1, <2>8, <2>3, <2>5
      <4>. QED
        BY <4>1, <3>1, <2>2
    <3>2. CASE l = h
      <4>1. hs[m].start + z[m] <= E
        BY <3>2, <2>8, <2>3, <2>5
      <4>. QED
        BY <4>1, <3>2, <2>2
    <3>3. CASE m # h /\ l # h
      BY <3>3, <2>8, <2>3, <2>5
    <3>. QED
      BY <3>1, <3>2, <3>3
  <2>9. ASSUME NEW a \in 0 .. E + len - 1
        PROVE  \E m \in 1 .. n : hs[m].start <= a /\ a < hs[m].start + z[m]
    <3>1. CASE a < E
      <4>1. a \in 0 .. E - 1
        BY <3>1
      <4>2. PICK m \in 1 .. n : d.headers[m].start <= a /\ a < d.headers[m].start + was[m]
        BY <4>1, <2>5
      <4>3. m # h
        BY <4>2, <2>2, <2>4
      <4>. QED
        BY <4>2, <4>3, <2>3
    <3>2. CASE ~(a < E)
      BY <3>2, <2>2, <1>1, SMTT(30)
    <3>. QED
      BY <3>1, <3>2
  <2>10. Len(hs) = n
    BY <1>3
  <2>. QED
    BY <2>6, <2>7, <2>8, <2>9, <2>10 DEF Fill, z
<1> HIDE DEF hs
<1>8. ASSUME NEW q, q = [bytes |-> bs, headers |-> hs, used |-> used + len, next |-> d.next, prev |-> d.prev]
      PROVE  Written(q, d, used, h, id, data, E)
  <2>1. q.bytes = bs /\ q.headers = hs /\ q.used = used + len /\ q.next = d.next /\ q.prev = d.prev
    BY <1>8, PageFields, Zenon
  <2>2. used + len \in Nat
    BY <1>1
  <2>3. IsPage(q)
    BY <1>8, <2>1, <2>2, <1>3, <1>6 DEF IsPage
  <2>. QED
    BY <2>1, <2>3, <1>3, <1>6, <1>7 DEF Written, new
<1>. QED
  BY <1>4, <1>5, <1>8

\* A page with room for every header it has, whose utilization counts the bytes of its
\* records.
Counted(p) ==
    Utilization(p) = MinUsed + Len(p.headers) * HeaderSize + Cardinality(LiveKeys(p.headers))

Packed(p) ==
    /\ IsPage(p)
    /\ \E E : /\ Fill(p.headers, SizesOf(p.headers), E)
              /\ E + MinUsed + Len(p.headers) * HeaderSize <= PageSize
    /\ Counted(p)

\* Page d is p made ready for a record in header h.
Opened(d, h, p) ==
    /\ IsPage(d) /\ h \in 1 .. Len(d.headers) /\ Len(p.headers) <= Len(d.headers)
    /\ d.next = p.next /\ d.prev = p.prev
    /\ d.headers[h].size = 0
    /\ h <= Len(p.headers) => p.headers[h].id = 0 \/ p.headers[h].size = 0
    /\ \A m \in 1 .. Len(d.headers) : m # h =>
          /\ m <= Len(p.headers)
          /\ d.headers[m].id = p.headers[m].id /\ d.headers[m].chain = p.headers[m].chain
          /\ d.headers[m].size = IF p.headers[m].id = 0 THEN 0 ELSE p.headers[m].size
          /\ p.headers[m].id # 0 => \A o \in 0 .. p.headers[m].size - 1 :
                d.bytes[d.headers[m].start + o] = p.bytes[p.headers[m].start + o]
    /\ Fill(d.headers, SizesOf(d.headers), Cardinality(LiveKeys(p.headers)))

\* The other records of p are in q as they were.
OthersKept(q, h, p) ==
    \A m \in 1 .. Len(q.headers) : m # h =>
        /\ m <= Len(p.headers)
        /\ q.headers[m].id = p.headers[m].id /\ q.headers[m].chain = p.headers[m].chain
        /\ p.headers[m].id # 0 => q.headers[m].size = p.headers[m].size
        /\ p.headers[m].id # 0 => \A o \in 0 .. p.headers[m].size - 1 :
              q.bytes[q.headers[m].start + o] = p.bytes[p.headers[m].start + o]

\* Header h has the record.
Holds(q, h, id, data) ==
    /\ h \in 1 .. Len(q.headers)
    /\ q.headers[h].id = id /\ q.headers[h].size = Len(data) /\ q.headers[h].chain = NoRow
    /\ \A o \in 0 .. Len(data) - 1 : q.bytes[q.headers[h].start + o] = data[o + 1]

IsPlaced(q, h, p, id, data) ==
    /\ Packed(q) /\ Len(p.headers) <= Len(q.headers)
    /\ q.next = p.next /\ q.prev = p.prev
    /\ OthersKept(q, h, p)
    /\ Holds(q, h, id, data)

\* The page has the headers of d, and the bytes of the record besides.
Fills(q, d, used, data) ==
    Len(q.headers) = Len(d.headers) /\ Utilization(q) = used + Len(data)

\* What Add has written, and what it has left alone (record_block.go:109-141).
LEMMA RecordPlaced ==
    ASSUME NEW p, IsPage(p), NEW d, NEW h, Opened(d, h, p),
           NEW data, Len(data) \in Nat \ {0}, NEW id \in Nat \ {0},
           NEW used, used = MinUsed + Len(d.headers) * HeaderSize + Cardinality(LiveKeys(p.headers)),
           used + Len(data) <= PageSize,
           NEW q, q = WriteRecord(d, used, Len(d.headers), h, id, data)
    PROVE  IsPlaced(q, h, p, id, data) /\ Fills(q, d, used, data)
<1> DEFINE n == Len(d.headers)
           len == Len(data)
           E == Cardinality(LiveKeys(p.headers))
           room == n * HeaderSize
<1>1. /\ n \in Nat /\ h \in 1 .. n /\ p.headers \in Seq(HeaderRec) /\ d.headers \in Seq(HeaderRec)
      /\ Len(p.headers) \in Nat /\ Len(p.headers) <= n
  BY DEF Opened, IsPage
<1>2. E \in Nat
  BY <1>1, KeysAreFinite
<1>3. room \in Nat /\ MinUsed \in Nat /\ MinUsed # 0 /\ PageSize \in Nat
  BY <1>1, PageAssumption
<1> HIDE DEF E, room, n
<1>4. used = MinUsed + room + E
  BY DEF E, room, n
<1>5. used \in Nat /\ used - MinUsed - room = E /\ E + len < PageSize
  BY <1>2, <1>3, <1>4
<1>6. Written(q, d, used, h, id, data, E)
  <2>1. used - MinUsed - n * HeaderSize = E
    BY <1>5 DEF room
  <2>2. Fill(d.headers, SizesOf(d.headers), E) /\ d.headers[h].size = 0 /\ IsPage(d)
    BY DEF Opened, E
  <2>3. q = WriteRecord(d, used, n, h, id, data)
    BY DEF n
  <2>4. h \in 1 .. Len(d.headers)
    BY <1>1 DEF n
  <2> HIDE DEF len
  <2>. QED
    BY <2>1, <2>2, <2>3, <2>4, <1>1, <1>2, <1>5, WriteRecordIs DEF len
<1>7. /\ IsPage(q) /\ Len(q.headers) = n /\ q.used = used + len
      /\ q.headers[h] = Header(id, E, len)
      /\ Fill(q.headers, SizesOf(q.headers), E + len)
  BY <1>6 DEF Written, n
<1>8. /\ q.headers[h].id = id /\ q.headers[h].size = len /\ q.headers[h].start = E
      /\ q.headers[h].chain = NoRow
  BY <1>7 DEF Header
<1>9. \A m \in 1 .. n : m # h => q.headers[m] = d.headers[m]
  BY <1>6 DEF Written, n
<1>10. \A a \in Addresses : q.bytes[a] = IF a \in E .. E + len - 1 THEN data[a - E + 1] ELSE d.bytes[a]
  BY <1>6 DEF Written
<1>11. ASSUME NEW m \in 1 .. n, m # h
       PROVE  /\ m \in 1 .. Len(p.headers) /\ q.headers[m] = d.headers[m]
              /\ q.headers[m].id = p.headers[m].id /\ q.headers[m].chain = p.headers[m].chain
              /\ p.headers[m].id # 0 => q.headers[m].size = p.headers[m].size
  <2>1. /\ m <= Len(p.headers)
        /\ d.headers[m].id = p.headers[m].id /\ d.headers[m].chain = p.headers[m].chain
        /\ d.headers[m].size = IF p.headers[m].id = 0 THEN 0 ELSE p.headers[m].size
    BY <1>11 DEF Opened, n
  <2>2. q.headers[m] = d.headers[m]
    BY <1>9, <1>11
  <2>3. m \in 1 .. Len(p.headers)
    BY <2>1, <1>1
  <2>. QED
    BY <2>1, <2>2, <2>3
<1>12. ASSUME NEW m \in 1 .. n, m # h, p.headers[m].id # 0, NEW o \in 0 .. p.headers[m].size - 1
       PROVE  q.bytes[q.headers[m].start + o] = p.bytes[p.headers[m].start + o]
  <2> DEFINE s == d.headers[m].start
             z == d.headers[m].size
  <2>1. s \in Nat /\ z \in Nat
    BY <1>1, <1>12, HeaderNumbers DEF n
  <2>2. z = p.headers[m].size /\ q.headers[m].start = s
    BY <1>11, <1>12
  <2>3. d.bytes[s + o] = p.bytes[p.headers[m].start + o]
    BY <1>12 DEF Opened, n
  <2>4. z # 0
    BY <1>12, <2>1, <2>2
  <2>5. s + z <= E
    <3>1. Fill(d.headers, SizesOf(d.headers), E) /\ SizesOf(d.headers)[m] = z
      BY <1>12 DEF Opened, E, SizesOf, n
    <3>. QED
      BY <3>1, <2>4 DEF Fill, n
  <2> HIDE DEF s, z
  <2>6. o \in Nat /\ o < z
    BY <2>1, <2>2
  <2>7. s + o \in Addresses /\ s + o < E
    BY <2>1, <2>5, <2>6, <1>2, <1>3, <1>5 DEF Addresses
  <2>8. ~(s + o \in E .. E + len - 1)
    BY <2>7, <1>2
  <2>9. q.bytes[s + o] = d.bytes[s + o]
    BY <2>7, <2>8, <1>10, Zenon
  <2>. QED
    BY <2>2, <2>3, <2>9
<1>13. OthersKept(q, h, p)
  <2>1. \A m \in 1 .. n : m # h =>
          /\ m <= Len(p.headers)
          /\ q.headers[m].id = p.headers[m].id /\ q.headers[m].chain = p.headers[m].chain
          /\ p.headers[m].id # 0 => q.headers[m].size = p.headers[m].size
    BY <1>11, <1>1
  <2>. QED
    BY <2>1, <1>7, <1>12, Zenon DEF OthersKept
<1>14. Holds(q, h, id, data)
  <2>1. ASSUME NEW o \in 0 .. len - 1 PROVE q.bytes[E + o] = data[o + 1]
    <3> DEFINE a == E + o
    <3>1. a \in Addresses /\ a \in E .. E + len - 1 /\ a - E + 1 = o + 1
      BY <1>2, <1>3, <1>5 DEF Addresses
    <3> HIDE DEF a
    <3>2. q.bytes[a] = data[a - E + 1]
      BY <3>1, <1>10
    <3>. QED
      BY <3>1, <3>2 DEF a
  <2>. QED
    BY <2>1, <1>1, <1>7, <1>8, Zenon DEF Holds
<1>15. Utilization(q) = used + len
  BY <1>3, <1>5, <1>7 DEF Utilization
<1>16. Packed(q)
  <2>1. E + len + MinUsed + Len(q.headers) * HeaderSize <= PageSize
    <3>1. E + len + MinUsed + room <= PageSize
      BY <1>2, <1>3, <1>4
    <3>. QED
      BY <3>1, <1>7 DEF room
  <2>2. Cardinality(LiveKeys(q.headers)) = E + len
    <3>1. q.headers \in Seq(HeaderRec) /\ h \in 1 .. Len(q.headers)
          /\ Len(p.headers) <= Len(q.headers) /\ q.headers[h].id # 0
      BY <1>1, <1>7, <1>8 DEF IsPage
    <3>2. \A k \in 1 .. Len(q.headers) : k # h =>
             /\ k <= Len(p.headers)
             /\ q.headers[k].id = 0 <=> p.headers[k].id = 0
             /\ q.headers[k].id # 0 => q.headers[k].size = p.headers[k].size
      BY <1>1, <1>7, <1>11
    <3>3. h <= Len(p.headers) => p.headers[h].id = 0 \/ p.headers[h].size = 0
      BY DEF Opened
    <3> DEFINE t == q.headers
               hs == p.headers
    <3> HIDE DEF t, hs
    <3>4. Cardinality(LiveKeys(t)) = Cardinality(LiveKeys(hs)) + t[h].size
      BY <3>1, <3>2, <3>3, <1>1, KeysAdded DEF t, hs
    <3>. QED
      BY <3>4, <1>8 DEF E, t, hs
  <2>3. Counted(q)
    <3>1. used + len = MinUsed + room + (E + len)
      BY <1>2, <1>3, <1>4
    <3>. QED
      BY <3>1, <2>2, <1>7, <1>15, Zenon DEF Counted, room
  <2>. QED
    BY <2>1, <2>3, <1>7 DEF Packed
<1>17. q.next = p.next /\ q.prev = p.prev
  BY <1>6 DEF Written, Opened
<1>18. Fills(q, d, used, data)
  BY <1>7, <1>15 DEF Fills, n
<1>. QED
  BY <1>1, <1>7, <1>13, <1>14, <1>16, <1>17, <1>18 DEF IsPlaced, n

\* The record's own header, else a removed one, else (0) none.
Chosen(h, hs, id) ==
    /\ h \in 0 .. Len(hs)
    /\ h # 0 => hs[h].id \in {0, id}
    /\ h = 0 => \A m \in 1 .. Len(hs) : hs[m].id \notin {0, id}
    /\ \A m \in 1 .. Len(hs) : hs[m].id = id => h # 0 /\ hs[h].id = id

\* Which header Add takes (record_block.go:79-93).
LEMMA HeaderForIs ==
    ASSUME NEW p, p.headers \in Seq(HeaderRec), NEW order \in Orders(p.headers), NEW id
    PROVE  Chosen(HeaderFor(p, order, id), p.headers, id)
<1> DEFINE hs == p.headers
           n == Len(hs)
           own == {i \in 1 .. n : hs[order[i]].id = id}
           dead == {i \in 1 .. n : hs[order[i]].id = 0}
<1>1. n \in Nat /\ DOMAIN hs = 1 .. n
  OBVIOUS
<1>2. Permutes(order, n) /\ DOMAIN order = 1 .. n
  BY <1>1 DEF Orders, Permutes
<1>3. \A k \in 1 .. n : order[k] \in 1 .. n
  BY <1>2 DEF Permutes
<1>4. \A m \in 1 .. n : \E k \in 1 .. n : order[k] = m
  BY <1>1, <1>2, EveryHeaderHasAPlace, ZenonT(30)
<1>5. HeaderFor(p, order, id) = IF own # {} THEN order[Least(own)] ELSE IF dead # {} THEN order[Least(dead)] ELSE 0
  BY <1>2, Zenon DEF HeaderFor
<1>6. own # {} => Least(own) \in own
  <2> SUFFICES ASSUME own # {} PROVE Least(own) \in own
    OBVIOUS
  <2>1. own \in SUBSET Nat
    BY <1>1
  <2> HIDE DEF own
  <2>. QED
    BY <2>1, LeastNatural, Zenon DEF Least
<1>7. dead # {} => Least(dead) \in dead
  <2> SUFFICES ASSUME dead # {} PROVE Least(dead) \in dead
    OBVIOUS
  <2>1. dead \in SUBSET Nat
    BY <1>1
  <2> HIDE DEF dead
  <2>. QED
    BY <2>1, LeastNatural, Zenon DEF Least
<1> DEFINE a == Least(own)
           b == Least(dead)
<1> HIDE DEF a, b
<1>8. CASE own # {}
  <2>1. a \in 1 .. n /\ hs[order[a]].id = id
    BY <1>6, <1>8 DEF a
  <2>2. HeaderFor(p, order, id) = order[a]
    BY <1>5, <1>8 DEF a
  <2>3. order[a] \in 1 .. n
    BY <2>1, <1>3
  <2>. QED
    BY <2>1, <2>2, <2>3 DEF Chosen
<1>9. CASE own = {} /\ dead # {}
  <2>1. b \in 1 .. n /\ hs[order[b]].id = 0
    BY <1>7, <1>9 DEF b
  <2>2. HeaderFor(p, order, id) = order[b]
    BY <1>5, <1>9 DEF b
  <2>3. order[b] \in 1 .. n
    BY <2>1, <1>3
  <2>4. \A m \in 1 .. n : hs[m].id # id
    BY <1>4, <1>9
  <2>. QED
    BY <2>1, <2>2, <2>3, <2>4 DEF Chosen
<1>10. CASE own = {} /\ dead = {}
  <2>1. HeaderFor(p, order, id) = 0
    BY <1>5, <1>10
  <2>2. \A m \in 1 .. n : hs[m].id # id /\ hs[m].id # 0
    BY <1>4, <1>10
  <2>. QED
    BY <2>1, <2>2, <1>1 DEF Chosen
<1>. QED
  BY <1>8, <1>9, <1>10

\* A page on which Add may be called for this id: the record is new to it, or has been
\* soft removed.
Ready(p, z, E, id) ==
    LET N == 1 .. Len(p.headers) IN
    /\ IsPage(p) /\ Counted(p)
    /\ Fill(p.headers, z, E) /\ Owned(p.headers, z)
    /\ \A m \in N : p.headers[m].id \notin {0, id} => p.headers[m].size # 0
    /\ \A m \in N : p.headers[m].id = id => p.headers[m].size = 0
    /\ \A m, l \in N : p.headers[m].id = id /\ p.headers[l].id = id => m = l

\* Without a header to take over Add puts one more behind the last
\* (record_block.go:98-107).
LEMMA AppendOpens ==
    ASSUME NEW p, NEW z, NEW E, NEW id \in Nat \ {0}, Ready(p, z, E, id),
           \A m \in 1 .. Len(p.headers) : p.headers[m].id \notin {0, id},
           NEW d, d = [p EXCEPT !.headers = Append(@, Header(id, 0, 0))]
    PROVE  Len(d.headers) = Len(p.headers) + 1 /\ Opened(d, Len(p.headers) + 1, p)
<1> DEFINE hs == p.headers
           n == Len(hs)
           new == Header(id, 0, 0)
           t == Append(hs, new)
           u == SizesOf(t)
<1>1. /\ p = [bytes |-> p.bytes, headers |-> hs, used |-> p.used, next |-> p.next, prev |-> p.prev]
      /\ p.bytes = [a \in Addresses |-> p.bytes[a]] /\ hs \in Seq(HeaderRec) /\ p.used \in Nat /\ n \in Nat
  BY DEF Ready, IsPage
<1>2. new \in HeaderRec /\ new.size = 0 /\ new.start = 0
  <2>1. NoRow \in RowIDs /\ 0 \in Addresses /\ 0 \in 0 .. PageSize
    BY PageAssumption DEF NoRow, RowIDs, Addresses
  <2>. QED
    BY <2>1 DEF Header, HeaderRec
<1>3. /\ t \in Seq(HeaderRec) /\ Len(t) = n + 1 /\ t[n + 1] = new
      /\ \A m \in 1 .. n : t[m] = hs[m]
  <2> HIDE DEF new
  <2>. QED
    BY <1>1, <1>2, AppendProperties
<1>4. [p EXCEPT !.headers = Append(@, Header(id, 0, 0))] =
        [bytes |-> p.bytes, headers |-> t, used |-> p.used, next |-> p.next, prev |-> p.prev]
  <2> HIDE DEF t
  <2>1. [p EXCEPT !.headers = Append(@, Header(id, 0, 0))] = [p EXCEPT !.headers = t]
    BY Zenon DEF t
  <2>2. ASSUME NEW x, x = [bytes |-> p.bytes, headers |-> hs, used |-> p.used, next |-> p.next, prev |-> p.prev]
        PROVE  [x EXCEPT !.headers = t] =
                 [bytes |-> p.bytes, headers |-> t, used |-> p.used, next |-> p.next, prev |-> p.prev]
    BY <2>2
  <2>. QED
    BY <2>1, <2>2, <1>1, Zenon
<1>5. /\ d.bytes = p.bytes /\ d.headers = t /\ d.used = p.used /\ IsPage(d)
      /\ d.next = p.next /\ d.prev = p.prev
  <2>1. d = [bytes |-> p.bytes, headers |-> t, used |-> p.used, next |-> p.next, prev |-> p.prev]
    BY <1>4
  <2>2. d.bytes = p.bytes /\ d.headers = t /\ d.used = p.used /\ d.next = p.next /\ d.prev = p.prev
    BY <2>1, PageFields, Zenon
  <2> HIDE DEF t
  <2>. QED
    BY <2>1, <2>2, <1>1, <1>3 DEF IsPage
<1>6. /\ \A m \in 1 .. n : /\ hs[m].id # 0 /\ hs[m].size # 0 /\ z[m] = hs[m].size
                            /\ hs[m].start \in Nat /\ hs[m].size \in Nat
      /\ Fill(hs, z, E)
  <2>1. \A m \in 1 .. n : hs[m].id # 0 /\ hs[m].size # 0
    BY DEF Ready
  <2>2. \A m \in 1 .. n : z[m] = hs[m].size
    BY <2>1 DEF Ready, Owned
  <2>3. \A m \in 1 .. n : hs[m].start \in Nat /\ hs[m].size \in Nat
    BY <1>1, HeaderNumbers
  <2>. QED
    BY <2>1, <2>2, <2>3 DEF Ready
<1>7. \A m \in 1 .. n + 1 : u[m] = t[m].size
  BY <1>3 DEF SizesOf
<1> HIDE DEF t, u
<1>8. u[n + 1] = 0 /\ \A m \in 1 .. n : u[m] = z[m] /\ t[m].start = hs[m].start
  <2>1. n + 1 \in 1 .. n + 1 /\ \A m \in 1 .. n : m \in 1 .. n + 1
    BY <1>1
  <2>. QED
    BY SMTT(30), <2>1, <1>2, <1>3, <1>6, <1>7
<1>9. Fill(t, u, E)
  <2>1. /\ E \in Addresses
        /\ \A m \in 1 .. n : z[m] \in Nat /\ (z[m] # 0 => hs[m].start + z[m] <= E)
        /\ \A m, l \in 1 .. n : m # l /\ z[m] # 0 /\ z[l] # 0 =>
              hs[m].start + z[m] <= hs[l].start \/ hs[l].start + z[l] <= hs[m].start
        /\ \A a \in 0 .. E - 1 : \E m \in 1 .. n : hs[m].start <= a /\ a < hs[m].start + z[m]
    BY <1>6 DEF Fill
  <2>2. \A m \in 1 .. n + 1 : u[m] # 0 => m \in 1 .. n
    BY <1>1, <1>8
  <2>3. ASSUME NEW m \in 1 .. n + 1 PROVE u[m] \in Nat /\ (u[m] # 0 => t[m].start + u[m] <= E)
    <3>1. CASE m \in 1 .. n
      BY <3>1, <2>1, <1>8
    <3>2. CASE m \notin 1 .. n
      <4>1. m = n + 1
        BY <3>2, <1>1
      <4>. QED
        BY <4>1, <1>8
    <3>. QED
      BY <3>1, <3>2
  <2>4. ASSUME NEW m \in 1 .. n + 1, NEW l \in 1 .. n + 1, m # l, u[m] # 0, u[l] # 0
        PROVE  t[m].start + u[m] <= t[l].start \/ t[l].start + u[l] <= t[m].start
    <3>1. m \in 1 .. n /\ l \in 1 .. n
      BY <2>2, <2>4
    <3>. QED
      BY <3>1, <2>1, <2>4, <1>8
  <2>5. ASSUME NEW a \in 0 .. E - 1 PROVE \E m \in 1 .. n + 1 : t[m].start <= a /\ a < t[m].start + u[m]
    <3>1. PICK m \in 1 .. n : hs[m].start <= a /\ a < hs[m].start + z[m]
      BY <2>1
    <3>2. m \in 1 .. n + 1
      BY <1>1
    <3>. QED
      BY <3>1, <3>2, <1>8
  <2>. QED
    BY <2>1, <2>3, <2>4, <2>5, <1>3 DEF Fill
<1>10. Cardinality(LiveKeys(hs)) = E
  <2>1. Fill(hs, SizesOf(hs), E)
    <3>1. \A m \in 1 .. n : SizesOf(hs)[m] = z[m]
      BY <1>6 DEF SizesOf
    <3> DEFINE v == SizesOf(hs)
    <3> HIDE DEF v
    <3>2. \A m \in 1 .. n : v[m] = z[m]
      BY <3>1 DEF v
    <3>3. Fill(hs, v, E)
      BY <3>2, <1>6 DEF Fill
    <3>. QED
      BY <3>3 DEF v
  <2>. QED
    BY <2>1, <1>1, <1>6, NoGapsCount
<1>11. ASSUME NEW m \in 1 .. n + 1, m # n + 1
       PROVE  /\ m \in 1 .. n /\ m <= n /\ t[m] = hs[m] /\ hs[m].id # 0
  <2>1. m \in 1 .. n /\ m <= n
    BY <1>1, <1>11
  <2>. QED
    BY <2>1, <1>3, <1>6
<1>12. n + 1 \in 1 .. n + 1 /\ n <= n + 1 /\ ~(n + 1 <= n)
  BY <1>1
<1> HIDE DEF new
<1>13. Opened(d, n + 1, p)
  <2>1. Fill(d.headers, SizesOf(d.headers), Cardinality(LiveKeys(p.headers)))
    BY <1>5, <1>9, <1>10 DEF u
  <2>2. t[n + 1].size = 0
    BY <1>2, <1>3
  <2>. QED
    BY <2>1, <2>2, <1>3, <1>5, <1>11, <1>12 DEF Opened
<1>. QED
  BY <1>3, <1>5, <1>13

\* A header that can be taken over is there for Add after defragment has closed the gaps
\* (record_block.go:76-97).
LEMMA ReuseOpens ==
    ASSUME NEW p, NEW z, NEW E, NEW id \in Nat \ {0}, Ready(p, z, E, id),
           NEW order \in Orders(p.headers),
           NEW h \in 1 .. Len(p.headers), p.headers[h].id \in {0, id},
           NEW d, d = Defragment(p, order)
    PROVE  Len(d.headers) = Len(p.headers) /\ Opened(d, h, p)
<1> DEFINE hs == p.headers
           t == d.headers
           n == Len(hs)
<1>1. Defragmented(d, p)
  BY DefragmentCloses DEF Ready
<1>2. /\ IsPage(d) /\ Len(t) = n /\ t \in Seq(HeaderRec) /\ hs \in Seq(HeaderRec)
      /\ d.next = p.next /\ d.prev = p.prev
  BY <1>1 DEF Defragmented, SameBlock, IsPage, Ready
<1>3. \A m \in 1 .. n : /\ t[m].id = hs[m].id /\ t[m].chain = hs[m].chain
                         /\ t[m].size = IF hs[m].id = 0 THEN 0 ELSE hs[m].size
  BY <1>1 DEF Defragmented
<1>4. PICK F : Fill(t, SizesOf(t), F)
  BY <1>1 DEF Defragmented
<1> HIDE DEF t, hs
<1>5. Cardinality(LiveKeys(t)) = F
  BY <1>2, <1>3, <1>4, NoGapsCount
<1>6. LiveKeys(t) = LiveKeys(hs)
  <2>1. \A x \in (1 .. n) \X (0 .. PageSize) : t[x[1]].id # 0 /\ x[2] < t[x[1]].size <=> hs[x[1]].id # 0 /\ x[2] < hs[x[1]].size
    <3>1. ASSUME NEW x \in (1 .. n) \X (0 .. PageSize)
          PROVE  t[x[1]].id # 0 /\ x[2] < t[x[1]].size <=> hs[x[1]].id # 0 /\ x[2] < hs[x[1]].size
      <4>1. x[1] \in 1 .. n
        OBVIOUS
      <4>2. t[x[1]].id = hs[x[1]].id /\ (hs[x[1]].id # 0 => t[x[1]].size = hs[x[1]].size)
        BY <4>1, <1>3
      <4>. QED
        BY <4>2
    <3>. QED
      BY <3>1
  <2>. QED
    BY <2>1, <1>2 DEF LiveKeys
<1>7. t[h].size = 0 /\ (hs[h].id = 0 \/ hs[h].size = 0)
  <2>1. h \in 1 .. n /\ (hs[h].id = 0 \/ hs[h].id = id)
    BY DEF hs
  <2>2. hs[h].id = id => hs[h].size = 0
    BY <2>1 DEF Ready, hs
  <2>. QED
    BY <2>1, <2>2, <1>3
<1>8. ASSUME NEW m \in 1 .. n, hs[m].id # 0, NEW o \in 0 .. hs[m].size - 1
      PROVE  d.bytes[t[m].start + o] = p.bytes[hs[m].start + o]
  BY <1>1, <1>8 DEF Defragmented, t, hs
<1>9. n \in Nat /\ h \in 1 .. n
  BY <1>2 DEF hs
<1>10. Opened(d, h, p)
  <2>1. Len(d.headers) = n /\ Len(p.headers) = n /\ n <= n
    BY <1>2, <1>9 DEF t, hs
  <2>2. Fill(d.headers, SizesOf(d.headers), Cardinality(LiveKeys(p.headers)))
    BY <1>4, <1>5, <1>6 DEF t, hs
  <2>3. d.headers = t /\ p.headers = hs
    BY DEF t, hs
  <2>4. ASSUME NEW m \in 1 .. Len(d.headers), m # h
        PROVE  /\ m <= Len(p.headers)
               /\ d.headers[m].id = p.headers[m].id /\ d.headers[m].chain = p.headers[m].chain
               /\ d.headers[m].size = IF p.headers[m].id = 0 THEN 0 ELSE p.headers[m].size
               /\ p.headers[m].id # 0 => \A o \in 0 .. p.headers[m].size - 1 :
                     d.bytes[d.headers[m].start + o] = p.bytes[p.headers[m].start + o]
    <3>1. m \in 1 .. n /\ m <= n
      BY <2>1, <1>9
    <3>. QED
      BY <3>1, <2>1, <2>3, <1>3, <1>8, Zenon
  <2>5. h \in 1 .. Len(d.headers) /\ Len(p.headers) <= Len(d.headers)
    BY <2>1, <1>9
  <2>6. d.headers[h].size = 0 /\ (p.headers[h].id = 0 \/ p.headers[h].size = 0)
    BY <1>7, <2>3
  <2>. QED
    BY <2>2, <2>4, <2>5, <2>6, <1>2, Zenon DEF Opened
<1>. QED
  BY <1>2, <1>10 DEF t, hs

\* What Add returns: the record is in its own header if it had one, else in one that a
\* removed record left or in a new one, and no other record has changed.
Added(r, p, id, data) ==
    /\ r.local \in Nat
    /\ IsPlaced(r.page, r.local + 1, p, id, data)
    /\ \A m \in 1 .. Len(p.headers) : p.headers[m].id = id => r.local + 1 = m
    /\ r.local + 1 <= Len(p.headers) => p.headers[r.local + 1].id \in {0, id}
    /\ Len(data) = FreeSpaceForInsert(p) => FreeSpaceForInsert(r.page) = 0

\* When nothing more fits: the block is full, or has no header to take over and less than
\* a new one and a byte need (record_block.go:304-325).
LEMMA NoSpaceIs ==
    ASSUME NEW q,
           \/ Utilization(q) = PageSize
           \/ /\ Utilization(q) \in Nat /\ PageSize - Utilization(q) <= HeaderSize
              /\ \A i \in DOMAIN q.headers : q.headers[i].id # 0
    PROVE  FreeSpaceForInsert(q) = 0
<1> DEFINE U == Utilization(q)
           dead == \E i \in DOMAIN q.headers : q.headers[i].id = 0
<1>1. FreeSpaceForInsert(q) =
        IF dead THEN PageSize - U
        ELSE IF PageSize - U > HeaderSize THEN PageSize - U - HeaderSize ELSE 0
  BY Zenon DEF FreeSpaceForInsert
<1>2. U = PageSize \/ (U \in Nat /\ PageSize - U <= HeaderSize /\ ~dead)
  OBVIOUS
<1> HIDE DEF U, dead
<1>. QED
  BY <1>1, <1>2, PageAssumption

\* Data that FreeSpaceForInsert lets in is added in full (record_block.go:72-146, 304-325).
LEMMA AddIs ==
    ASSUME NEW p, NEW z, NEW E, NEW id \in Nat \ {0}, Ready(p, z, E, id),
           NEW data, Len(data) \in Nat \ {0}, Len(data) <= FreeSpaceForInsert(p),
           NEW r \in Add(p, id, data)
    PROVE  Added(r, p, id, data)
<1> DEFINE n == Len(p.headers)
           K == Cardinality(LiveKeys(p.headers))
           U == Utilization(p)
           len == Len(data)
<1>1. PICK order \in Orders(p.headers) : r = AddResult(p, order, id, data)
  BY DEF Add
<1> DEFINE h == HeaderFor(p, order, id)
<1>2. IsPage(p) /\ p.headers \in Seq(HeaderRec) /\ n \in Nat
  BY DEF Ready, IsPage
<1>3. Chosen(h, p.headers, id)
  BY <1>2, HeaderForIs
<1>4. U = MinUsed + n * HeaderSize + K /\ K \in Nat
  <2>1. Counted(p)
    BY DEF Ready
  <2>. QED
    BY <2>1, <1>2, KeysAreFinite DEF Counted
<1>5. n * HeaderSize \in Nat /\ (n + 1) * HeaderSize = n * HeaderSize + HeaderSize
      /\ MinUsed \in Nat /\ PageSize \in Nat /\ HeaderSize \in Nat
  BY <1>2, PageAssumption
<1>6. U \in Nat
  BY <1>4, <1>5
<1>7. FreeSpaceForInsert(p) =
        IF \E i \in 1 .. n : p.headers[i].id = 0 THEN PageSize - U
        ELSE IF PageSize - U > HeaderSize THEN PageSize - U - HeaderSize ELSE 0
  <2>1. DOMAIN p.headers = 1 .. n
    BY <1>2
  <2>. QED
    BY <2>1, Zenon DEF FreeSpaceForInsert
<1> HIDE DEF U, K, n, len, h
<1>8. U + len <= PageSize /\ ((\A i \in 1 .. n : p.headers[i].id # 0) => U + HeaderSize + len <= PageSize)
  <2>1. len <= FreeSpaceForInsert(p) /\ len \in Nat /\ len # 0
    BY DEF len
  <2> DEFINE dead == \E i \in 1 .. n : p.headers[i].id = 0
  <2>2. FreeSpaceForInsert(p) = IF dead THEN PageSize - U
        ELSE IF PageSize - U > HeaderSize THEN PageSize - U - HeaderSize ELSE 0
    BY <1>7
  <2>3. (\A i \in 1 .. n : p.headers[i].id # 0) => ~dead
    OBVIOUS
  <2> HIDE DEF dead
  <2>4. U + len <= PageSize /\ (~dead => U + HeaderSize + len <= PageSize)
    BY <2>1, <2>2, <1>5, <1>6
  <2>. QED
    BY <2>3, <2>4
<1>9. CASE h # 0
  <2> DEFINE d == Defragment(p, order)
             q == WriteRecord(d, U, n, h, id, data)
  <2>1. h \in 1 .. n /\ p.headers[h].id \in {0, id}
    BY <1>3, <1>9, <1>2 DEF Chosen, n
  <2>2. r.page = q /\ r.local = h - 1
    <3>1. r = [page |-> q, local |-> h - 1]
      BY <1>1, <1>9, Zenon DEF AddResult, h, U, n
    <3> HIDE DEF q
    <3>. QED
      BY <3>1
  <2> HIDE DEF d
  <2>3. Len(d.headers) = n /\ Opened(d, h, p)
    <3>1. h \in 1 .. Len(p.headers) /\ d = Defragment(p, order)
      BY <2>1 DEF n, d
    <3>. QED
      BY <3>1, <2>1, ReuseOpens DEF n
  <2>4. q = WriteRecord(d, U, Len(d.headers), h, id, data)
    BY <2>3
  <2>5. U = MinUsed + Len(d.headers) * HeaderSize + Cardinality(LiveKeys(p.headers))
    BY <2>3, <1>4 DEF K
  <2>6. U + Len(data) <= PageSize
    BY <1>8 DEF len
  <2> HIDE DEF q
  <2>7. IsPlaced(q, h, p, id, data)
    BY <2>3, <2>4, <2>5, <2>6, <1>2, RecordPlaced
  <2>8. Fills(q, d, U, data)
    BY <2>3, <2>4, <2>5, <2>6, <1>2, RecordPlaced
  <2>9. len = FreeSpaceForInsert(p) => FreeSpaceForInsert(q) = 0
    <3>1. Utilization(q) = U + len /\ Len(q.headers) = n
      BY <2>3, <2>8 DEF Fills, len
    <3>2. len \in Nat
      BY DEF len
    <3>3. q.headers \in Seq(HeaderRec)
      BY <2>7 DEF IsPlaced, Packed, IsPage
    <3>4. FreeSpaceForInsert(q) = 0 \/ ~(len = FreeSpaceForInsert(p))
      <4>1. CASE \E i \in 1 .. n : p.headers[i].id = 0
        <5>1. len = FreeSpaceForInsert(p) => Utilization(q) = PageSize
          BY <4>1, <3>1, <3>2, <1>5, <1>6, <1>7
        <5>. QED
          BY <5>1, NoSpaceIs
      <4>2. CASE ~\E i \in 1 .. n : p.headers[i].id = 0
        <5>1. \A i \in 1 .. n : q.headers[i].id # 0
          <6>1. ASSUME NEW i \in 1 .. n PROVE q.headers[i].id # 0
            <7>1. CASE i = h
              BY <7>1, <2>7 DEF IsPlaced, Holds
            <7>2. CASE i # h
              BY <7>2, <4>2, <3>1, <2>7 DEF IsPlaced, OthersKept
            <7>. QED
              BY <7>1, <7>2
          <6>. QED
            BY <6>1
        <5>2. len = FreeSpaceForInsert(p) => PageSize - Utilization(q) <= HeaderSize
          BY <4>2, <3>1, <3>2, <1>5, <1>6, <1>7, <1>8
        <5>3. \A i \in DOMAIN q.headers : q.headers[i].id # 0
          BY <5>1, <3>1, <3>3
        <5>4. Utilization(q) \in Nat
          BY <3>1, <3>2, <1>6
        <5>. QED
          BY <5>2, <5>3, <5>4, NoSpaceIs
      <4>. QED
        BY <4>1, <4>2
    <3>. QED
      BY <3>4
  <2>10. r.local \in Nat /\ r.local + 1 = h
    BY <2>1, <2>2
  <2>11. \A m \in 1 .. n : p.headers[m].id = id => h = m
    BY <1>3, <2>1 DEF Chosen, Ready, n
  <2>. QED
    BY <2>1, <2>2, <2>7, <2>10, <2>11, <2>9 DEF Added, n, len
<1>10. CASE h = 0
  <2> DEFINE d == [p EXCEPT !.headers = Append(@, Header(id, 0, 0))]
             q == WriteRecord(d, U + HeaderSize, n + 1, n + 1, id, data)
  <2>1. \A m \in 1 .. n : p.headers[m].id \notin {0, id}
    BY <1>3, <1>10 DEF Chosen, n
  <2>2. r.page = q /\ r.local = n
    <3>1. r = [page |-> q, local |-> n]
      BY <1>1, <1>10, Zenon DEF AddResult, h, U, n
    <3> HIDE DEF q
    <3>. QED
      BY <3>1
  <2> HIDE DEF d
  <2>3. Len(d.headers) = n + 1 /\ Opened(d, n + 1, p)
    <3>1. d = [p EXCEPT !.headers = Append(@, Header(id, 0, 0))]
      BY DEF d
    <3>2. \A m \in 1 .. Len(p.headers) : p.headers[m].id \notin {0, id}
      BY <2>1 DEF n
    <3>. QED
      BY <3>1, <3>2, AppendOpens DEF n
  <2>4. q = WriteRecord(d, U + HeaderSize, Len(d.headers), n + 1, id, data)
    BY <2>3
  <2>5. U + HeaderSize = MinUsed + Len(d.headers) * HeaderSize + Cardinality(LiveKeys(p.headers))
    <3>1. U + HeaderSize = MinUsed + (n + 1) * HeaderSize + K
      BY <1>4, <1>5
    <3>. QED
      BY <3>1, <2>3 DEF K
  <2>6. U + HeaderSize + Len(data) <= PageSize
    BY <1>8, <2>1 DEF len
  <2> DEFINE u == U + HeaderSize
             k == n + 1
  <2> HIDE DEF q, u, k
  <2>7. IsPlaced(q, k, p, id, data)
    <3>1. q = WriteRecord(d, u, Len(d.headers), k, id, data) /\ Opened(d, k, p)
          /\ u = MinUsed + Len(d.headers) * HeaderSize + Cardinality(LiveKeys(p.headers))
          /\ u + Len(data) <= PageSize
      BY <2>3, <2>4, <2>5, <2>6 DEF u, k
    <3>. QED
      BY <3>1, <1>2, RecordPlaced
  <2>8. Fills(q, d, u, data)
    <3>1. q = WriteRecord(d, u, Len(d.headers), k, id, data) /\ Opened(d, k, p)
          /\ u = MinUsed + Len(d.headers) * HeaderSize + Cardinality(LiveKeys(p.headers))
          /\ u + Len(data) <= PageSize
      BY <2>3, <2>4, <2>5, <2>6 DEF u, k
    <3>. QED
      BY <3>1, <1>2, RecordPlaced
  <2>9. len = FreeSpaceForInsert(p) => FreeSpaceForInsert(q) = 0
    <3>1. Utilization(q) = U + HeaderSize + len /\ len \in Nat /\ len # 0
      BY <2>8 DEF Fills, len, u
    <3>2. ~\E i \in 1 .. n : p.headers[i].id = 0
      BY <2>1
    <3>3. len = FreeSpaceForInsert(p) => Utilization(q) = PageSize
      BY <3>1, <3>2, <1>5, <1>6, <1>7
    <3>. QED
      BY <3>3, NoSpaceIs
  <2>10. r.local \in Nat /\ r.local + 1 = k /\ ~(k <= n)
    BY <2>2, <1>2 DEF n, k
  <2>11. \A m \in 1 .. n : p.headers[m].id # id
    BY <2>1
  <2>. QED
    BY <2>2, <2>7, <2>10, <2>11, <2>9 DEF Added, n, len
<1>. QED
  BY <1>9, <1>10

-----------------------------------------------------------------------------
(* Removing                                                                *)

\* Header h, whose record is gone, is now e.
Vacated(q, p, h, e) ==
    /\ IsPage(q) /\ Len(q.headers) = Len(p.headers)
    /\ q.headers[h] = e
    /\ \A m \in 1 .. Len(p.headers) : m # h => q.headers[m] = p.headers[m]
    /\ q.bytes = p.bytes /\ q.next = p.next
    /\ Counted(q) /\ Utilization(q) = Utilization(p) - p.headers[h].size
    /\ \A z, E : Fill(p.headers, z, E) => Fill(q.headers, z, E)

\* A record goes, its header stays where it was (record_block.go:155-172, 185-204).
LEMMA HeaderVacated ==
    ASSUME NEW p, IsPage(p), Counted(p), NEW h \in 1 .. Len(p.headers), p.headers[h].id # 0,
           NEW e \in HeaderRec, e.start = p.headers[h].start, e.id = 0 \/ e.size = 0,
           NEW prev
    PROVE  Vacated([bytes |-> p.bytes, headers |-> [p.headers EXCEPT ![h] = e],
                    used |-> Utilization(p) - p.headers[h].size, next |-> p.next, prev |-> prev], p, h, e)
<1> DEFINE n == Len(p.headers)
           hs == [p.headers EXCEPT ![h] = e]
           K == Cardinality(LiveKeys(p.headers))
           L == Cardinality(LiveKeys(hs))
           U == Utilization(p)
           size == p.headers[h].size
           u == U - size
           room == n * HeaderSize
<1>1. /\ p.headers \in Seq(HeaderRec) /\ p.bytes = [a \in Addresses |-> p.bytes[a]] /\ n \in Nat
  BY DEF IsPage
<1>2. /\ hs \in Seq(HeaderRec) /\ Len(hs) = n
      /\ hs[h] = e /\ \A k \in 1 .. n : k # h => hs[k] = p.headers[k]
  BY <1>1, HeaderWritten
<1> HIDE DEF hs
<1>3. size \in Nat
  BY <1>1, HeaderNumbers
<1>4. K = L + size
  <2> DEFINE t == p.headers
  <2> HIDE DEF t
  <2>1. hs \in Seq(HeaderRec) /\ t \in Seq(HeaderRec) /\ h \in 1 .. Len(t) /\ t[h].id # 0 /\ Len(hs) <= Len(t) /\ Len(t) = n
    BY <1>1, <1>2 DEF t
  <2>2. \A k \in 1 .. Len(t) : k # h => /\ k <= Len(hs)
                                        /\ t[k].id = 0 <=> hs[k].id = 0
                                        /\ t[k].id # 0 => t[k].size = hs[k].size
    BY <2>1, <1>1, <1>2 DEF t
  <2>3. h <= Len(hs) => hs[h].id = 0 \/ hs[h].size = 0
    BY <1>2
  <2>4. Cardinality(LiveKeys(t)) = Cardinality(LiveKeys(hs)) + t[h].size
    BY <2>1, <2>2, <2>3, KeysAdded
  <2>. QED
    BY <2>4 DEF t
<1>5. L \in Nat
  BY <1>2, KeysAreFinite
<1>6. room \in Nat /\ MinUsed \in Nat /\ MinUsed # 0
  BY <1>1, PageAssumption
<1>7. U = MinUsed + room + K
  BY DEF Counted
<1> HIDE DEF K, L, U, size, room
<1>8. u = MinUsed + room + L /\ u \in Nat /\ u # 0
  BY <1>3, <1>4, <1>5, <1>6, <1>7
<1>9. ASSUME NEW z, NEW E, Fill(p.headers, z, E) PROVE Fill(hs, z, E)
  <2>1. ASSUME NEW m \in 1 .. n PROVE hs[m].start = p.headers[m].start
    BY <1>2
  <2>. QED
    BY <2>1, <1>2, <1>9 DEF Fill
<1> HIDE DEF u
<1>10. ASSUME NEW q, q = [bytes |-> p.bytes, headers |-> hs, used |-> u, next |-> p.next, prev |-> prev]
       PROVE  Vacated(q, p, h, e)
  <2>1. q.bytes = p.bytes /\ q.headers = hs /\ q.used = u /\ q.next = p.next /\ q.prev = prev
    BY <1>10, PageFields, Zenon
  <2>2. IsPage(q)
    BY <2>1, <1>1, <1>2, <1>8, <1>10 DEF IsPage
  <2>3. Counted(q)
    <3>1. Utilization(q) = u
      BY <2>1, <1>8 DEF Utilization
    <3>2. Len(q.headers) * HeaderSize = room /\ Cardinality(LiveKeys(q.headers)) = L
      BY <2>1, <1>2 DEF room, L
    <3>. QED
      BY <3>1, <3>2, <1>8 DEF Counted
  <2>4. Utilization(q) = Utilization(p) - p.headers[h].size
    <3>1. Utilization(q) = u
      BY <2>1, <1>8 DEF Utilization
    <3>. QED
      BY <3>1 DEF u, U, size
  <2>. QED
    BY <2>1, <2>2, <2>3, <2>4, <1>2, <1>9, Zenon DEF Vacated
<1>. QED
  BY <1>10 DEF u, U, size, hs

\* Remove (record_block.go:148-173): the id goes, the size stays.
LEMMA RemoveIs ==
    ASSUME NEW p, IsPage(p), Counted(p), NEW l \in Nat, l + 1 \in 1 .. Len(p.headers),
           p.headers[l + 1].id # 0
    PROVE  Vacated(Remove(p, l), p, l + 1, [p.headers[l + 1] EXCEPT !.id = 0])
<1> DEFINE h == l + 1
           e == [p.headers[h] EXCEPT !.id = 0]
           hs == [p.headers EXCEPT ![h] = e]
           u == Utilization(p) - p.headers[h].size
           q == [bytes |-> p.bytes, headers |-> hs, used |-> u, next |-> p.next, prev |-> p.prev]
<1>1. /\ p = [bytes |-> p.bytes, headers |-> p.headers, used |-> p.used, next |-> p.next, prev |-> p.prev]
      /\ p.headers \in Seq(HeaderRec) /\ h \in 1 .. Len(p.headers)
  BY DEF IsPage
<1>2. p.headers[h] \in HeaderRec
  BY <1>1
<1>3. e \in HeaderRec /\ e.id = 0 /\ e.start = p.headers[h].start
  BY <1>2 DEF HeaderRec
<1>4. Remove(p, l) = q
  <2>1. Remove(p, l) = [p EXCEPT !.headers[h].id = 0, !.used = u]
    BY Zenon DEF Remove
  <2> HIDE DEF u
  <2>2. ASSUME NEW x, x = [bytes |-> p.bytes, headers |-> p.headers, used |-> p.used, next |-> p.next, prev |-> p.prev],
               NEW t, t = [x.headers EXCEPT ![h].id = 0]
        PROVE  [x EXCEPT !.headers[h].id = 0, !.used = u] =
                 [bytes |-> p.bytes, headers |-> t, used |-> u, next |-> p.next, prev |-> p.prev]
    <3> HIDE DEF hs, e, h
    <3>1. [x EXCEPT !.headers[h].id = 0] =
            [bytes |-> p.bytes, headers |-> t, used |-> p.used, next |-> p.next, prev |-> p.prev]
      BY <2>2, SMTT(30)
    <3>2. ASSUME NEW y, y = [bytes |-> p.bytes, headers |-> t, used |-> p.used, next |-> p.next, prev |-> p.prev]
          PROVE  [y EXCEPT !.used = u] =
                   [bytes |-> p.bytes, headers |-> t, used |-> u, next |-> p.next, prev |-> p.prev]
      BY <3>2
    <3>. QED
      BY <3>1, <3>2
  <2>3. [p.headers EXCEPT ![h].id = 0] = hs
    BY Zenon
  <2> HIDE DEF hs, h
  <2>. QED
    BY <2>1, <2>2, <2>3, <1>1, Zenon
<1> HIDE DEF q
<1>5. Vacated(q, p, h, e)
  <2>1. q = [bytes |-> p.bytes, headers |-> hs, used |-> Utilization(p) - p.headers[h].size, next |-> p.next, prev |-> p.prev]
    BY DEF q
  <2>2. hs = [p.headers EXCEPT ![h] = e]
    OBVIOUS
  <2>3. p.headers[h].id # 0
    OBVIOUS
  <2> HIDE DEF h, e, hs
  <2>. QED
    BY <2>1, <2>2, <2>3, <1>1, <1>3, HeaderVacated
<1>. QED
  BY <1>4, <1>5

\* An id below 2^16 has no high half.
LEMMA LowHalf ==
    ASSUME NEW a \in Nat, NEW b \in Nat, a < b
    PROVE  a % b = a
OBVIOUS

\* SoftRemove (record_block.go:175-205): the size and the chain go, the id stays.  The
\* two bytes written past the header are the high half of the next header's id, zero as
\* long as the ids are below 2^16, or those of the prev block field.
LEMMA SoftRemoveIs ==
    ASSUME NEW p, IsPage(p), Counted(p), NEW l \in Nat, l + 1 \in 1 .. Len(p.headers),
           p.headers[l + 1].id # 0,
           l # 0 => p.headers[l].id < LowIDs
    PROVE  Vacated(SoftRemove(p, l), p, l + 1, [p.headers[l + 1] EXCEPT !.size = 0, !.chain = NoRow])
<1> DEFINE h == l + 1
           e == [p.headers[h] EXCEPT !.size = 0, !.chain = NoRow]
           hs == [p.headers EXCEPT ![h] = e]
           u == Utilization(p) - p.headers[h].size
           rec(prev) == [bytes |-> p.bytes, headers |-> hs, used |-> u, next |-> p.next, prev |-> prev]
           soft == [p EXCEPT !.headers[h].size = 0, !.headers[h].chain = NoRow, !.used = u]
<1>1. /\ p = [bytes |-> p.bytes, headers |-> p.headers, used |-> p.used, next |-> p.next, prev |-> p.prev]
      /\ p.headers \in Seq(HeaderRec) /\ h \in 1 .. Len(p.headers)
  BY DEF IsPage
<1>2. p.headers[h] \in HeaderRec
  BY <1>1
<1>3. e \in HeaderRec /\ e.size = 0 /\ e.start = p.headers[h].start
  <2>1. NoRow \in RowIDs /\ 0 \in 0 .. PageSize
    BY PageAssumption DEF NoRow, RowIDs
  <2>. QED
    BY <1>2, <2>1 DEF HeaderRec
<1>4. soft = rec(p.prev)
  <2> HIDE DEF u
  <2> DEFINE s == [p.headers EXCEPT ![h].size = 0]
             block(x, v) == [bytes |-> p.bytes, headers |-> x, used |-> v, next |-> p.next, prev |-> p.prev]
  <2>1. p = block(p.headers, p.used)
    BY <1>1
  <2>2. [s EXCEPT ![h].chain = NoRow] = hs
    <3>1. [p.headers[h] EXCEPT !.size = 0] \in HeaderRec
      <4>1. 0 \in 0 .. PageSize
        BY PageAssumption
      <4> HIDE DEF h
      <4>. QED
        BY <1>2, <4>1 DEF HeaderRec
    <3>2. [[p.headers[h] EXCEPT !.size = 0] EXCEPT !.chain = NoRow] = e
      BY Zenon
    <3> HIDE DEF h, e
    <3>3. s[h] = [p.headers[h] EXCEPT !.size = 0]
      BY <1>1
    <3>. QED
      BY <1>1, <3>2, <3>3
  <2>3. ASSUME NEW x, NEW y, y = [x EXCEPT ![h].size = 0],
               NEW b, b = block(x, p.used)
        PROVE  [b EXCEPT !.headers[h].size = 0] = block(y, p.used)
    <3> HIDE DEF hs, e, h, s
    <3>1. b.headers = x
      BY <2>3
    <3>. QED
      BY <2>3, <3>1
  <2>4. ASSUME NEW x, NEW y, y = [x EXCEPT ![h].chain = NoRow],
               NEW b, b = block(x, p.used)
        PROVE  [b EXCEPT !.headers[h].chain = NoRow] = block(y, p.used)
    <3> HIDE DEF hs, e, h, s
    <3>1. b.headers = x
      BY <2>4
    <3>. QED
      BY <2>4, <3>1
  <2>5. ASSUME NEW x, NEW b, b = block(x, p.used)
        PROVE  [b EXCEPT !.used = u] = block(x, u)
    <3> HIDE DEF hs, e, h, s
    <3>. QED
      BY <2>5
  <2>6. soft = [[[p EXCEPT !.headers[h].size = 0] EXCEPT !.headers[h].chain = NoRow] EXCEPT !.used = u]
    BY Zenon
  <2>7. [p EXCEPT !.headers[h].size = 0] = block(s, p.used)
    <3> HIDE DEF block, h
    <3>. QED
      BY <2>1, <2>3, Zenon
  <2>8. [block(s, p.used) EXCEPT !.headers[h].chain = NoRow] = block(hs, p.used)
    <3> HIDE DEF block, h, s, hs
    <3>. QED
      BY <2>2, <2>4, Zenon
  <2>9. [block(hs, p.used) EXCEPT !.used = u] = block(hs, u)
    <3> HIDE DEF block, hs
    <3>. QED
      BY <2>5, Zenon
  <2> HIDE DEF soft, h, s, hs
  <2>. QED
    BY <2>6, <2>7, <2>8, <2>9, Zenon
<1>5. SoftRemove(p, l) = OverrunSoftRemove(soft, l)
  BY Zenon DEF SoftRemove
<1>6. \E prev : SoftRemove(p, l) = rec(prev)
  <2> HIDE DEF soft, u
  <2>1. CASE l = 0
    <3>1. SoftRemove(p, l) = [soft EXCEPT !.prev = 0]
      BY <2>1, <1>5 DEF OverrunSoftRemove
    <3> HIDE DEF hs
    <3>2. [soft EXCEPT !.prev = 0] = rec(0)
      BY <1>4
    <3>. QED
      BY <3>1, <3>2
  <2>2. CASE l # 0
    <3>1. SoftRemove(p, l) = [soft EXCEPT !.headers[l].id = @ % LowIDs]
      BY <2>2, <1>5 DEF OverrunSoftRemove
    <3>2. l \in 1 .. Len(p.headers) /\ l # h
      BY <2>2, <1>1
    <3>3. hs \in Seq(HeaderRec) /\ l \in 1 .. Len(hs) /\ hs[l] = p.headers[l] /\ hs[l] \in HeaderRec
      <4> HIDE DEF e
      <4>. QED
        BY <1>1, <1>3, <3>2, HeaderWritten
    <3>4. hs[l].id % LowIDs = hs[l].id
      <4>1. hs[l].id \in Nat /\ hs[l].id < LowIDs
        BY <2>2, <3>3, HeaderNumbers
      <4>. QED
        BY <4>1, LowHalf, PageAssumption
    <3> HIDE DEF hs
    <3>5. [hs EXCEPT ![l].id = hs[l].id % LowIDs] = hs
      <4>1. [hs[l] EXCEPT !.id = hs[l].id] = hs[l]
        BY <3>3 DEF HeaderRec
      <4>. QED
        BY <3>3, <3>4, <4>1
    <3>6. ASSUME NEW y, y = rec(p.prev)
          PROVE  [y EXCEPT !.headers[l].id = @ % LowIDs] = rec(p.prev)
      <4>1. y.headers = hs
        BY <3>6
      <4>2. [y.headers EXCEPT ![l].id = y.headers[l].id % LowIDs] = hs
        BY <4>1, <3>5, Zenon
      <4>3. [y EXCEPT !.headers[l].id = @ % LowIDs] = [y EXCEPT !.headers = hs]
        BY <4>2, Zenon
      <4>4. [y EXCEPT !.headers = hs] = rec(p.prev)
        BY <3>6
      <4>. QED
        BY <4>3, <4>4
    <3>. QED
      BY <3>1, <3>6, <1>4
  <2>. QED
    BY <2>1, <2>2
<1>7. PICK prev : SoftRemove(p, l) = rec(prev)
  BY <1>6
<1>8. Vacated(rec(prev), p, h, e)
  <2>1. p.headers[h].id # 0 /\ (e.id = 0 \/ e.size = 0)
    BY <1>3
  <2> HIDE DEF h, e
  <2>. QED
    BY <2>1, <1>1, <1>3, HeaderVacated
<1>. QED
  BY <1>7, <1>8

\* Clear leaves an empty block (record_block.go:205-208).
LEMMA ClearIs ==
    ASSUME NEW p, IsPage(p)
    PROVE  Packed(Clear(p)) /\ Clear(p).headers = <<>>
<1>1. /\ p = [bytes |-> p.bytes, headers |-> p.headers, used |-> p.used, next |-> p.next, prev |-> p.prev]
      /\ p.bytes = [a \in Addresses |-> p.bytes[a]]
  BY DEF IsPage
<1>2. Clear(p) = [bytes |-> p.bytes, headers |-> <<>>, used |-> 0, next |-> p.next, prev |-> p.prev]
  <2>1. Clear(p) = [p EXCEPT !.headers = <<>>, !.used = 0]
    BY Zenon DEF Clear
  <2>2. ASSUME NEW x, x = [bytes |-> p.bytes, headers |-> p.headers, used |-> p.used, next |-> p.next, prev |-> p.prev]
        PROVE  [x EXCEPT !.headers = <<>>] =
                 [bytes |-> p.bytes, headers |-> <<>>, used |-> p.used, next |-> p.next, prev |-> p.prev]
    BY <2>2
  <2>3. ASSUME NEW x, x = [bytes |-> p.bytes, headers |-> <<>>, used |-> p.used, next |-> p.next, prev |-> p.prev]
        PROVE  [x EXCEPT !.used = 0] =
                 [bytes |-> p.bytes, headers |-> <<>>, used |-> 0, next |-> p.next, prev |-> p.prev]
    BY <2>3
  <2>. QED
    BY <2>1, <2>2, <2>3, <1>1
<1>3. ASSUME NEW q, q = [bytes |-> p.bytes, headers |-> <<>>, used |-> 0, next |-> p.next, prev |-> p.prev]
      PROVE  Packed(q) /\ q.headers = <<>>
  <2>1. q.bytes = p.bytes /\ q.headers = <<>> /\ q.used = 0 /\ q.next = p.next /\ q.prev = p.prev
    BY <1>3, PageFields, Zenon
  <2>2. IsPage(q)
    BY <2>1, <1>1, <1>3 DEF IsPage
  <2>3. Len(q.headers) = 0
    BY <2>1
  <2>4. Fill(q.headers, SizesOf(q.headers), 0)
    BY <2>3, PageAssumption DEF Fill, Addresses
  <2>5. Cardinality(LiveKeys(q.headers)) = 0
    <3>1. LiveKeys(q.headers) = {}
      BY <2>3 DEF LiveKeys
    <3>. QED
      BY <3>1, FS_EmptySet
  <2>6. 0 + MinUsed + 0 * HeaderSize <= PageSize /\ Utilization(q) = MinUsed + 0 * HeaderSize + 0
    BY <2>1, PageAssumption DEF Utilization
  <2>. QED
    BY <2>1, <2>2, <2>3, <2>4, <2>5, <2>6 DEF Packed, Counted
<1>. QED
  BY <1>2, <1>3

\* q differs from p in bytes of no record.
Forgotten(q, p) ==
    /\ IsPage(q) /\ q.headers = p.headers /\ q.used = p.used /\ q.next = p.next /\ q.prev = p.prev
    /\ \A m \in 1 .. Len(p.headers) : p.headers[m].id # 0 =>
          \A o \in 0 .. p.headers[m].size - 1 :
              q.bytes[p.headers[m].start + o] = p.bytes[p.headers[m].start + o]

\* Nothing depends on the bytes removals leave behind (record_block.go:155-172).
LEMMA ForgetIs ==
    ASSUME NEW p, Packed(p)
    PROVE  Forgotten(Forget(p), p) /\ Packed(Forget(p))
<1>1. /\ p = [bytes |-> p.bytes, headers |-> p.headers, used |-> p.used, next |-> p.next, prev |-> p.prev]
      /\ p.bytes = [a \in Addresses |-> p.bytes[a]] /\ p.headers \in Seq(HeaderRec) /\ p.used \in Nat
  BY DEF Packed, IsPage
<1> DEFINE mine(a) == \E i \in Live(p) : a \in Extent(p, i)
           bs == [a \in Addresses |-> IF mine(a) THEN p.bytes[a] ELSE ZeroByte]
           n == Len(p.headers)
<1>2. Forget(p) = [p EXCEPT !.bytes = bs]
  <2>1. DOMAIN p.bytes = Addresses
    BY <1>1
  <2>2. Forget(p) = [p EXCEPT !.bytes = [a \in DOMAIN p.bytes |-> IF mine(a) THEN p.bytes[a] ELSE ZeroByte]]
    BY Zenon DEF Forget
  <2>. QED
    BY <2>1, <2>2, Zenon
<1>3. \A a \in Addresses : bs[a] = IF mine(a) THEN p.bytes[a] ELSE ZeroByte
  BY Zenon
<1>4. bs = [a \in Addresses |-> bs[a]]
  OBVIOUS
<1>5. ASSUME NEW m \in 1 .. n, p.headers[m].id # 0, NEW o \in 0 .. p.headers[m].size - 1
      PROVE  bs[p.headers[m].start + o] = p.bytes[p.headers[m].start + o]
  <2> DEFINE s == p.headers[m].start
             z == p.headers[m].size
             a == s + o
  <2>1. s \in Nat /\ z \in Nat
    BY <1>1, HeaderNumbers
  <2>2. m \in Live(p)
    BY <1>1, <1>5 DEF Live
  <2>3. PICK E : Fill(p.headers, SizesOf(p.headers), E)
    BY DEF Packed
  <2>4. E \in Addresses /\ (z # 0 => s + z <= E)
    <3>1. SizesOf(p.headers)[m] = z
      BY DEF SizesOf
    <3>. QED
      BY <2>3, <3>1 DEF Fill
  <2>5. a \in s .. s + z - 1 /\ a \in Addresses
    <3>1. o \in 0 .. z - 1
      OBVIOUS
    <3>2. E \in Nat /\ E < PageSize
      BY <2>4, PageAssumption DEF Addresses
    <3>3. z # 0 => s + z <= E
      BY <2>4
    <3> HIDE DEF s, z
    <3>4. a \in Nat /\ a <= s + z - 1 /\ a < PageSize /\ s <= a
      BY <3>1, <3>2, <3>3, <2>1, PageAssumption
    <3>. QED
      BY <3>4, <2>1, PageAssumption DEF Addresses
  <2>6. mine(a)
    BY <2>2, <2>5 DEF Extent
  <2> HIDE DEF mine, a, bs
  <2>7. bs[a] = p.bytes[a]
    BY <2>5, <2>6, <1>3
  <2>. QED
    BY <2>7 DEF a
<1> HIDE DEF bs
<1>6. Forget(p) = [bytes |-> bs, headers |-> p.headers, used |-> p.used, next |-> p.next, prev |-> p.prev]
  <2>1. ASSUME NEW x, x = [bytes |-> p.bytes, headers |-> p.headers, used |-> p.used, next |-> p.next, prev |-> p.prev]
        PROVE  [x EXCEPT !.bytes = bs] =
                 [bytes |-> bs, headers |-> p.headers, used |-> p.used, next |-> p.next, prev |-> p.prev]
    BY <2>1
  <2>. QED
    BY <2>1, <1>1, <1>2
<1>7. ASSUME NEW q, q = [bytes |-> bs, headers |-> p.headers, used |-> p.used, next |-> p.next, prev |-> p.prev]
      PROVE  Forgotten(q, p) /\ Packed(q)
  <2>1. q.bytes = bs /\ q.headers = p.headers /\ q.used = p.used /\ q.next = p.next /\ q.prev = p.prev
    BY <1>7, PageFields, Zenon
  <2>2. IsPage(q)
    BY <2>1, <1>1, <1>4, <1>7 DEF IsPage
  <2>3. Forgotten(q, p)
    BY <2>1, <2>2, <1>5, Zenon DEF Forgotten
  <2>4. Packed(q)
    BY <2>1, <2>2 DEF Packed, Counted, Utilization
  <2>. QED
    BY <2>3, <2>4
<1>. QED
  BY <1>6, <1>7

-----------------------------------------------------------------------------
(* Reading                                                                 *)

IsBytes(data) == Len(data) \in Nat /\ data = [k \in 1 .. Len(data) |-> data[k]]

\* Data a record can hold, which is not the mark of an absent one.
LEMMA DataIs ==
    ASSUME NEW id \in Nat \ {0}, NEW n \in Nat
    PROVE  /\ Len(Data(id, n)) = n
           /\ \A k \in 1 .. n : Data(id, n)[k] = <<id, n, k>>
           /\ IsBytes(Data(id, n))
           /\ Data(id, n) # Absent
           /\ Data(id, n) # <<>> => n # 0
<1>1. Len(Data(id, n)) = n
  BY DEF Data
<1>2. \A k \in 1 .. n : Data(id, n)[k] = <<id, n, k>>
  BY DEF Data
<1>3. IsBytes(Data(id, n))
  <2>1. Data(id, n) = [k \in 1 .. n |-> Data(id, n)[k]]
    BY DEF Data
  <2>. QED
    BY <1>1, <2>1 DEF IsBytes
<1>4. Data(id, n) # Absent
  <2> SUFFICES ASSUME Data(id, n) = Absent PROVE FALSE
    OBVIOUS
  <2>1. Len(Absent) = 1 /\ Absent[1] = <<0, 1, 1>>
    BY DEF Absent, Data
  <2>2. n = 1
    BY <1>1, <2>1
  <2>3. 1 \in 1 .. n
    BY <2>2
  <2>4. Data(id, n)[1] = <<id, n, 1>>
    BY <1>2, <2>3
  <2>. QED
    BY <2>1, <2>4
<1>5. Data(id, n) # <<>> => n # 0
  <2> SUFFICES ASSUME n = 0 PROVE Data(id, n) = <<>>
    OBVIOUS
  <2>. QED
    BY DEF Data
<1>. QED
  BY <1>1, <1>2, <1>3, <1>4, <1>5

ReadsAs(q, h, data) == ReadRecordData(q, h - 1) = data

\* Reading a record that has been written (record_block.go:283-302).
LEMMA ReadIs ==
    ASSUME NEW q, q.headers \in Seq(HeaderRec), NEW h, NEW id, NEW data, IsBytes(data),
           Holds(q, h, id, data)
    PROVE  ReadsAs(q, h, data)
<1> DEFINE s == q.headers[h].start
           n == Len(data)
<1>1. /\ n \in Nat /\ data = [k \in 1 .. n |-> data[k]]
      /\ h \in Nat \ {0} /\ s \in Nat /\ q.headers[h].size = n
      /\ \A o \in 0 .. n - 1 : q.bytes[s + o] = data[o + 1]
  <2>1. /\ h \in 1 .. Len(q.headers) /\ q.headers[h].size = n
        /\ \A o \in 0 .. n - 1 : q.bytes[s + o] = data[o + 1]
    BY DEF Holds
  <2>2. s \in Nat /\ h \in Nat \ {0}
    BY <2>1, HeaderNumbers
  <2>. QED
    BY <2>1, <2>2 DEF IsBytes
<1>2. ReadRecordData(q, h - 1) = [k \in 1 .. n |-> q.bytes[s + k - 1]]
  <2>1. h - 1 + 1 = h
    BY <1>1
  <2>2. ReadRecordData(q, h - 1) = [k \in 1 .. q.headers[h - 1 + 1].size |-> q.bytes[q.headers[h - 1 + 1].start + k - 1]]
    BY Zenon DEF ReadRecordData
  <2>. QED
    BY <2>1, <2>2, <1>1
<1> HIDE DEF s, n
<1>3. ASSUME NEW k \in 1 .. n PROVE q.bytes[s + k - 1] = data[k]
  <2>1. k - 1 \in 0 .. n - 1 /\ s + (k - 1) = s + k - 1 /\ k - 1 + 1 = k
    BY <1>1
  <2>2. q.bytes[s + (k - 1)] = data[k - 1 + 1]
    BY <2>1, <1>1
  <2>. QED
    BY <2>1, <2>2
<1>4. [k \in 1 .. n |-> q.bytes[s + k - 1]] = [k \in 1 .. n |-> data[k]]
  BY <1>3
<1>. QED
  BY <1>1, <1>2, <1>4, Zenon DEF ReadsAs

\* A record none of whose bytes changed, wherever they moved, reads back as before
\* (record_block.go:283-302).
LEMMA SameRead ==
    ASSUME NEW p, NEW q, NEW h \in Nat \ {0}, NEW n \in Nat,
           p.headers[h].size = n, q.headers[h].size = n,
           p.headers[h].start \in Nat, q.headers[h].start \in Nat,
           \A o \in 0 .. n - 1 : q.bytes[q.headers[h].start + o] = p.bytes[p.headers[h].start + o]
    PROVE  ReadRecordData(q, h - 1) = ReadRecordData(p, h - 1)
<1>1. h - 1 + 1 = h
  OBVIOUS
<1>2. ReadRecordData(q, h - 1) = [k \in 1 .. n |-> q.bytes[q.headers[h].start + k - 1]]
  <2>1. ReadRecordData(q, h - 1) = [k \in 1 .. q.headers[h - 1 + 1].size |-> q.bytes[q.headers[h - 1 + 1].start + k - 1]]
    BY Zenon DEF ReadRecordData
  <2>. QED
    BY <2>1, <1>1
<1>3. ReadRecordData(p, h - 1) = [k \in 1 .. n |-> p.bytes[p.headers[h].start + k - 1]]
  <2>1. ReadRecordData(p, h - 1) = [k \in 1 .. p.headers[h - 1 + 1].size |-> p.bytes[p.headers[h - 1 + 1].start + k - 1]]
    BY Zenon DEF ReadRecordData
  <2>. QED
    BY <2>1, <1>1
<1>4. ASSUME NEW k \in 1 .. n
      PROVE  q.bytes[q.headers[h].start + k - 1] = p.bytes[p.headers[h].start + k - 1]
  <2>1. /\ k - 1 \in 0 .. n - 1
        /\ q.headers[h].start + (k - 1) = q.headers[h].start + k - 1
        /\ p.headers[h].start + (k - 1) = p.headers[h].start + k - 1
    OBVIOUS
  <2>. QED
    BY <2>1
<1>. QED
  BY <1>2, <1>3, <1>4

-----------------------------------------------------------------------------
(* Free space                                                              *)

\* The bytes of the records lie below where they end (record_block.go:109, 117).
LEMMA LiveBytesFit ==
    ASSUME NEW hs \in Seq(HeaderRec), NEW E, Fill(hs, SizesOf(hs), E)
    PROVE  LiveBytes(hs) \subseteq 0 .. E - 1
<1>1. \A m \in 1 .. Len(hs) : hs[m].start \in Nat /\ hs[m].size \in Nat
  BY HeaderNumbers
<1>2. \A m \in 1 .. Len(hs) : hs[m].size # 0 => hs[m].start + hs[m].size <= E
  <2>1. \A m \in 1 .. Len(hs) : SizesOf(hs)[m] = hs[m].size
    BY DEF SizesOf
  <2>. QED
    BY <2>1 DEF Fill
<1>3. E \in Nat
  BY PageAssumption DEF Fill, Addresses
<1>4. ASSUME NEW a \in LiveBytes(hs) PROVE a \in 0 .. E - 1
  <2>1. PICK m \in 1 .. Len(hs) : a \in hs[m].start .. hs[m].start + hs[m].size - 1
    BY DEF LiveBytes
  <2>2. hs[m].start \in Nat /\ hs[m].size \in Nat /\ (hs[m].size # 0 => hs[m].start + hs[m].size <= E)
    BY <1>1, <1>2
  <2>. QED
    BY <2>1, <2>2, <1>3
<1>. QED
  BY <1>4

\* The utilization never exceeds the block (record_block.go:103, 134, 304-325).
LEMMA UtilizationFits ==
    ASSUME NEW p, Packed(p)
    PROVE  Utilization(p) \in Nat /\ Utilization(p) <= PageSize
<1> DEFINE n == Len(p.headers)
           K == Cardinality(LiveKeys(p.headers))
           room == n * HeaderSize
<1>1. PICK E : Fill(p.headers, SizesOf(p.headers), E) /\ E + MinUsed + room <= PageSize
  BY DEF Packed
<1>2. p.headers \in Seq(HeaderRec) /\ n \in Nat
  BY DEF Packed, IsPage
<1>3. E \in Nat
  BY <1>1, PageAssumption DEF Fill, Addresses
<1>4. Cardinality(LiveBytes(p.headers)) = K /\ K \in Nat
  BY <1>1, <1>2, KeysAreBytes, KeysAreFinite
<1>5. K <= E
  <2>1. LiveBytes(p.headers) \subseteq 0 .. E - 1
    BY <1>1, <1>2, LiveBytesFit
  <2>2. 0 \in Int /\ E - 1 \in Int
    BY <1>3
  <2>3. IsFiniteSet(0 .. E - 1)
    BY <2>2, FS_Interval
  <2>4. Cardinality(0 .. E - 1) = IF 0 > E - 1 THEN 0 ELSE (E - 1) - 0 + 1
    BY <2>2, FS_Interval, Zenon
  <2>5. Cardinality(LiveBytes(p.headers)) <= Cardinality(0 .. E - 1)
    BY <2>1, <2>3, FS_Subset
  <2>. QED
    BY <2>4, <2>5, <1>3, <1>4
<1>6. Utilization(p) = MinUsed + room + K
  BY DEF Packed, Counted
<1>7. room \in Nat /\ MinUsed \in Nat /\ PageSize \in Nat
  BY <1>2, PageAssumption
<1> HIDE DEF room, K
<1>. QED
  BY <1>1, <1>3, <1>4, <1>5, <1>6, <1>7

\* The space on offer is a number (record_block.go:304-325).
LEMMA FreeSpaceIs ==
    ASSUME NEW p, Utilization(p) \in Nat, Utilization(p) <= PageSize
    PROVE  FreeSpaceForInsert(p) \in Nat
<1> DEFINE U == Utilization(p)
           dead == \E i \in DOMAIN p.headers : p.headers[i].id = 0
<1>1. FreeSpaceForInsert(p) =
        IF dead THEN PageSize - U
        ELSE IF PageSize - U > HeaderSize THEN PageSize - U - HeaderSize ELSE 0
  BY Zenon DEF FreeSpaceForInsert
<1>2. U \in Nat /\ U <= PageSize
  OBVIOUS
<1> HIDE DEF U, dead
<1>. QED
  BY <1>1, <1>2, PageAssumption

-----------------------------------------------------------------------------
(* What order on a block is good for                                       *)

\* Records that fill a block from its start share no byte and lie below its headers
\* (record_block.go:109, 117).
LEMMA PackedIsLaidOut ==
    ASSUME NEW p, Packed(p)
    PROVE  LaidOut(p)
<1> DEFINE hs == p.headers
           n == Len(hs)
           room == n * HeaderSize
<1>1. Packed(p) /\ hs \in Seq(HeaderRec) /\ n \in Nat
  BY DEF Packed, IsPage
<1>2. PICK E : Fill(hs, SizesOf(hs), E) /\ E + MinUsed + room <= PageSize
  BY <1>1 DEF Packed
<1>3. room \in Nat /\ MinUsed \in Nat /\ PageSize \in Nat /\ E \in Nat
  BY <1>1, <1>2, PageAssumption DEF Fill, Addresses
<1>4. \A i \in Live(p) : i \in 1 .. n
  BY <1>1 DEF Live
<1>5. \A i \in 1 .. n : SizesOf(hs)[i] = hs[i].size
  BY DEF SizesOf
<1>6. \A i \in 1 .. n : hs[i].start \in Nat /\ hs[i].size \in Nat
  BY <1>1, HeaderNumbers
<1>7. \A i \in 1 .. n : hs[i].size # 0 => hs[i].start + hs[i].size <= E
  BY <1>2, <1>5 DEF Fill
<1>8. \A i, j \in 1 .. n : i # j /\ hs[i].size # 0 /\ hs[j].size # 0 =>
        hs[i].start + hs[i].size <= hs[j].start \/ hs[j].start + hs[j].size <= hs[i].start
  BY <1>2, <1>5 DEF Fill
<1> HIDE DEF room
<1>9. ASSUME NEW i \in Live(p) PROVE Extent(p, i) \subseteq 0 .. PageSize - MinUsed - room - 1
  <2>1. i \in 1 .. n
    BY <1>4
  <2>2. ASSUME NEW a \in hs[i].start .. hs[i].start + hs[i].size - 1 PROVE a \in 0 .. PageSize - MinUsed - room - 1
    <3>1. hs[i].start \in Nat /\ hs[i].size \in Nat /\ (hs[i].size # 0 => hs[i].start + hs[i].size <= E)
      BY <2>1, <1>6, <1>7
    <3>. QED
      BY <3>1, <1>2, <1>3
  <2>. QED
    BY <2>2 DEF Extent
<1>10. ASSUME NEW i \in Live(p), NEW j \in Live(p), i # j
       PROVE  Extent(p, i) \cap Extent(p, j) = {}
  <2>1. i \in 1 .. n /\ j \in 1 .. n
    BY <1>4
  <2>2. ASSUME NEW a \in hs[i].start .. hs[i].start + hs[i].size - 1,
               a \in hs[j].start .. hs[j].start + hs[j].size - 1
        PROVE  FALSE
    <3>1. hs[i].start \in Nat /\ hs[i].size \in Nat /\ hs[j].start \in Nat /\ hs[j].size \in Nat
      BY <2>1, <1>6
    <3>2. hs[i].size # 0 /\ hs[j].size # 0
      BY <3>1, <2>2
    <3>3. hs[i].start + hs[i].size <= hs[j].start \/ hs[j].start + hs[j].size <= hs[i].start
      BY <3>2, <2>1, <1>8, <1>10
    <3>. QED
      BY <3>1, <3>3, <2>2
  <2>. QED
    BY <2>2 DEF Extent
<1>11. Utilization(p) <= PageSize
  BY <1>1, UtilizationFits
<1>. QED
  BY <1>9, <1>10, <1>11 DEF LaidOut, room

\* The bytes of the records in use are as many as the utilization says
\* (record_block.go:103, 134, 167, 197).
LEMMA PackedCounts ==
    ASSUME NEW p, Packed(p), Counted(p)
    PROVE  Counts(p)
<1> DEFINE hs == p.headers
<1>1. Packed(p) /\ Counted(p) /\ hs \in Seq(HeaderRec)
  BY DEF Packed, IsPage
<1>2. PICK E : Fill(hs, SizesOf(hs), E)
  BY <1>1 DEF Packed
<1>3. Cardinality(LiveBytes(hs)) = Cardinality(LiveKeys(hs))
  BY <1>1, <1>2, KeysAreBytes
<1>4. UNION {Extent(p, i) : i \in Live(p)} = LiveBytes(hs)
  <2>1. Live(p) = {k \in 1 .. Len(hs) : hs[k].id # 0}
    BY <1>1 DEF Live
  <2>. QED
    BY <2>1 DEF Extent, LiveBytes
<1>. QED
  BY <1>1, <1>3, <1>4 DEF Counted, Counts
=============================================================================
