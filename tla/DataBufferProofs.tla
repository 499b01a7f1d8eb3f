-------------------------- MODULE DataBufferProofs --------------------------
(***************************************************************************)
(* Proofs about DataBuffer, for every number of frames and every set of    *)
(* blocks and values:                                                      *)
(*   TypeCorrect, FrameTableHolds   the frame table stays consistent;      *)
(*   CleanIsOnDisk, SyncIsDurable   what may be recycled is on file;       *)
(*   ImplementsStore                the buffer implements BlockStore.      *)
(* The induction is on the four parts of Inv together: each part's step    *)
(* uses the others, and has a lemma of its own.                            *)
(***************************************************************************)
EXTENDS DataBuffer, FiniteSetTheorems, SequenceTheorems, TLAPS

-----------------------------------------------------------------------------
(* The clock's bookkeeping                                                 *)

\* Removing position p and rotating keeps every other element once.
LEMMA NextVictimsFacts ==
    ASSUME TypeOK, Len(nextVictims) = Size, NEW p \in 1 .. Size
    PROVE  /\ NextVictimsAfter(p) \in Seq(Blocks)
           /\ Len(NextVictimsAfter(p)) = Size - 1
           /\ \A i \in 1 .. Size - p : NextVictimsAfter(p)[i] = nextVictims[p + i]
           /\ \A i \in 1 .. p - 1 : NextVictimsAfter(p)[Size - p + i] = nextVictims[i]
           /\ nextVictims[p] \in Blocks
<1> DEFINE s == nextVictims
           after  == SubSeq(s, p + 1, Len(s))
           before == SubSeq(s, 1, p - 1)
<1>1. s \in Seq(Blocks) /\ p \in 1 .. Len(s) /\ Len(s) = Size
  BY DEF TypeOK
<1>2. NextVictimsAfter(p) = after \o before
  BY DEF NextVictimsAfter
<1> HIDE DEF s
<1>3. after \in Seq(Blocks) /\ Len(after) = Size - p /\ \A i \in 1 .. Size - p : after[i] = s[p + i]
  BY <1>1
<1>4. before \in Seq(Blocks) /\ Len(before) = p - 1 /\ \A i \in 1 .. p - 1 : before[i] = s[i]
  BY <1>1
<1> HIDE DEF after, before
<1>5. after \o before \in Seq(Blocks) /\ Len(after \o before) = Size - 1
  BY <1>1, <1>3, <1>4, ConcatProperties
<1>6. \A i \in 1 .. Size - p : (after \o before)[i] = s[p + i]
  BY <1>1, <1>3, <1>4
<1>7. \A i \in 1 .. p - 1 : (after \o before)[Size - p + i] = s[i]
  BY <1>1, <1>3, <1>4
<1>8. s[p] \in Blocks
  BY <1>1
<1> QED
  BY <1>2, <1>5, <1>6, <1>7, <1>8 DEF s

\* In a consistent table the victim is resident.
LEMMA VictimFacts ==
    ASSUME TypeOK, FrameTable, Len(nextVictims) = Size, NEW p \in 1 .. Size
    PROVE  nextVictims[p] \in Blocks /\ Resident(nextVictims[p]) /\ VictimFrame(p) \in Frames
<1>1. nextVictims[p] \in Blocks
  BY NextVictimsFacts
<1>2. Resident(nextVictims[p])
  BY <1>1 DEF FrameTable
<1> QED
  BY <1>1, <1>2 DEF TypeOK, Resident, VictimFrame

-----------------------------------------------------------------------------
(* Types                                                                   *)

\* Every step of the buffer keeps its variables in their types.
LEMMA TypeStep == TypeOK /\ FrameTable /\ SyncCoversDirty /\ [Next]_vars => TypeOK'
<1> SUFFICES ASSUME TypeOK, FrameTable, SyncCoversDirty, [Next]_vars PROVE TypeOK'
  OBVIOUS
<1> USE SizeAssumption, ZeroAssumption, NoneAssumption
<1>1. ASSUME NEW b \in Blocks, FetchHit(b) PROVE TypeOK'
  BY <1>1 DEF TypeOK, FetchHit, tableVars
<1>2. ASSUME NEW b \in Blocks, NEW f \in Frames, FetchFree(b, f) PROVE TypeOK'
  BY <1>2 DEF TypeOK, FetchFree
<1>3. ASSUME NEW b \in Blocks, NEW f \in Frames, NEW v \in Values, FetchFreeFails(b, f, v)
      PROVE TypeOK'
  BY <1>3 DEF TypeOK, FetchFreeFails, tableVars
<1>4. ASSUME NEW b \in Blocks, NEW p \in 1 .. Size, FetchEvict(b, p) PROVE TypeOK'
  <2>1. NextVictimsAfter(p) \in Seq(Blocks) /\ VictimFrame(p) \in Frames
    BY <1>4, NextVictimsFacts, VictimFacts DEF FetchEvict, Evict
  <2>2. referenced' \in [Frames -> BOOLEAN]
    BY <1>4 DEF FetchEvict, ReferencedAfterSweep, TypeOK
  <2>3. disk' \in [Blocks -> Values]
    BY <1>4, <2>1 DEF FetchEvict, Evict, TypeOK
  <2>4. nextVictims' \in Seq(Blocks)
    BY <1>4, <2>1 DEF FetchEvict
  <2> QED BY <1>4, <2>1, <2>2, <2>3, <2>4 DEF FetchEvict, Evict, TypeOK
<1>5. ASSUME NEW b \in Blocks, NEW p \in 1 .. Size, NEW v \in Values,
             FetchEvictReadFails(b, p, v)
      PROVE TypeOK'
  <2>1. NextVictimsAfter(p) \in Seq(Blocks) /\ VictimFrame(p) \in Frames
    BY <1>5, NextVictimsFacts, VictimFacts DEF FetchEvictReadFails, Evict
  <2>2. referenced' \in [Frames -> BOOLEAN]
    BY <1>5 DEF FetchEvictReadFails, ReferencedAfterSweep, TypeOK
  <2>3. disk' \in [Blocks -> Values]
    BY <1>5, <2>1 DEF FetchEvictReadFails, Evict, TypeOK
  <2> QED BY <1>5, <2>1, <2>2, <2>3 DEF FetchEvictReadFails, Evict, TypeOK
<1>6. ASSUME NEW b \in Blocks, NEW p \in 1 .. Size, NEW v \in Values,
             FetchEvictWriteFails(b, p, v)
      PROVE TypeOK'
  <2>1. referenced' \in [Frames -> BOOLEAN]
    BY <1>6 DEF FetchEvictWriteFails, ReferencedAfterSweep, TypeOK
  <2> QED BY <1>6, <2>1 DEF FetchEvictWriteFails, TypeOK, tableVars
<1>7. ASSUME NEW b \in Blocks, NEW v \in Values, ClientWrite(b, v) PROVE TypeOK'
  BY <1>7 DEF TypeOK, ClientWrite, tableVars
<1>8. ASSUME NEW b \in Blocks, MarkAsDirty(b) PROVE TypeOK'
  BY <1>8 DEF TypeOK, MarkAsDirty, tableVars
<1>9. ASSUME SyncStart PROVE TypeOK'
  BY <1>9 DEF TypeOK, SyncStart, frameVars, tableVars
<1>10. ASSUME NEW b \in Blocks, SyncBlock(b) PROVE TypeOK'
  <2>1. idToFrame[b] \in Frames
    BY <1>10 DEF SyncBlock, SyncCoversDirty, Dirty, Resident, TypeOK
  <2> QED BY <1>10, <2>1 DEF TypeOK, SyncBlock, tableVars
<1>11. ASSUME NEW b \in Blocks, NEW v \in Values, SyncFails(b, v) PROVE TypeOK'
  BY <1>11 DEF TypeOK, SyncFails, frameVars, tableVars
<1>12. ASSUME SyncReturn PROVE TypeOK'
  <2>1. \A b \in Blocks : Content(b) \in Values
    BY DEF Content, Resident, TypeOK
  <2> QED BY <1>12, <2>1 DEF TypeOK, SyncReturn, frameVars, tableVars
<1>13. ASSUME Crash PROVE TypeOK'
  BY <1>13 DEF TypeOK, Crash
<1>14. ASSUME UNCHANGED vars PROVE TypeOK'
  BY <1>14 DEF TypeOK, vars, frameVars, tableVars
<1> QED
  BY <1>1, <1>2, <1>3, <1>4, <1>5, <1>6, <1>7, <1>8, <1>9, <1>10, <1>11, <1>12, <1>13, <1>14
  DEF Next, FetchBlock, Sync

-----------------------------------------------------------------------------
(* The frame table                                                         *)

\* While the clock is not full a frame is free (pigeonhole), so the loop of
\* FetchBlock finds one and never falls through to a frame in use.
LEMMA FreeFrameIsFree ==
    ASSUME TypeOK, FrameTable, Len(nextVictims) # Size, NEW f \in Frames, FreeFrame(f)
    PROVE  ~inUse[f]
<1> DEFINE n == Len(nextVictims)
<1>1. n \in Nat /\ n < Size /\ Size \in Nat
  BY SizeAssumption DEF TypeOK, FrameTable
<1>2. SUFFICES ASSUME \A g \in Frames : inUse[g] PROVE FALSE
  BY DEF FreeFrame
<1> DEFINE position == [g \in Frames |-> CHOOSE i \in 1 .. n : VictimFrame(i) = g]
<1>3. ASSUME NEW g \in Frames PROVE \E i \in 1 .. n : VictimFrame(i) = g
  <2>1. PICK b \in Blocks : idToFrame[b] = g
    BY <1>2 DEF FrameTable
  <2>2. Resident(b)
    BY <2>1, NoneAssumption, <1>1 DEF Resident, Frames
  <2>3. PICK i \in 1 .. n : nextVictims[i] = b
    BY <2>2 DEF FrameTable
  <2> QED BY <2>1, <2>3 DEF VictimFrame
<1>4. \A g \in Frames : position[g] \in 1 .. n /\ VictimFrame(position[g]) = g
  BY <1>3
<1>5. position \in [Frames -> 1 .. n]
  BY <1>4
<1> HIDE DEF position
<1>6. IsFiniteSet(Frames) /\ Cardinality(Frames) = Size
  <2>1. 0 \in Int /\ Size - 1 \in Int /\ ~(0 > Size - 1) /\ Size - 1 - 0 + 1 = Size
    BY <1>1
  <2>2. IsFiniteSet(0 .. Size - 1) /\ Cardinality(0 .. Size - 1) = IF 0 > Size - 1 THEN 0 ELSE Size - 1 - 0 + 1
    BY <2>1, FS_Interval, Zenon
  <2> QED BY <2>1, <2>2 DEF Frames
<1>7. IsFiniteSet(1 .. n) /\ Cardinality(1 .. n) = n
  <2> HIDE DEF n
  <2>1. 1 \in Int /\ n \in Int
    BY <1>1
  <2>2. IsFiniteSet(1 .. n) /\ Cardinality(1 .. n) = IF 1 > n THEN 0 ELSE n - 1 + 1
    BY <2>1, FS_Interval, Zenon
  <2> QED BY <1>1, <2>2
<1>8. \E x, y \in Frames : x # y /\ position[x] = position[y]
  <2>1. Cardinality(1 .. n) < Cardinality(Frames)
    BY <1>1, <1>6, <1>7
  <2> HIDE DEF n
  <2> QED BY <1>5, <1>6, <1>7, <2>1, FS_PigeonHole
<1> QED
  BY <1>4, <1>8

\* The clock without its victim lists the other resident blocks, each once.
LEMMA ListingAfterEviction ==
    ASSUME TypeOK, FrameTable, Len(nextVictims) = Size, NEW p \in 1 .. Size
    PROVE  LET nv == NextVictimsAfter(p) IN
           /\ \A c \in Blocks : (\E i \in 1 .. Size - 1 : nv[i] = c)
                                   <=> Resident(c) /\ c # nextVictims[p]
           /\ \A i, j \in 1 .. Size - 1 : nv[i] = nv[j] => i = j
<1> DEFINE nv == NextVictimsAfter(p)
           old(i) == IF i <= Size - p THEN p + i ELSE i - (Size - p)
<1>1. Size \in Nat \ {0} /\ p \in 1 .. Size
  BY SizeAssumption
<1>2. \A i \in 1 .. Size - 1 : nv[i] = nextVictims[old(i)]
  <2> SUFFICES ASSUME NEW i \in 1 .. Size - 1 PROVE nv[i] = nextVictims[old(i)]
    OBVIOUS
  <2>1. CASE i <= Size - p
    <3>1. i \in 1 .. Size - p /\ old(i) = p + i
      BY <1>1, <2>1
    <3>2. nv[i] = nextVictims[p + i]
      BY <3>1, NextVictimsFacts
    <3> QED BY <3>1, <3>2
  <2>2. CASE ~(i <= Size - p)
    <3> DEFINE k == i - (Size - p)
    <3>1. k \in 1 .. p - 1 /\ i = Size - p + k /\ old(i) = k
      BY <1>1, <2>2
    <3> HIDE DEF k
    <3>2. nv[Size - p + k] = nextVictims[k]
      BY <3>1, NextVictimsFacts
    <3> HIDE DEF nv, old
    <3> QED BY <3>1, <3>2
  <2> QED BY <2>1, <2>2
<1>3. \A i \in 1 .. Size - 1 : old(i) \in 1 .. Size /\ old(i) # p
  BY <1>1
<1>4. \A j \in 1 .. Size : j # p => \E i \in 1 .. Size - 1 : old(i) = j
  <2> SUFFICES ASSUME NEW j \in 1 .. Size, j # p PROVE \E i \in 1 .. Size - 1 : old(i) = j
    OBVIOUS
  <2>1. CASE j > p
    <3>1. j - p \in 1 .. Size - 1 /\ old(j - p) = j
      BY <1>1, <2>1
    <3> QED BY <3>1
  <2>2. CASE j < p
    <3>1. Size - p + j \in 1 .. Size - 1 /\ old(Size - p + j) = j
      BY <1>1, <2>2
    <3> QED BY <3>1
  <2> QED BY <1>1, <2>1, <2>2
<1>5. \A i, j \in 1 .. Size - 1 : old(i) = old(j) => i = j
  BY <1>1
<1> HIDE DEF nv, old
<1>6. \A i, j \in 1 .. Size : nextVictims[i] = nextVictims[j] => i = j
  BY DEF FrameTable
<1>7. ASSUME NEW c \in Blocks
      PROVE (\E i \in 1 .. Size - 1 : nv[i] = c) <=> Resident(c) /\ c # nextVictims[p]
  <2>1. Resident(c) <=> \E j \in 1 .. Size : nextVictims[j] = c
    BY DEF FrameTable
  <2>2. ASSUME NEW i \in 1 .. Size - 1, nv[i] = c PROVE Resident(c) /\ c # nextVictims[p]
    BY <1>1, <1>2, <1>3, <1>6, <2>1, <2>2
  <2>3. ASSUME Resident(c), c # nextVictims[p] PROVE \E i \in 1 .. Size - 1 : nv[i] = c
    <3>1. PICK j \in 1 .. Size : nextVictims[j] = c
      BY <2>1, <2>3
    <3>2. j # p
      BY <2>3, <3>1
    <3> QED BY <1>2, <1>4, <3>1, <3>2
  <2> QED BY <2>2, <2>3
<1>8. \A i, j \in 1 .. Size - 1 : nv[i] = nv[j] => i = j
  BY <1>2, <1>3, <1>5, <1>6
<1> QED
  BY <1>7, <1>8 DEF nv

\* Every step keeps frames, idToFrame and nextVictims in agreement.
LEMMA FrameTableStep == TypeOK /\ FrameTable /\ SyncCoversDirty /\ [Next]_vars => FrameTable'
<1> SUFFICES ASSUME TypeOK, FrameTable, SyncCoversDirty, [Next]_vars PROVE FrameTable'
  OBVIOUS
<1> USE SizeAssumption, NoneAssumption
<1>1. ASSUME UNCHANGED <<inUse, isDirty, tableVars>> PROVE FrameTable'
  BY <1>1 DEF FrameTable, Resident, tableVars
<1>2. ASSUME NEW b \in Blocks, Resident(b), UNCHANGED <<inUse, tableVars>>,
             \/ isDirty' = [isDirty EXCEPT ![idToFrame[b]] = TRUE]
             \/ isDirty' = [isDirty EXCEPT ![idToFrame[b]] = FALSE]
      PROVE FrameTable'
  <2>1. idToFrame[b] \in Frames /\ inUse[idToFrame[b]]
    BY <1>2 DEF FrameTable, Resident, TypeOK
  <2>2. \A f \in Frames : isDirty'[f] => inUse'[f]
    BY <1>2, <2>1 DEF FrameTable, TypeOK
  <2> QED BY <1>2, <2>2 DEF FrameTable, Resident, tableVars
<1>3. ASSUME NEW b \in Blocks, NEW f \in Frames, FetchFree(b, f) PROVE FrameTable'
  <2> DEFINE n == Len(nextVictims)
  <2>1. ~inUse[f] /\ \A c \in Blocks : idToFrame[c] # f
    BY <1>3, FreeFrameIsFree DEF FetchFree, FrameTable
  <2>2. /\ n \in Nat /\ Len(nextVictims') = n + 1 /\ n + 1 <= Size
        /\ \A i \in 1 .. n : nextVictims'[i] = nextVictims[i]
        /\ nextVictims'[n + 1] = b
    BY <1>3 DEF FetchFree, TypeOK, FrameTable
  <2>3. /\ ~Resident(b) /\ f # None
        /\ idToFrame'[b] = f
        /\ \A c \in Blocks \ {b} : idToFrame'[c] = idToFrame[c]
    BY <1>3 DEF FetchFree, TypeOK, Frames
  <2>4. \A a, c \in Blocks : Resident(a)' /\ idToFrame'[a] = idToFrame'[c] => a = c
    BY <2>1, <2>3 DEF FrameTable, Resident
  <2>5. \A g \in Frames : inUse'[g] <=> \E c \in Blocks : idToFrame'[c] = g
    <3>1. inUse'[f] /\ \A g \in Frames \ {f} : inUse'[g] = inUse[g]
      BY <1>3 DEF FetchFree, TypeOK
    <3>2. \A g \in Frames \ {f} : \A c \in Blocks : idToFrame[c] = g <=> idToFrame'[c] = g
      BY <2>3 DEF Resident, Frames
    <3> QED BY <2>3, <3>1, <3>2 DEF FrameTable
  <2>6. \A g \in Frames : isDirty'[g] => inUse'[g]
    BY <1>3 DEF FetchFree, FrameTable, TypeOK
  <2>7. ASSUME NEW c \in Blocks
        PROVE Resident(c)' <=> \E i \in 1 .. Len(nextVictims') : nextVictims'[i] = c
    <3>1. CASE c = b
      BY <2>2, <2>3, <3>1 DEF Resident
    <3>2. CASE c # b
      <4>1. Resident(c)' <=> \E i \in 1 .. n : nextVictims[i] = c
        BY <2>3, <3>2 DEF Resident, FrameTable
      <4>2. (\E i \in 1 .. n : nextVictims[i] = c)
               <=> \E i \in 1 .. Len(nextVictims') : nextVictims'[i] = c
        BY <2>2, <3>2
      <4> QED BY <4>1, <4>2
    <3> QED BY <3>1, <3>2
  <2>8. ASSUME NEW i \in 1 .. Len(nextVictims'), NEW j \in 1 .. Len(nextVictims'),
               nextVictims'[i] = nextVictims'[j]
        PROVE i = j
    <3>1. \A k \in 1 .. n : nextVictims[k] # b
      BY <2>3 DEF FrameTable
    <3>2. \A k, l \in 1 .. n : nextVictims[k] = nextVictims[l] => k = l
      BY DEF FrameTable
    <3> QED BY <2>2, <2>8, <3>1, <3>2
  <2> QED BY <2>2, <2>4, <2>5, <2>6, <2>7, <2>8 DEF FrameTable
<1>4. ASSUME Crash PROVE FrameTable'
  BY <1>4 DEF Crash, FrameTable, Resident, Frames
<1>5. ASSUME NEW b \in Blocks, NEW p \in 1 .. Size, FetchEvict(b, p) PROVE FrameTable'
  <2> DEFINE v == nextVictims[p]
             f == VictimFrame(p)
             nv == NextVictimsAfter(p)
  <2>1. Len(nextVictims) = Size /\ ~Resident(b)
    BY <1>5 DEF FetchEvict, Evict
  <2>2. v \in Blocks /\ v # b /\ f \in Frames /\ f # None /\ idToFrame[v] = f
    BY <2>1, VictimFacts DEF VictimFrame, Frames
  <2>3. nv \in Seq(Blocks) /\ Len(nv) = Size - 1
    BY <2>1, NextVictimsFacts
  <2>4. /\ \A c \in Blocks : (\E i \in 1 .. Size - 1 : nv[i] = c) <=> Resident(c) /\ c # v
        /\ \A i, j \in 1 .. Size - 1 : nv[i] = nv[j] => i = j
    BY <2>1, ListingAfterEviction
  <2>5. /\ idToFrame'[b] = f /\ idToFrame'[v] = None
        /\ \A c \in Blocks \ {b, v} : idToFrame'[c] = idToFrame[c]
        /\ \A c \in Blocks \ {b, v} : idToFrame[c] # f
    BY <1>5, <2>2 DEF FetchEvict, TypeOK, FrameTable, Resident
  <2>6. nextVictims' = Append(nv, b)
    BY <1>5 DEF FetchEvict
  <2>7. /\ inUse' = [inUse EXCEPT ![f] = TRUE]
        /\ isDirty' = [isDirty EXCEPT ![f] = FALSE]
    BY <1>5 DEF FetchEvict, Evict
  <2> HIDE DEF nv, f, v
  <2>8. /\ Len(nextVictims') = Size /\ nextVictims'[Size] = b
        /\ \A i \in 1 .. Size - 1 : nextVictims'[i] = nv[i]
    BY <2>3, <2>6
  <2>9. \A a, c \in Blocks : Resident(a)' /\ idToFrame'[a] = idToFrame'[c] => a = c
    BY <2>2, <2>5 DEF FrameTable, Resident
  <2>10. \A g \in Frames : inUse'[g] <=> \E c \in Blocks : idToFrame'[c] = g
    <3>1. inUse'[f] /\ \A g \in Frames \ {f} : inUse'[g] = inUse[g]
      BY <2>2, <2>7 DEF TypeOK
    <3>2. \A g \in Frames \ {f} : \A c \in Blocks : idToFrame[c] = g <=> idToFrame'[c] = g
      BY <2>1, <2>2, <2>5 DEF Resident, Frames
    <3> QED BY <2>5, <3>1, <3>2 DEF FrameTable
  <2>11. \A g \in Frames : isDirty'[g] => inUse'[g]
    BY <2>2, <2>7 DEF FrameTable, TypeOK
  <2>12. ASSUME NEW c \in Blocks
         PROVE Resident(c)' <=> \E i \in 1 .. Len(nextVictims') : nextVictims'[i] = c
    <3>1. CASE c = b
      BY <2>2, <2>5, <2>8, <3>1 DEF Resident
    <3>2. CASE c # b
      <4>1. Resident(c)' <=> Resident(c) /\ c # v
        BY <2>5, <3>2 DEF Resident
      <4>2. (\E i \in 1 .. Size - 1 : nv[i] = c)
               <=> \E i \in 1 .. Len(nextVictims') : nextVictims'[i] = c
        BY <2>8, <3>2
      <4> QED BY <2>4, <4>1, <4>2
    <3> QED BY <3>1, <3>2
  <2>13. ASSUME NEW i \in 1 .. Len(nextVictims'), NEW j \in 1 .. Len(nextVictims'),
                nextVictims'[i] = nextVictims'[j]
         PROVE i = j
    <3>1. \A k \in 1 .. Size - 1 : nv[k] # b
      BY <2>1, <2>4
    <3> QED BY <2>4, <2>8, <2>13, <3>1
  <2> QED BY <2>8, <2>9, <2>10, <2>11, <2>12, <2>13 DEF FrameTable
<1>6. ASSUME NEW b \in Blocks, NEW p \in 1 .. Size, NEW w \in Values,
             FetchEvictReadFails(b, p, w)
      PROVE FrameTable'
  <2> DEFINE v == nextVictims[p]
             f == VictimFrame(p)
             nv == NextVictimsAfter(p)
  <2>1. Len(nextVictims) = Size
    BY <1>6 DEF FetchEvictReadFails, Evict
  <2>2. v \in Blocks /\ f \in Frames /\ f # None /\ idToFrame[v] = f
    BY <2>1, VictimFacts DEF VictimFrame, Frames
  <2>3. nextVictims' = nv /\ Len(nv) = Size - 1
    BY <1>6, <2>1, NextVictimsFacts DEF FetchEvictReadFails
  <2>4. /\ \A c \in Blocks : (\E i \in 1 .. Size - 1 : nv[i] = c) <=> Resident(c) /\ c # v
        /\ \A i, j \in 1 .. Size - 1 : nv[i] = nv[j] => i = j
    BY <2>1, ListingAfterEviction
  <2>5. /\ idToFrame'[v] = None
        /\ \A c \in Blocks \ {v} : idToFrame'[c] = idToFrame[c] /\ idToFrame[c] # f
    BY <1>6, <2>2 DEF FetchEvictReadFails, TypeOK, FrameTable, Resident
  <2>6. /\ inUse' = [inUse EXCEPT ![f] = FALSE]
        /\ isDirty' = [isDirty EXCEPT ![f] = FALSE]
    BY <1>6 DEF FetchEvictReadFails, Evict
  <2> HIDE DEF nv, f, v
  <2>7. \A a, c \in Blocks : Resident(a)' /\ idToFrame'[a] = idToFrame'[c] => a = c
    BY <2>5 DEF FrameTable, Resident
  <2>8. \A g \in Frames : inUse'[g] <=> \E c \in Blocks : idToFrame'[c] = g
    <3>1. ~inUse'[f] /\ \A g \in Frames \ {f} : inUse'[g] = inUse[g]
      BY <2>2, <2>6 DEF TypeOK
    <3>2. \A g \in Frames \ {f} : \A c \in Blocks : idToFrame[c] = g <=> idToFrame'[c] = g
      BY <2>2, <2>5 DEF Frames
    <3>3. \A c \in Blocks : idToFrame'[c] # f
      BY <2>2, <2>5
    <3> QED BY <2>2, <3>1, <3>2, <3>3 DEF FrameTable
  <2>9. \A g \in Frames : isDirty'[g] => inUse'[g]
    BY <2>2, <2>6 DEF FrameTable, TypeOK
  <2>10. \A c \in Blocks : Resident(c)' <=> Resident(c) /\ c # v
    BY <2>5 DEF Resident
  <2> QED BY <2>3, <2>4, <2>7, <2>8, <2>9, <2>10 DEF FrameTable
<1> QED
  <2>1. ASSUME NEW b \in Blocks, FetchBlock(b) PROVE FrameTable'
    BY <1>1, <1>3, <1>5, <1>6, <2>1
    DEF FetchBlock, FetchHit, FetchFreeFails, FetchEvictWriteFails
  <2>2. ASSUME NEW b \in Blocks, NEW v \in Values, ClientWrite(b, v) PROVE FrameTable'
    BY <1>1, <2>2 DEF ClientWrite
  <2>3. ASSUME NEW b \in Blocks, MarkAsDirty(b) PROVE FrameTable'
    BY <1>2, <2>3 DEF MarkAsDirty
  <2>4. ASSUME NEW b \in Blocks, SyncBlock(b) PROVE FrameTable'
    BY <1>2, <2>4 DEF SyncBlock, SyncCoversDirty, Dirty
  <2>5. ASSUME SyncStart \/ SyncReturn \/ \E b \in Blocks, v \in Values : SyncFails(b, v)
        PROVE FrameTable'
    BY <1>1, <2>5 DEF SyncStart, SyncReturn, SyncFails, frameVars
  <2>6. CASE UNCHANGED vars
    BY <1>1, <2>6 DEF vars, frameVars
  <2> QED BY <1>4, <2>1, <2>2, <2>3, <2>4, <2>5, <2>6 DEF Next, Sync

-----------------------------------------------------------------------------
(* Content: what may be recycled is on file, what Sync acknowledged stays  *)

\* The loop of Sync keeps listing exactly the dirty blocks.
LEMMA SyncCoversStep ==
    TypeOK /\ FrameTable /\ SyncCoversDirty /\ [Next]_vars => SyncCoversDirty'
<1> SUFFICES ASSUME TypeOK, FrameTable, SyncCoversDirty, [Next]_vars, pc' = "sync"
             PROVE  toSync' = {b \in Blocks : Dirty(b)'}
  BY DEF SyncCoversDirty
<1>1. CASE SyncStart
  BY <1>1 DEF SyncStart, Dirty, Resident, frameVars, tableVars
<1>2. ASSUME NEW b \in Blocks, SyncBlock(b) PROVE toSync' = {c \in Blocks : Dirty(c)'}
  <2>1. toSync = {c \in Blocks : Dirty(c)} /\ Dirty(b)
    BY <1>2 DEF SyncBlock, SyncCoversDirty
  <2>2. idToFrame[b] \in Frames /\ \A c \in Blocks \ {b} : Resident(c) => idToFrame[c] # idToFrame[b]
    BY <2>1 DEF Dirty, Resident, FrameTable, TypeOK
  <2>3. \A c \in Blocks : Dirty(c)' <=> Dirty(c) /\ c # b
    <3> SUFFICES ASSUME NEW c \in Blocks PROVE Dirty(c)' <=> Dirty(c) /\ c # b
      OBVIOUS
    <3>1. idToFrame' = idToFrame /\ isDirty' = [isDirty EXCEPT ![idToFrame[b]] = FALSE]
      BY <1>2 DEF SyncBlock, tableVars
    <3>2. CASE c = b
      BY <2>2, <3>1, <3>2 DEF Dirty, TypeOK
    <3>3. CASE c # b
      BY <2>2, <3>1, <3>3 DEF Dirty, Resident, TypeOK
    <3> QED BY <3>2, <3>3
  <2>4. toSync' = toSync \ {b}
    BY <1>2 DEF SyncBlock
  <2> QED BY <2>1, <2>3, <2>4
<1>3. CASE UNCHANGED vars
  BY <1>3 DEF vars, frameVars, tableVars, SyncCoversDirty, Dirty, Resident
<1> QED
  BY <1>1, <1>2, <1>3
  DEF Next, FetchBlock, FetchHit, FetchFree, FetchFreeFails, FetchEvict, FetchEvictReadFails,
      FetchEvictWriteFails, Evict, ClientWrite, MarkAsDirty, Sync, SyncFails, SyncReturn, Crash

-----------------------------------------------------------------------------
(* What each step does to the contract's view (Content, Dirty, disk)       *)

\* A block that gives up no frame and gets none keeps its view.
LEMMA SameView ==
    ASSUME TypeOK, FrameTable, NEW c \in Blocks, idToFrame'[c] = idToFrame[c],
           Resident(c) => /\ data'[idToFrame[c]] = data[idToFrame[c]]
                          /\ isDirty'[idToFrame[c]] = isDirty[idToFrame[c]],
           ~Resident(c) => disk'[c] = disk[c]
    PROVE  Content(c)' = Content(c) /\ (Dirty(c)' <=> Dirty(c))
BY DEF Content, Dirty, Resident

\* Hits, fetches into a free frame and the ends of Sync change nothing a client
\* can tell.
LEMMA QuietSteps ==
    ASSUME TypeOK, FrameTable,
           \/ \E b \in Blocks :
                 \/ FetchHit(b)
                 \/ \E f \in Frames : FetchFree(b, f) \/ \E w \in Values : FetchFreeFails(b, f, w)
           \/ SyncStart \/ SyncReturn \/ UNCHANGED vars
    PROVE  /\ disk' = disk
           /\ \A c \in Blocks : Content(c)' = Content(c) /\ (Dirty(c)' <=> Dirty(c))
<1> USE NoneAssumption
<1>1. ASSUME NEW b \in Blocks, NEW f \in Frames, FetchFree(b, f)
      PROVE  /\ disk' = disk
             /\ \A c \in Blocks : Content(c)' = Content(c) /\ (Dirty(c)' <=> Dirty(c))
  <2>1. ~inUse[f] /\ ~isDirty[f] /\ \A c \in Blocks : idToFrame[c] # f
    BY <1>1, FreeFrameIsFree DEF FetchFree, FrameTable
  <2>2. disk' = disk /\ isDirty' = isDirty /\ data' = [data EXCEPT ![f] = disk[b]] /\ ~Resident(b)
    BY <1>1 DEF FetchFree
  <2>3. idToFrame'[b] = f /\ f # None /\ \A c \in Blocks \ {b} : idToFrame'[c] = idToFrame[c]
    BY <1>1, SizeAssumption DEF FetchFree, TypeOK, Frames
  <2>4. Content(b)' = Content(b) /\ (Dirty(b)' <=> Dirty(b))
    BY <2>1, <2>2, <2>3 DEF Content, Dirty, Resident, TypeOK
  <2>5. ASSUME NEW c \in Blocks \ {b} PROVE Content(c)' = Content(c) /\ (Dirty(c)' <=> Dirty(c))
    BY <2>1, <2>2, <2>3, SameView DEF TypeOK, Resident
  <2> QED BY <2>2, <2>4, <2>5
<1>2. ASSUME NEW b \in Blocks, NEW f \in Frames, NEW w \in Values, FetchFreeFails(b, f, w)
      PROVE  /\ disk' = disk
             /\ \A c \in Blocks : Content(c)' = Content(c) /\ (Dirty(c)' <=> Dirty(c))
  <2>1. \A c \in Blocks : idToFrame[c] # f
    BY <1>2, FreeFrameIsFree DEF FetchFreeFails, FrameTable
  <2>2. disk' = disk /\ isDirty' = isDirty /\ data' = [data EXCEPT ![f] = w] /\ idToFrame' = idToFrame
    BY <1>2 DEF FetchFreeFails, tableVars
  <2> QED BY <2>1, <2>2 DEF Content, Dirty, Resident, TypeOK
<1>3. ASSUME UNCHANGED <<idToFrame, isDirty, data, disk>>
      PROVE  /\ disk' = disk
             /\ \A c \in Blocks : Content(c)' = Content(c) /\ (Dirty(c)' <=> Dirty(c))
  BY <1>3 DEF Content, Dirty, Resident
<1> QED
  BY <1>1, <1>2, <1>3 DEF FetchHit, SyncStart, SyncReturn, vars, frameVars, tableVars

\* An eviction moves the victim's view to the file and leaves the others alone,
\* the block being fetched included.
LEMMA EvictionSteps ==
    ASSUME TypeOK, FrameTable, NEW b \in Blocks, NEW p \in 1 .. Size,
           FetchEvict(b, p) \/ \E w \in Values : FetchEvictReadFails(b, p, w)
    PROVE  \E v \in Blocks :
           /\ disk'[v] = IF Dirty(v) THEN Content(v) ELSE disk[v]
           /\ disk' = [disk EXCEPT ![v] = disk'[v]]
           /\ ~Dirty(v)' /\ Content(v)' = disk'[v]
           /\ \A c \in Blocks \ {v} : Content(c)' = Content(c) /\ (Dirty(c)' <=> Dirty(c))
           /\ unmarked' = unmarked \ {v} /\ synced' = synced
<1> USE NoneAssumption
<1>1. Len(nextVictims) = Size /\ ~Resident(b) /\ Evict(p)
  BY DEF FetchEvict, FetchEvictReadFails, Evict
<1>2. PICK v \in Blocks : v = nextVictims[p] /\ v # b /\ Resident(v)
  BY <1>1, VictimFacts
<1>3. PICK f \in Frames : f = VictimFrame(p) /\ f # None /\ idToFrame[v] = f
  BY <1>1, <1>2, VictimFacts DEF VictimFrame, Frames
<1>4. /\ disk' = (IF isDirty[f] THEN [disk EXCEPT ![v] = data[f]] ELSE disk)
      /\ isDirty' = [isDirty EXCEPT ![f] = FALSE]
      /\ unmarked' = unmarked \ {v} /\ synced' = synced
  BY <1>1, <1>2, <1>3 DEF Evict
<1>5. /\ idToFrame'[v] = None
      /\ \A c \in Blocks \ {b, v} : idToFrame'[c] = idToFrame[c]
      /\ (idToFrame'[b] = f /\ data'[f] = disk[b]) \/ idToFrame'[b] = idToFrame[b]
      /\ \A g \in Frames \ {f} : data'[g] = data[g]
  BY <1>1, <1>2, <1>3 DEF FetchEvict, FetchEvictReadFails, TypeOK
<1>6. disk \in [Blocks -> Values]
  BY DEF TypeOK
<1>7. (Dirty(v) <=> isDirty[f]) /\ Content(v) = data[f]
  BY <1>3 DEF Dirty, Content, Resident
<1>8. /\ disk'[v] = IF Dirty(v) THEN Content(v) ELSE disk[v]
      /\ disk' = [disk EXCEPT ![v] = disk'[v]]
  BY <1>4, <1>6, <1>7
<1>9. ~Dirty(v)' /\ Content(v)' = disk'[v]
  BY <1>5 DEF Dirty, Content, Resident
<1>10. ASSUME NEW c \in Blocks \ {v} PROVE Content(c)' = Content(c) /\ (Dirty(c)' <=> Dirty(c))
  <2>1. disk'[c] = disk[c]
    BY <1>6, <1>8
  <2>2. ~isDirty'[f] /\ \A g \in Frames \ {f} : isDirty'[g] = isDirty[g]
    BY <1>4 DEF TypeOK
  <2>3. CASE c = b /\ idToFrame'[b] = f
    <3>1. data'[f] = disk[b]
      BY <1>1, <1>3, <1>5, <2>3 DEF Resident
    <3> QED BY <1>1, <1>3, <2>1, <2>2, <2>3, <3>1 DEF Content, Dirty, Resident
  <2>4. CASE c # b \/ idToFrame'[b] # f
    <3>1. idToFrame'[c] = idToFrame[c]
      BY <1>5, <2>4
    <3>2. Resident(c) => idToFrame[c] \in Frames \ {f}
      BY <1>2, <1>3 DEF Resident, FrameTable, TypeOK
    <3> QED BY <1>5, <2>1, <2>2, <3>1, <3>2, SameView
  <2> QED BY <2>3, <2>4
<1> QED
  BY <1>4, <1>8, <1>9, <1>10

\* A client's write, its mark and one block of Sync change the view of one block.
LEMMA ClientAndSyncSteps ==
    ASSUME TypeOK, FrameTable, SyncCoversDirty, NEW b \in Blocks
    PROVE  /\ \A w \in Values : ClientWrite(b, w) =>
                 /\ disk' = disk /\ Content(b)' = w /\ (Dirty(b)' <=> Dirty(b))
                 /\ \A c \in Blocks \ {b} : Content(c)' = Content(c) /\ (Dirty(c)' <=> Dirty(c))
           /\ MarkAsDirty(b) =>
                 /\ disk' = disk /\ Content(b)' = Content(b) /\ Dirty(b)'
                 /\ \A c \in Blocks \ {b} : Content(c)' = Content(c) /\ (Dirty(c)' <=> Dirty(c))
           /\ SyncBlock(b) =>
                 /\ Dirty(b) /\ disk' = [disk EXCEPT ![b] = Content(b)]
                 /\ Content(b)' = Content(b) /\ ~Dirty(b)'
                 /\ \A c \in Blocks \ {b} : Content(c)' = Content(c) /\ (Dirty(c)' <=> Dirty(c))
<1>1. ASSUME NEW w \in Values, ClientWrite(b, w)
      PROVE  /\ disk' = disk /\ Content(b)' = w /\ (Dirty(b)' <=> Dirty(b))
             /\ \A c \in Blocks \ {b} : Content(c)' = Content(c) /\ (Dirty(c)' <=> Dirty(c))
  <2>1. /\ Resident(b) /\ idToFrame' = idToFrame /\ isDirty' = isDirty /\ disk' = disk
        /\ data' = [data EXCEPT ![idToFrame[b]] = w]
    BY <1>1 DEF ClientWrite, tableVars
  <2> QED BY <2>1 DEF Content, Dirty, Resident, TypeOK, FrameTable
<1>2. ASSUME MarkAsDirty(b)
      PROVE  /\ disk' = disk /\ Content(b)' = Content(b) /\ Dirty(b)'
             /\ \A c \in Blocks \ {b} : Content(c)' = Content(c) /\ (Dirty(c)' <=> Dirty(c))
  <2>1. /\ Resident(b) /\ idToFrame' = idToFrame /\ data' = data /\ disk' = disk
        /\ isDirty' = [isDirty EXCEPT ![idToFrame[b]] = TRUE]
    BY <1>2 DEF MarkAsDirty, tableVars
  <2>2. \A c \in Blocks : Content(c)' = Content(c)
    BY <2>1 DEF Content, Resident
  <2>3. Dirty(b)' /\ \A c \in Blocks \ {b} : Dirty(c)' <=> Dirty(c)
    BY <2>1 DEF Dirty, Resident, TypeOK, FrameTable
  <2> QED BY <2>1, <2>2, <2>3
<1>3. ASSUME SyncBlock(b)
      PROVE  /\ Dirty(b) /\ disk' = [disk EXCEPT ![b] = Content(b)]
             /\ Content(b)' = Content(b) /\ ~Dirty(b)'
             /\ \A c \in Blocks \ {b} : Content(c)' = Content(c) /\ (Dirty(c)' <=> Dirty(c))
  <2>1. /\ Dirty(b) /\ Resident(b) /\ idToFrame' = idToFrame /\ data' = data
        /\ isDirty' = [isDirty EXCEPT ![idToFrame[b]] = FALSE]
        /\ disk' = [disk EXCEPT ![b] = data[idToFrame[b]]]
    BY <1>3 DEF SyncBlock, SyncCoversDirty, Dirty, tableVars
  <2>2. disk' = [disk EXCEPT ![b] = Content(b)] /\ \A c \in Blocks \ {b} : disk'[c] = disk[c]
    BY <2>1 DEF Content, TypeOK
  <2>3. \A c \in Blocks : Content(c)' = Content(c)
    BY <2>1, <2>2 DEF Content, Resident
  <2>4. ~Dirty(b)' /\ \A c \in Blocks \ {b} : Dirty(c)' <=> Dirty(c)
    BY <2>1 DEF Dirty, Resident, TypeOK, FrameTable
  <2> QED BY <2>1, <2>2, <2>3, <2>4
<1> QED
  BY <1>1, <1>2, <1>3

\* A write that fails can only hurt a flagged block's bytes on file.
LEMMA FailedWriteSteps ==
    ASSUME TypeOK, FrameTable, SyncCoversDirty, NEW b \in Blocks, NEW w \in Values,
           SyncFails(b, w) \/ \E p \in 1 .. Size : FetchEvictWriteFails(b, p, w)
    PROVE  /\ \E v \in Blocks : Dirty(v) /\ disk' = [disk EXCEPT ![v] = w]
           /\ \A c \in Blocks : Content(c)' = Content(c) /\ (Dirty(c)' <=> Dirty(c))
           /\ unmarked' = unmarked /\ synced' = synced
<1>1. ASSUME SyncFails(b, w) PROVE \E v \in Blocks : Dirty(v) /\ disk' = [disk EXCEPT ![v] = w]
  BY <1>1 DEF SyncFails, SyncCoversDirty
<1>2. ASSUME NEW p \in 1 .. Size, FetchEvictWriteFails(b, p, w)
      PROVE \E v \in Blocks : Dirty(v) /\ disk' = [disk EXCEPT ![v] = w]
  <2>1. nextVictims[p] \in Blocks /\ Resident(nextVictims[p])
    BY <1>2, VictimFacts DEF FetchEvictWriteFails
  <2> QED BY <1>2, <2>1 DEF FetchEvictWriteFails, Dirty, VictimFrame
<1>3. PICK v \in Blocks : Dirty(v) /\ disk' = [disk EXCEPT ![v] = w]
  BY <1>1, <1>2
<1>4. UNCHANGED <<data, isDirty, idToFrame, unmarked, synced>>
  BY DEF SyncFails, FetchEvictWriteFails, frameVars, tableVars
<1>5. \A c \in Blocks : Content(c)' = Content(c) /\ (Dirty(c)' <=> Dirty(c))
  BY <1>3, <1>4 DEF Content, Dirty, Resident, TypeOK
<1> QED
  BY <1>3, <1>4, <1>5

-----------------------------------------------------------------------------
(* Durability                                                              *)

\* CleanMeansOnDisk and SyncedIsDurable as one inductive invariant: a dirty
\* block has no acknowledged content, so a torn write cannot break one.
DiskInv ==
    /\ \A b \in Blocks : Dirty(b) \/ b \in unmarked \/ disk[b] = Content(b)
    /\ \A b \in Blocks : synced[b] # None =>
          ~Dirty(b) /\ disk[b] = synced[b] /\ Content(b) = synced[b]

\* Every step keeps DiskInv.
LEMMA DiskStep ==
    TypeOK /\ FrameTable /\ SyncCoversDirty /\ DiskInv /\ [Next]_vars => DiskInv'
<1> SUFFICES ASSUME TypeOK, FrameTable, SyncCoversDirty, DiskInv, [Next]_vars PROVE DiskInv'
  OBVIOUS
<1> USE NoneAssumption
<1>1. ASSUME NEW b \in Blocks,
             FetchHit(b) \/ (\E f \in Frames : FetchFree(b, f) \/ \E w \in Values : FetchFreeFails(b, f, w))
      PROVE DiskInv'
  <2>1. unmarked' = unmarked /\ synced' = synced
    BY <1>1 DEF FetchHit, FetchFree, FetchFreeFails
  <2>2. disk' = disk /\ \A c \in Blocks : Content(c)' = Content(c) /\ (Dirty(c)' <=> Dirty(c))
    BY <1>1, QuietSteps
  <2> QED BY <2>1, <2>2 DEF DiskInv
<1>2. ASSUME SyncStart \/ UNCHANGED vars PROVE DiskInv'
  <2>1. unmarked' = unmarked /\ synced' = synced
    BY <1>2 DEF SyncStart, vars
  <2>2. disk' = disk /\ \A c \in Blocks : Content(c)' = Content(c) /\ (Dirty(c)' <=> Dirty(c))
    BY <1>2, QuietSteps
  <2> QED BY <2>1, <2>2 DEF DiskInv
<1>3. ASSUME SyncReturn PROVE DiskInv'
  <2>1. disk' = disk /\ \A c \in Blocks : Content(c)' = Content(c) /\ (Dirty(c)' <=> Dirty(c))
    BY <1>3, QuietSteps
  <2>2. /\ unmarked' = unmarked
        /\ \A c \in Blocks : synced'[c] = IF c \in unmarked THEN synced[c] ELSE Content(c)
    BY <1>3 DEF SyncReturn
  <2>3. \A c \in Blocks : ~Dirty(c)
    BY <1>3 DEF SyncReturn, SyncCoversDirty
  <2> QED BY <2>1, <2>2, <2>3 DEF DiskInv
<1>4. ASSUME NEW b \in Blocks, NEW p \in 1 .. Size,
             FetchEvict(b, p) \/ \E w \in Values : FetchEvictReadFails(b, p, w)
      PROVE DiskInv'
  <2>1. PICK v \in Blocks :
           /\ disk'[v] = IF Dirty(v) THEN Content(v) ELSE disk[v]
           /\ disk' = [disk EXCEPT ![v] = disk'[v]]
           /\ ~Dirty(v)' /\ Content(v)' = disk'[v]
           /\ \A c \in Blocks \ {v} : Content(c)' = Content(c) /\ (Dirty(c)' <=> Dirty(c))
           /\ unmarked' = unmarked \ {v} /\ synced' = synced
    BY <1>4, EvictionSteps
  <2>2. \A c \in Blocks \ {v} : disk'[c] = disk[c]
    BY <2>1 DEF TypeOK
  <2> QED BY <2>1, <2>2 DEF DiskInv
<1>5. ASSUME NEW b \in Blocks, NEW w \in Values,
             SyncFails(b, w) \/ \E p \in 1 .. Size : FetchEvictWriteFails(b, p, w)
      PROVE DiskInv'
  <2>1. /\ \A c \in Blocks : Content(c)' = Content(c) /\ (Dirty(c)' <=> Dirty(c))
        /\ unmarked' = unmarked /\ synced' = synced
    BY <1>5, FailedWriteSteps
  <2>2. PICK v \in Blocks : Dirty(v) /\ disk' = [disk EXCEPT ![v] = w]
    BY <1>5, FailedWriteSteps
  <2>3. \A c \in Blocks \ {v} : disk'[c] = disk[c]
    BY <2>2 DEF TypeOK
  <2> QED BY <2>1, <2>2, <2>3 DEF DiskInv
<1>6. ASSUME NEW b \in Blocks, NEW w \in Values, ClientWrite(b, w) PROVE DiskInv'
  <2>1. /\ disk' = disk /\ (Dirty(b)' <=> Dirty(b))
        /\ \A c \in Blocks \ {b} : Content(c)' = Content(c) /\ (Dirty(c)' <=> Dirty(c))
    BY <1>6, ClientAndSyncSteps
  <2>2. /\ unmarked' = IF Dirty(b) THEN unmarked ELSE unmarked \cup {b}
        /\ synced'[b] = None /\ \A c \in Blocks \ {b} : synced'[c] = synced[c]
    BY <1>6 DEF ClientWrite, TypeOK
  <2> QED BY <2>1, <2>2 DEF DiskInv
<1>7. ASSUME NEW b \in Blocks, MarkAsDirty(b) PROVE DiskInv'
  <2>1. /\ disk' = disk /\ Dirty(b)'
        /\ \A c \in Blocks \ {b} : Content(c)' = Content(c) /\ (Dirty(c)' <=> Dirty(c))
    BY <1>7, ClientAndSyncSteps
  <2>2. /\ unmarked' = unmarked \ {b}
        /\ synced'[b] = None /\ \A c \in Blocks \ {b} : synced'[c] = synced[c]
    BY <1>7 DEF MarkAsDirty, TypeOK
  <2> QED BY <2>1, <2>2 DEF DiskInv
<1>8. ASSUME NEW b \in Blocks, SyncBlock(b) PROVE DiskInv'
  <2>1. /\ Dirty(b) /\ disk' = [disk EXCEPT ![b] = Content(b)]
        /\ Content(b)' = Content(b) /\ ~Dirty(b)'
        /\ \A c \in Blocks \ {b} : Content(c)' = Content(c) /\ (Dirty(c)' <=> Dirty(c))
    BY <1>8, ClientAndSyncSteps
  <2>2. unmarked' = unmarked /\ synced' = synced
    BY <1>8 DEF SyncBlock
  <2>3. disk'[b] = Content(b) /\ \A c \in Blocks \ {b} : disk'[c] = disk[c]
    BY <2>1 DEF TypeOK
  <2> QED BY <2>1, <2>2, <2>3 DEF DiskInv
<1>9. ASSUME Crash PROVE DiskInv'
  BY <1>9 DEF Crash, DiskInv, Content, Dirty, Resident
<1> QED
  <2>1. ASSUME NEW b \in Blocks, FetchBlock(b) PROVE DiskInv'
    BY <1>1, <1>4, <1>5, <2>1 DEF FetchBlock
  <2> QED BY <1>2, <1>3, <1>5, <1>6, <1>7, <1>8, <1>9, <2>1 DEF Next, Sync

-----------------------------------------------------------------------------
(* The theorems                                                            *)

Inv == TypeOK /\ FrameTable /\ SyncCoversDirty /\ DiskInv

\* A new buffer satisfies the inductive invariant.
LEMMA InvInit == Init => Inv
<1> SUFFICES ASSUME Init PROVE Inv
  OBVIOUS
<1> USE SizeAssumption, ZeroAssumption, NoneAssumption DEF Init, NewDataBuffer
<1>1. TypeOK
  BY DEF TypeOK
<1>2. FrameTable
  BY DEF FrameTable, Resident, Frames
<1>3. SyncCoversDirty
  BY DEF SyncCoversDirty
<1>4. DiskInv
  BY DEF DiskInv, Content, Dirty, Resident
<1> QED
  BY <1>1, <1>2, <1>3, <1>4 DEF Inv

\* The inductive invariant holds in every reachable state.
THEOREM Invariant == Spec => []Inv
<1>1. Inv /\ [Next]_vars => Inv'
  BY TypeStep, FrameTableStep, SyncCoversStep, DiskStep DEF Inv
<1> QED
  BY <1>1, InvInit, PTL DEF Spec

\* The variables of the buffer keep their types (data_buffer.go:13-27).
THEOREM TypeCorrect == Spec => []TypeOK
<1>1. Inv => TypeOK
  BY DEF Inv
<1> QED
  BY <1>1, Invariant, PTL

\* No two blocks ever share a frame and the clock lists each resident block
\* once, whatever fails (data_buffer.go:49-87, 115-146).
THEOREM FrameTableHolds == Spec => []FrameTable
<1>1. Inv => FrameTable
  BY DEF Inv
<1> QED
  BY <1>1, Invariant, PTL

\* A frame that may be recycled without a write holds what is on file
\* (data_buffer.go:134).
THEOREM CleanIsOnDisk == Spec => []CleanMeansOnDisk
<1>1. Inv => CleanMeansOnDisk
  BY DEF Inv, DiskInv, CleanMeansOnDisk, Content
<1> QED
  BY <1>1, Invariant, PTL

\* What a successful Sync covered is still on file and read back until the
\* block is written or flagged again (data_buffer.go:100-113).
THEOREM SyncIsDurable == Spec => []SyncedIsDurable
<1>1. Inv => SyncedIsDurable
  BY DEF Inv, DiskInv, SyncedIsDurable
<1> QED
  BY <1>1, Invariant, PTL

\* A failed write is BlockStore's FlushFails.
LEMMA StoreFailedWrite ==
    ASSUME TypeOK, FrameTable, SyncCoversDirty, NEW b \in Blocks, NEW w \in Values,
           SyncFails(b, w) \/ \E p \in 1 .. Size : FetchEvictWriteFails(b, p, w)
    PROVE  Store!Next
<1>1. PICK v \in Blocks : Dirty(v) /\ disk' = [disk EXCEPT ![v] = w]
  BY FailedWriteSteps
<1>2. \A c \in Blocks : Content(c)' = Content(c) /\ (Dirty(c)' <=> Dirty(c))
  BY FailedWriteSteps
<1>3. Store!FlushFails(v, w)
  BY <1>1, <1>2 DEF Store!FlushFails
<1> QED
  BY <1>3 DEF Store!Next

\* Every step of the buffer is a step of BlockStore or changes nothing it sees.
LEMMA StoreStep == Inv /\ [Next]_vars => [Store!Next]_(Store!vars)
<1> SUFFICES ASSUME Inv, [Next]_vars PROVE [Store!Next]_(Store!vars)
  OBVIOUS
<1> DEFINE mem == [c \in Blocks |-> Content(c)]
           dirty == {c \in Blocks : Dirty(c)}
<1>0. TypeOK /\ FrameTable /\ SyncCoversDirty
  BY DEF Inv
<1>1. ASSUME disk' = disk, \A c \in Blocks : Content(c)' = Content(c) /\ (Dirty(c)' <=> Dirty(c))
      PROVE UNCHANGED Store!vars
  BY <1>1 DEF Store!vars
<1>2. ASSUME NEW b \in Blocks, FetchBlock(b) PROVE Store!Next \/ UNCHANGED Store!vars
  <2>1. ASSUME NEW p \in 1 .. Size, FetchEvict(b, p) \/ \E w \in Values : FetchEvictReadFails(b, p, w)
        PROVE Store!Next
    <3>1. PICK v \in Blocks :
             /\ disk'[v] = IF Dirty(v) THEN Content(v) ELSE disk[v]
             /\ disk' = [disk EXCEPT ![v] = disk'[v]]
             /\ ~Dirty(v)' /\ Content(v)' = disk'[v]
             /\ \A c \in Blocks \ {v} : Content(c)' = Content(c) /\ (Dirty(c)' <=> Dirty(c))
             /\ unmarked' = unmarked \ {v} /\ synced' = synced
      BY <1>0, <2>1, EvictionSteps
    <3>2. dirty' = dirty \ {v}
      BY <3>1
    <3>3. CASE Dirty(v)
      <4>1. mem' = mem
        BY <3>1, <3>3
      <4>2. Store!Flush(v)
        BY <3>1, <3>2, <3>3, <4>1 DEF Store!Flush
      <4> QED BY <4>2 DEF Store!Next
    <3>4. CASE ~Dirty(v)
      <4>1. disk' = disk /\ dirty' = dirty
        BY <1>0, <3>1, <3>2, <3>4 DEF TypeOK
      <4>2. mem' = [mem EXCEPT ![v] = disk[v]]
        BY <3>1, <4>1
      <4>3. Store!Drop(v)
        BY <3>4, <4>1, <4>2 DEF Store!Drop
      <4> QED BY <4>3 DEF Store!Next
    <3> QED BY <3>3, <3>4
  <2>2. ASSUME NEW w \in Values, NEW p \in 1 .. Size, FetchEvictWriteFails(b, p, w) PROVE Store!Next
    BY <1>0, <2>2, StoreFailedWrite
  <2>3. ASSUME FetchHit(b) \/ (\E f \in Frames : FetchFree(b, f) \/ \E w \in Values : FetchFreeFails(b, f, w))
        PROVE UNCHANGED Store!vars
    <3>1. disk' = disk /\ \A c \in Blocks : Content(c)' = Content(c) /\ (Dirty(c)' <=> Dirty(c))
      BY <1>0, <2>3, QuietSteps
    <3> QED BY <1>1, <3>1
  <2> QED BY <1>2, <2>1, <2>2, <2>3 DEF FetchBlock
<1>3. ASSUME NEW b \in Blocks, NEW w \in Values, ClientWrite(b, w) PROVE Store!Next
  <2>1. /\ disk' = disk /\ Content(b)' = w /\ (Dirty(b)' <=> Dirty(b))
        /\ \A c \in Blocks \ {b} : Content(c)' = Content(c) /\ (Dirty(c)' <=> Dirty(c))
    BY <1>0, <1>3, ClientAndSyncSteps
  <2>2. mem' = [mem EXCEPT ![b] = w] /\ dirty' = dirty
    BY <2>1
  <2>3. Store!Write(b, w)
    BY <2>1, <2>2 DEF Store!Write
  <2> QED BY <2>3 DEF Store!Next
<1>4. ASSUME NEW b \in Blocks, MarkAsDirty(b) PROVE Store!Next
  <2>1. /\ disk' = disk /\ Content(b)' = Content(b) /\ Dirty(b)'
        /\ \A c \in Blocks \ {b} : Content(c)' = Content(c) /\ (Dirty(c)' <=> Dirty(c))
    BY <1>0, <1>4, ClientAndSyncSteps
  <2>2. mem' = mem /\ dirty' = dirty \cup {b}
    BY <2>1
  <2>3. Store!Mark(b)
    BY <2>1, <2>2 DEF Store!Mark
  <2> QED BY <2>3 DEF Store!Next
<1>5. ASSUME NEW b \in Blocks, SyncBlock(b) PROVE Store!Next
  <2>1. /\ Dirty(b) /\ disk' = [disk EXCEPT ![b] = Content(b)]
        /\ Content(b)' = Content(b) /\ ~Dirty(b)'
        /\ \A c \in Blocks \ {b} : Content(c)' = Content(c) /\ (Dirty(c)' <=> Dirty(c))
    BY <1>0, <1>5, ClientAndSyncSteps
  <2>2. mem' = mem /\ dirty' = dirty \ {b}
    BY <2>1
  <2>3. Store!Flush(b)
    BY <2>1, <2>2 DEF Store!Flush
  <2> QED BY <2>3 DEF Store!Next
<1>6. ASSUME NEW b \in Blocks, NEW w \in Values, SyncFails(b, w) PROVE Store!Next
  BY <1>0, <1>6, StoreFailedWrite
<1>7. ASSUME SyncStart \/ SyncReturn \/ UNCHANGED vars PROVE UNCHANGED Store!vars
  <2>1. disk' = disk /\ \A c \in Blocks : Content(c)' = Content(c) /\ (Dirty(c)' <=> Dirty(c))
    BY <1>0, <1>7, QuietSteps
  <2> QED BY <1>1, <2>1
<1>8. ASSUME Crash PROVE Store!Next
  <2>1. disk' = disk /\ \A c \in Blocks : Content(c)' = disk[c] /\ ~Dirty(c)'
    BY <1>8 DEF Crash, Content, Dirty, Resident
  <2>2. mem' = disk /\ dirty' = {}
    BY <1>0, <2>1 DEF TypeOK
  <2>3. Store!Crash
    BY <2>1, <2>2 DEF Store!Crash
  <2> QED BY <2>3 DEF Store!Next
<1> QED
  BY <1>2, <1>3, <1>4, <1>5, <1>6, <1>7, <1>8 DEF Next, Sync

\* The buffer implements the contract its clients rely on, for every number of
\* frames, set of blocks and pattern of failures (data_buffer.go:49-146).
THEOREM ImplementsStore == Spec => Implements
<1>1. Init => Store!Init
  BY DEF Init, NewDataBuffer, Store!Init, Content, Dirty, Resident
<1> QED
  BY <1>1, Invariant, StoreStep, PTL DEF Spec, Implements, Store!Spec
=============================================================================
