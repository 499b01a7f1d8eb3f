------------------------ MODULE DataBlocksMapProofs ------------------------
(***************************************************************************)
(* For any number of map blocks: blocks held are shown as in use, blocks   *)
(* shown as in use are held (or paired with one), and an allocation never  *)
(* returns a held block unless the file is exhausted.  The induction needs *)
(* PartnersStayFree: of a pair that shares a bit only the even block is    *)
(* ever held, apart from the formatted pair 0, 1, which is never freed.    *)
(***************************************************************************)
EXTENDS DataBlocksMap, TLAPS

\* Only 8k and 8k + 1 share a bit.
LEMMA SharedBit ==
    ASSUME NEW a \in Ids, NEW b \in Ids, BitOf(a) = BitOf(b), a < b
    PROVE  a % 8 = 0 /\ b = a + 1
<1>1. a \in Nat /\ b \in Nat
  BY PositionsAssumption DEF Ids
<1>2. a \div 8 = b \div 8
  BY DEF BitOf
<1>3. (IF a % 8 = 0 THEN 0 ELSE (a % 8) - 1) = (IF b % 8 = 0 THEN 0 ELSE (b % 8) - 1)
  BY DEF BitOf
<1> QED
  BY <1>1, <1>2, <1>3

\* The lowest free block is never the second of a pair.
LEMMA FirstFreeIsFirstOfPair ==
    ASSUME NEW id \in Ids, FirstFree(id), ~AllInUse
    PROVE  ~IsInUse(id) /\ id % 8 # 1
<1>1. id \in Nat /\ ~IsInUse(id) /\ \A j \in 0 .. id - 1 : IsInUse(j)
  BY PositionsAssumption DEF Ids, FirstFree
<1>2. SUFFICES ASSUME id % 8 = 1 PROVE FALSE
  BY <1>1
<1>3. id - 1 \in 0 .. id - 1
  BY <1>1, <1>2
<1>4. BitOf(id - 1) = BitOf(id)
  <2>1. (id - 1) \div 8 = id \div 8 /\ (id - 1) % 8 = 0
    BY <1>1, <1>2
  <2> QED BY <1>2, <2>1 DEF BitOf
<1> QED
  BY <1>1, <1>3, <1>4 DEF IsInUse

\* The bitmap and the held blocks describe each other.
Inv ==
    /\ TypeOK
    /\ 0 .. 2 \subseteq held
    /\ HeldIsInUse
    /\ NothingLeaks
    /\ PartnersStayFree

\* The formatted file satisfies Inv.
LEMMA InvInit == Init => Inv
<1> SUFFICES ASSUME Init PROVE Inv
  OBVIOUS
<1>1. Positions \in Nat /\ Positions >= 8 /\ 0 .. 3 \subseteq Ids
  BY PositionsAssumption DEF Ids
<1>2. \A id \in 0 .. 3 : BitOf(id) \in (0 .. (Positions \div 8) - 1) \X (0 .. 6)
  <2> SUFFICES ASSUME NEW id \in 0 .. 3 PROVE id \div 8 = 0 /\ id % 8 = id /\ 0 \in 0 .. (Positions \div 8) - 1
    BY <1>1 DEF BitOf
  <2> QED BY <1>1
<1>3. TypeOK
  BY <1>1, <1>2 DEF Init, TypeOK
<1>4. HeldIsInUse /\ NothingLeaks
  BY DEF Init, HeldIsInUse, NothingLeaks, IsInUse
<1>5. PartnersStayFree
  BY DEF Init, PartnersStayFree
<1> QED
  BY <1>3, <1>4, <1>5 DEF Init, Inv

\* Every allocation and every free keeps Inv.
LEMMA InvStep == Inv /\ [Next]_vars => Inv'
<1> SUFFICES ASSUME Inv, [Next]_vars PROVE Inv'
  OBVIOUS
<1>0. Positions \in Nat /\ Positions >= 8 /\ Ids \subseteq Nat
  BY PositionsAssumption DEF Ids
<1>1. ASSUME NEW id \in Ids, FirstFree(id), bits' = bits \cup {BitOf(id)},
             held' = held \cup {id}
      PROVE Inv'
  <2>1. BitOf(id) \in (0 .. (Positions \div 8) - 1) \X (0 .. 6)
    BY PositionsAssumption DEF BitOf, Ids
  <2>2. TypeOK'
    BY <1>1, <2>1 DEF Inv, TypeOK
  <2>3. HeldIsInUse' /\ NothingLeaks'
    BY <1>1 DEF Inv, HeldIsInUse, NothingLeaks, IsInUse
  <2>4. id % 8 = 1 => id = 1
    <3>1. CASE AllInUse
      BY <1>1, <3>1 DEF FirstFree, AllInUse
    <3>2. CASE ~AllInUse
      BY <1>1, <3>2, FirstFreeIsFirstOfPair
    <3> QED BY <3>1, <3>2
  <2>5. PartnersStayFree'
    BY <1>1, <2>4 DEF Inv, PartnersStayFree
  <2> QED BY <1>1, <2>2, <2>3, <2>5 DEF Inv
<1>2. ASSUME NEW id \in Ids, Free(id) PROVE Inv'
  <2>1. id \in held /\ id >= 3 /\ bits' = bits \ {BitOf(id)} /\ held' = held \ {id}
    BY <1>0, <1>2 DEF Free
  <2>2. TypeOK' /\ 0 .. 2 \subseteq held' /\ PartnersStayFree'
    BY <1>0, <1>2, <2>1 DEF Free, Inv, TypeOK, PartnersStayFree
  <2>3. ASSUME NEW h \in held, h # id PROVE BitOf(h) # BitOf(id)
    <3>1. h \in Ids /\ h \in Nat /\ id \in Nat
      BY <1>0 DEF Inv, TypeOK
    <3>2. CASE h < id
      <4>1. BitOf(h) = BitOf(id) => id = h + 1 /\ h % 8 = 0
        BY <3>1, <3>2, SharedBit
      <4>2. BitOf(h) = BitOf(id) => id % 8 = 1
        BY <3>1, <4>1
      <4> QED BY <2>1, <4>2 DEF Inv, PartnersStayFree
    <3>3. CASE id < h
      <4>1. BitOf(h) = BitOf(id) => h = id + 1 /\ id % 8 = 0
        BY <3>1, <3>3, SharedBit
      <4>2. BitOf(h) = BitOf(id) => h % 8 = 1
        BY <3>1, <4>1
      <4> QED BY <2>1, <3>1, <3>3, <4>2 DEF Inv, PartnersStayFree
    <3> QED BY <2>3, <3>1, <3>2, <3>3
  <2>4. HeldIsInUse'
    BY <2>1, <2>3 DEF Inv, HeldIsInUse, IsInUse
  <2>5. NothingLeaks'
    BY <2>1 DEF Inv, NothingLeaks, IsInUse
  <2> QED BY <2>2, <2>4, <2>5 DEF Inv
<1>3. CASE UNCHANGED vars
  BY <1>3 DEF vars, Inv, TypeOK, HeldIsInUse, NothingLeaks, PartnersStayFree, IsInUse
<1> QED
  BY <1>1, <1>2, <1>3 DEF Next, Allocate

\* The inductive invariant.
THEOREM Invariant == Spec => []Inv
<1> QED
  BY InvInit, InvStep, PTL DEF Spec

\* The bits of the map are bits of its two blocks, and clients hold blocks of the file
\* (data_blocks_map.go:24-59, bit_map.go:51-58).
THEOREM TypeCorrect == Spec => []TypeOK
<1>1. Inv => TypeOK
  BY DEF Inv
<1> QED
  BY <1>1, Invariant, PTL

\* Of two blocks that share a bit only the first is ever handed out, so one block
\* in eight is lost (bit_map.go:51-58, data_blocks_map.go:30-42).
THEOREM PartnersAreNeverHeld == Spec => []PartnersStayFree
<1>1. Inv => PartnersStayFree
  BY DEF Inv
<1> QED
  BY <1>1, Invariant, PTL

\* No held block is ever shown as free, whatever is allocated and freed
\* (data_blocks_map.go:24-59).
THEOREM HeldBlocksAreInUse == Spec => []HeldIsInUse
<1>1. Inv => HeldIsInUse
  BY DEF Inv
<1> QED
  BY <1>1, Invariant, PTL

\* A freed block is available again (data_blocks_map.go:45-51).
THEOREM NoBlockLeaks == Spec => []NothingLeaks
<1>1. Inv => NothingLeaks
  BY DEF Inv
<1> QED
  BY <1>1, Invariant, PTL

\* Allocation is exclusive as long as the file has room
\* (record_allocator.go:132-134, uint32_index_node_adapter.go:123-136).
THEOREM AllocationIsExclusive == Spec => []AllocationsAreFresh
<1>1. Inv => AllocationsAreFresh
  <2> SUFFICES ASSUME Inv, NEW id \in Ids, FirstFree(id)
               PROVE id \notin held \/ (id = 0 /\ AllInUse)
    BY DEF AllocationsAreFresh
  <2>1. CASE AllInUse
    BY <2>1 DEF FirstFree, AllInUse
  <2>2. CASE ~AllInUse
    BY <2>2, FirstFreeIsFirstOfPair DEF Inv, HeldIsInUse
  <2> QED BY <2>1, <2>2
<1> QED
  BY <1>1, Invariant, PTL
=============================================================================
