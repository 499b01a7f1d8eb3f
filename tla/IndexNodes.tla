----------------------------- MODULE IndexNodes -----------------------------
(***************************************************************************)
(* One node under the operations of both adapters: in its block            *)
(* (core/uint32_index_node_adapter.go over dbio/data_block.go) and in      *)
(* memory (bplustree/in_memory_adapter.go), which the tree is tested with. *)
(*                                                                         *)
(* A block is cut into cells, one per field: the type, the number of keys, *)
(* parent, left and right node, then the entries.  A leaf's entry is a key *)
(* and a row id; a branch is a child, then a key and a child for each      *)
(* entry, whose left child is the one before.  Nothing clears what is      *)
(* behind the entries.                                                     *)
(***************************************************************************)
EXTENDS Integers, Sequences, FiniteSets

CONSTANTS
    Keys, Children, Links, Capacity,
    Entries,   \* of a leaf: a key and a row id
    BlockCells,
    MaxCalls,  \* bound on the operations from the making of a node to its end
    Stale      \* what a block that had another use may have in its cells

VARIABLES
    block,   \* the cells
    memory,  \* the node of the in-memory adapter
    misdeleted,   \* history: the block lost another child than memory did
    calls    \* operations since the node was made

vars == <<block, memory, misdeleted, calls>>

Lib == INSTANCE SequencesExt

Half == Capacity \div 2

Rows == {e.item : e \in Entries}

TypeCell == 0
TotalCell == 1
ParentCell == 2
LeftCell == 3
RightCell == 4
EntriesAt == 5

LeafJump == 2
BranchJump == 2

\* A full leaf fits its block (510 entries in 4096 bytes), and so does a full branch
\* with its one child more (680 keys, up to byte 4090).  A file has more blocks than
\* one node has children.
ASSUME NodesAssumption ==
    /\ Keys \subseteq Nat \ {0} /\ 0 \in Links /\ Capacity \in Nat /\ Capacity >= 4
    /\ Children \subseteq Nat \ {0}
    /\ IsFiniteSet(Children) /\ Cardinality(Children) > Capacity + 1
    /\ Entries \subseteq [key : Keys, item : Nat]
    /\ MaxCalls \in Nat
    /\ BlockCells \in Nat /\ BlockCells > EntriesAt + Capacity * LeafJump
    /\ Stale \subseteq [0 .. BlockCells - 1 -> Nat]

Branch == 1
Leaf == 2

Blank == [c \in 0 .. BlockCells - 1 |-> 0]

NoNode == [kind |-> "none", parent |-> 0, left |-> 0, right |-> 0, entries |-> <<>>]

-----------------------------------------------------------------------------
(* Blocks: DataBlock.Unshift and the copies towards the front              *)

ShiftUp(b, at, n) == [c \in DOMAIN b |-> IF c >= at + n THEN b[c - n] ELSE b[c]]

CopyDown(b, at, n) ==
    [c \in DOMAIN b |-> IF c >= at /\ c + n < BlockCells THEN b[c + n] ELSE b[c]]

Total(b) == b[TotalCell]

\* Mutant: the number of keys is left as it was.
Allocate_KeepsTotal(was, type) ==
    [was EXCEPT ![TypeCell] = type,
                ![ParentCell] = 0, ![LeftCell] = 0, ![RightCell] = 0]

\* allocateBlock clears the header and nothing else.
Allocate(was, type) ==
    [was EXCEPT ![TypeCell] = type, ![TotalCell] = 0,
                ![ParentCell] = 0, ![LeftCell] = 0, ![RightCell] = 0]

LeafCell(p) == EntriesAt + p * LeafJump
BranchCell(p) == EntriesAt + p * BranchJump

LeafEntryAt(b, p) == [key |-> b[LeafCell(p)], item |-> b[LeafCell(p) + 1]]

BranchEntryAt(b, p) ==
    [key |-> b[BranchCell(p) + 1], lower |-> b[BranchCell(p)], greater |-> b[BranchCell(p) + 2]]

LeafInsertAt(b, p, e) ==
    LET room == IF p # Total(b) THEN ShiftUp(b, LeafCell(p), LeafJump) ELSE b IN
    [room EXCEPT ![TotalCell] = @ + 1, ![LeafCell(p)] = e.key, ![LeafCell(p) + 1] = e.item]

\* The whole rest of the block moves.
LeafDeleteAt(b, p) == [CopyDown(b, LeafCell(p), LeafJump) EXCEPT ![TotalCell] = @ - 1]

\* The child to the left stays where it is.
BranchInsertAt(b, p, k, child) ==
    [ShiftUp(b, BranchCell(p), BranchJump) EXCEPT
        ![TotalCell] = @ + 1, ![BranchCell(p) + 1] = k, ![BranchCell(p) + 2] = child]

BranchUnshift(b, k, child) ==
    [ShiftUp(b, EntriesAt, BranchJump) EXCEPT
        ![TotalCell] = @ + 1, ![EntriesAt] = child, ![EntriesAt + 1] = k]

\* The key and the child to its left, of the last entry the key and the child to its
\* right.
BranchDeleteAt(b, p) ==
    [(IF p = Total(b) - 1 THEN b ELSE CopyDown(b, BranchCell(p), BranchJump))
     EXCEPT ![TotalCell] = @ - 1]

\* Mutant: the first child goes with the first key.
BranchShift_TakesLower(b) == [CopyDown(b, EntriesAt, BranchJump) EXCEPT ![TotalCell] = @ - 1]

BranchShift(b) == [CopyDown(b, EntriesAt + 1, BranchJump) EXCEPT ![TotalCell] = @ - 1]

CreateBranch(was, e) ==
    [Allocate(was, Branch) EXCEPT ![TotalCell] = 1, ![EntriesAt] = e.lower,
                                  ![EntriesAt + 1] = e.key, ![EntriesAt + 2] = e.greater]

\* The entries from position s on, which DeleteFrom(s) returns while it sets the
\* number of keys to s.
LeafEntries(b, s) == [i \in 1 .. Total(b) - s |-> LeafEntryAt(b, s + i - 1)]

BranchEntries(b, s) == [i \in 1 .. Total(b) - s |-> BranchEntryAt(b, s + i - 1)]

\* A new leaf after InsertAt of these entries, each behind the one before.
LeafOf(was, entries) ==
    [c \in DOMAIN was |->
        IF c = TotalCell THEN Len(entries)
        ELSE IF c \in LeafCell(0) .. LeafCell(Len(entries)) - 1
          THEN LET e == entries[(c - EntriesAt) \div LeafJump + 1] IN
               IF (c - EntriesAt) % LeafJump = 0 THEN e.key ELSE e.item
        ELSE Allocate(was, Leaf)[c]]

\* A new branch after CreateBranch with the first of these entries and InsertAt of the
\* others, each behind the one before: what was there moves up.
BranchOf(was, entries) ==
    LET first == CreateBranch(was, entries[1]) IN
    [c \in DOMAIN was |->
        IF c = TotalCell THEN Len(entries)
        ELSE IF c <= EntriesAt THEN first[c]
        ELSE IF c <= BranchCell(Len(entries))
          THEN LET e == entries[(c - EntriesAt - 1) \div BranchJump + 1] IN
               IF (c - EntriesAt) % BranchJump = 1 THEN e.key ELSE e.greater
        ELSE first[c - (Len(entries) - 1) * BranchJump]]

-----------------------------------------------------------------------------
(* Memory: slices of entries                                               *)

MemoryInsertAt(es, p, k, child) ==
    LET lower == IF p = 0 THEN es[1].lower ELSE es[p].greater
        told == IF p < Len(es) THEN [es EXCEPT ![p + 1].lower = child] ELSE es
    IN Lib!InsertAt(told, p + 1, [key |-> k, lower |-> lower, greater |-> child])

\* Mutant: the entry behind the one that goes keeps its left child.
MemoryDeleteAt_KeepsLower(es, p) == Lib!RemoveAt(es, p + 1)

\* The key and the child to its right, of the first entry the key and the child to its
\* left.
MemoryDeleteAt(es, p) ==
    LET joined == IF p > 0 /\ p < Len(es) - 1 THEN [es EXCEPT ![p + 2].lower = es[p].greater]
                  ELSE es
    IN Lib!RemoveAt(joined, p + 1)

MemoryShift(es) == [Tail(es) EXCEPT ![1].lower = es[1].lower]

MemoryUnshift(es, k, child) == <<[key |-> k, lower |-> child, greater |-> es[1].lower]>> \o es

\* A new branch with the first of these entries and InsertAt of the others.
MemoryBranchOf(es) ==
    [i \in DOMAIN es |->
        [es[i] EXCEPT !.lower = IF i = 1 THEN es[1].lower ELSE es[i - 1].greater]]

-----------------------------------------------------------------------------
(* leafSplit and branchSplit: an insert into a full node at position p     *)

\* Mutant: an entry for the first place on the right counts as one for the left.
SplitFrom_OffByOne(p) == IF p <= Half THEN Half - 1 ELSE Half

SplitFrom(p) == IF p < Half THEN Half - 1 ELSE Half

LeafSplit(b, was, p, e) ==
    LET left == [b EXCEPT ![TotalCell] = SplitFrom(p)]
        right == LeafOf(was, LeafEntries(b, SplitFrom(p)))
    IN IF p < Half THEN [left |-> LeafInsertAt(left, p, e), right |-> right]
       ELSE [left |-> left, right |-> LeafInsertAt(right, p - Half, e)]

MemoryLeafSplit(es, p, e) ==
    LET left == SubSeq(es, 1, SplitFrom(p))
        right == SubSeq(es, SplitFrom(p) + 1, Len(es))
    IN IF p < Half THEN [left |-> Lib!InsertAt(left, p + 1, e), right |-> right]
       ELSE [left |-> left, right |-> Lib!InsertAt(right, p - Half + 1, e)]

\* What becomes of the entries cut off: the new child is the first on the right, or
\* the first entry is dropped, its key being the one that goes to the parent.
RightEntries(cut, p, child) == IF p = Half THEN [cut EXCEPT ![1].lower = child] ELSE Tail(cut)

BranchSplit(b, was, p, k, child) ==
    LET rest == [b EXCEPT ![TotalCell] = SplitFrom(p)]
        right == BranchOf(was, RightEntries(BranchEntries(b, SplitFrom(p)), p, child))
    IN [left |-> IF p < Half THEN BranchInsertAt(rest, p, k, child) ELSE rest,
        right |-> IF p > Half THEN BranchInsertAt(right, p - Half - 1, k, child) ELSE right]

\* The slice DeleteFrom returns is the end of the array whose front the branch goes
\* on using: an insert on the left, but at 0, writes over the first of the entries cut
\* off.
MemoryBranchSplit(es, p, k, child) ==
    LET rest == SubSeq(es, 1, SplitFrom(p))
        left == IF p < Half THEN MemoryInsertAt(rest, p, k, child) ELSE rest
        array == IF p \in 1 .. Half - 1 THEN left \o SubSeq(es, Len(left) + 1, Len(es)) ELSE es
        right == MemoryBranchOf(RightEntries(SubSeq(array, SplitFrom(p) + 1, Len(array)), p, child))
    IN [left |-> left, right |-> IF p > Half THEN MemoryInsertAt(right, p - Half - 1, k, child) ELSE right]

-----------------------------------------------------------------------------
(* The node                                                                *)

Init == block = Blank /\ memory = NoNode /\ misdeleted = FALSE /\ calls = 0

es == memory.entries

\* Where the tree may put a key: findOnNode gives the place that keeps the order.
Place(p, k) == (p > 0 => es[p].key < k) /\ (p < Len(es) => k < es[p + 1].key)

\* A block that is not one of these: FirstFree gives the lowest.
FreeBlock(ids) == CHOOSE c \in Children \ ids : \A other \in Children \ ids : c <= other

NewChild == FreeBlock(UNION {{es[i].lower, es[i].greater} : i \in DOMAIN es})

Became(b, entries) == block' = b /\ memory' = [memory EXCEPT !.entries = entries]

\* The block may be a new one, or one that had another use.
CreatedLeaf(was) ==
    /\ memory.kind = "none"
    /\ block' = Allocate(was, Leaf)
    /\ memory' = [NoNode EXCEPT !.kind = "leaf"]
    /\ UNCHANGED misdeleted

CreatedBranch(was, k) ==
    LET lt == FreeBlock({})
        e == [key |-> k, lower |-> lt, greater |-> FreeBlock({lt})]
    IN
    /\ memory.kind = "none"
    /\ block' = CreateBranch(was, e)
    /\ memory' = [NoNode EXCEPT !.kind = "branch", !.entries = <<e>>]
    /\ UNCHANGED misdeleted

\* Free: what stays in the block is for its next owner to find.
Freed ==
    /\ memory.kind # "none"
    /\ block' = Blank /\ memory' = NoNode /\ misdeleted' = FALSE

SetParentID(id) ==
    block' = [block EXCEPT ![ParentCell] = id] /\ memory' = [memory EXCEPT !.parent = id]

SetLeftSiblingID(id) ==
    block' = [block EXCEPT ![LeftCell] = id] /\ memory' = [memory EXCEPT !.left = id]

SetRightSiblingID(id) ==
    block' = [block EXCEPT ![RightCell] = id] /\ memory' = [memory EXCEPT !.right = id]

SetLink ==
    /\ memory.kind # "none"
    /\ \E id \in Links : SetParentID(id) \/ SetLeftSiblingID(id) \/ SetRightSiblingID(id)
    /\ UNCHANGED misdeleted

\* A half of the node that was split: the old block, or the new one.
BecameHalf(blocks, memories) ==
    \/ Became(blocks.left, memories.left)
    \/ /\ block' = blocks.right
       /\ memory' = [NoNode EXCEPT !.kind = memory.kind, !.entries = memories.right]

LeafInsert(p, e, was) ==
    /\ memory.kind = "leaf"
    /\ Place(p, e.key)
    /\ IF Len(es) < Capacity
         THEN Became(LeafInsertAt(block, p, e), Lib!InsertAt(es, p + 1, e))
         ELSE BecameHalf(LeafSplit(block, was, p, e), MemoryLeafSplit(es, p, e))
    /\ UNCHANGED misdeleted

LeafDelete(p) ==
    /\ memory.kind = "leaf"
    /\ Became(LeafDeleteAt(block, p), Lib!RemoveAt(es, p + 1))
    /\ UNCHANGED misdeleted

BranchInsert(p, k, was) ==
    /\ memory.kind = "branch" /\ es # <<>>
    /\ Place(p, k)
    /\ IF Len(es) < Capacity
         THEN Became(BranchInsertAt(block, p, k, NewChild), MemoryInsertAt(es, p, k, NewChild))
         ELSE BecameHalf(BranchSplit(block, was, p, k, NewChild), MemoryBranchSplit(es, p, k, NewChild))
    /\ UNCHANGED misdeleted

\* In the middle, where deleteFromBranch makes it, the adapters differ (run
\* index_misdelete).
BranchDelete(p) ==
    /\ memory.kind = "branch"
    /\ Became(BranchDeleteAt(block, p), MemoryDeleteAt(es, p))
    /\ misdeleted' = (misdeleted \/ p \in 1 .. Len(es) - 2)

BranchShifts ==
    /\ memory.kind = "branch" /\ Len(es) > 1
    /\ Became(BranchShift(block), MemoryShift(es))
    /\ UNCHANGED misdeleted

BranchUnshifts(k) ==
    /\ memory.kind = "branch" /\ Len(es) \in 1 .. Capacity - 1
    /\ Place(0, k)
    /\ Became(BranchUnshift(block, k, NewChild), MemoryUnshift(es, k, NewChild))
    /\ UNCHANGED misdeleted

ReplaceKeyAt(p, k) ==
    /\ memory.kind = "branch"
    /\ p > 0 => es[p].key < k
    /\ p < Len(es) - 1 => k < es[p + 2].key
    /\ Became([block EXCEPT ![BranchCell(p) + 1] = k], [es EXCEPT ![p + 1].key = k])
    /\ UNCHANGED misdeleted

Create ==
    \E was \in Stale :
        \/ CreatedLeaf(was)
        \/ \E k \in Keys : CreatedBranch(was, k)

Call ==
    \/ SetLink \/ BranchShifts
    \/ \E p \in 0 .. Len(es), was \in Stale :
          \/ \E e \in Entries : LeafInsert(p, e, was)
          \/ \E k \in Keys : BranchInsert(p, k, was)
    \/ \E p \in 0 .. Len(es) - 1 :
          LeafDelete(p) \/ BranchDelete(p) \/ \E k \in Keys : ReplaceKeyAt(p, k)
    \/ \E k \in Keys : BranchUnshifts(k)

Next ==
    \/ (Create \/ Freed) /\ calls' = 0
    \/ calls < MaxCalls /\ Call /\ calls' = calls + 1

Spec == Init /\ [][Next]_vars

-----------------------------------------------------------------------------
(* Properties                                                              *)

\* What the tree sees of the node: of the one in the block, and of the one in memory.
View(kind, parent, left, right, entries) ==
    [kind |-> kind, parent |-> parent, left |-> left, right |-> right,
     keys |-> [i \in DOMAIN entries |-> entries[i].key],
     items |-> IF kind = "leaf" THEN [i \in DOMAIN entries |-> entries[i].item]
               ELSE IF entries = <<>> THEN <<>>
               ELSE <<entries[1].lower>> \o [i \in DOMAIN entries |-> entries[i].greater]]

InMemory == View(memory.kind, memory.parent, memory.left, memory.right, es)

InBlock ==
    LET kind == CASE block[TypeCell] = Leaf -> "leaf"
                  [] block[TypeCell] = Branch -> "branch"
                  [] OTHER -> "none"
    IN View(kind, block[ParentCell], block[LeftCell], block[RightCell],
            IF kind = "leaf" THEN LeafEntries(block, 0) ELSE BranchEntries(block, 0))

\* Type invariant.
TypeOK ==
    /\ memory.kind \in {"none", "leaf", "branch"}
    /\ {memory.parent, memory.left, memory.right} \subseteq Links
    /\ DOMAIN block = 0 .. BlockCells - 1 /\ Total(block) \in 0 .. Capacity
    /\ misdeleted \in BOOLEAN

\* Until the block loses another child than memory (uint32_index_node_adapter.go:356,
\* in_memory_adapter.go:231), both adapters give the tree the same node after every
\* operation, splits included, although one moves bytes in a block and the other
\* entries in slices that share an array (in_memory_adapter.go:149-295,
\* uint32_index_node_adapter.go:227-447): up to such a delete, what the tests of the
\* tree show about a node holds of it on file.
AdaptersAgree == misdeleted \/ InBlock = InMemory

\* In memory the child between two keys is stored in both entries, and the code
\* reads now one and now the other (in_memory_adapter.go:224-295).
ChildrenShared == memory.kind = "branch" => \A i \in 1 .. Len(es) - 1 : es[i].greater = es[i + 1].lower

Contract == INSTANCE NodeContract WITH node <- InMemory

\* The node in memory is what the tree expects of one under every operation, a delete
\* in the middle of a branch included: entries go in, out and over to a new node in
\* order, each with the child or row id it came with (exports.go:16-57,
\* bplus_tree.go:122-127, 402-482).  The node in its block is as long as it agrees.
KeepsContract == Contract!Spec
=============================================================================
