----------------------------- MODULE BPlusTree -----------------------------
(***************************************************************************)
(* bplustree/bplus_tree.go on the nodes of core/uint32_index_node_adapter. *)
(* go: the index from record ids to row ids.  A call is sequential and is  *)
(* one action; the operators below are its functions, on a whole tree.     *)
(*                                                                         *)
(* A tree has                                                              *)
(*   nodes      the blocks; a freed one keeps its content                  *)
(*   used       the blocks the index holds                                 *)
(*   bits       the bitmap of blocks in use (DataBlocksMap)                *)
(*   root       IndexRootBlockID, 0 before the first insert                *)
(*   first      FirstLeaf                                                  *)
(*   unflagged  nodes the call changed and did not mark as dirty after     *)
(*   marked     nodes the call marked as dirty, until it returns           *)
(*   panicked   the call panicked                                          *)
(*   misdeleted a delete took the wrong pointer of a branch                *)
(* An entry moves as a whole, so a leaf's entry is its key.  A branch of n *)
(* keys has n + 1 children.  Positions count from 0, as in the code.       *)
(***************************************************************************)
EXTENDS Integers, FiniteSets, Sequences, BitMap

CONSTANTS
    Keys,
    LeafCapacity, BranchCapacity,
    Loads,      \* calls made before the behaviour starts: keys to insert, then to delete
    Touched     \* keys inserted and deleted afterwards

ASSUME TreeAssumption ==
    /\ Keys \subseteq Nat /\ Touched \subseteq Keys
    /\ LeafCapacity \in Nat /\ LeafCapacity >= 4
    /\ BranchCapacity \in Nat /\ BranchCapacity >= 4
    /\ \A load \in Loads : {load.insert, load.delete} \subseteq Seq(Keys)

VARIABLES
    tree,
    present   \* history: the keys that were inserted and not deleted since

vars == <<tree, present>>

LOCAL Lib == INSTANCE SequencesExt

\* The blocks data_file_formatter.go marks as used; the index is the only client.
Formatted == 0 .. 3

HalfLeaf == LeafCapacity \div 2
HalfBranch == BranchCapacity \div 2

NodeIDs == Ids \ Formatted

NoNode == [leaf |-> TRUE, parent |-> 0, left |-> 0, right |-> 0, keys |-> <<>>, children |-> <<>>]

EmptyTree ==
    [nodes |-> [id \in NodeIDs |-> NoNode], used |-> {}, root |-> 0, first |-> 0,
     bits |-> {BitOf(id) : id \in Formatted}, unflagged |-> {}, marked |-> {},
     panicked |-> FALSE, misdeleted |-> FALSE]

-----------------------------------------------------------------------------
(* The node adapter                                                        *)

\* Writes that mark the node's block as dirty, and writes that do not.
Write(t, id, node) ==
    [t EXCEPT !.nodes[id] = node, !.unflagged = @ \ {id}, !.marked = @ \cup {id}]

WriteUnmarked(t, id, node) == [t EXCEPT !.nodes[id] = node, !.unflagged = @ \cup {id}]

SetKeys(t, id, keys) == Write(t, id, [t.nodes[id] EXCEPT !.keys = keys])

\* Links: id 0 is no node.
SetParent(t, ids, p) ==
    [t EXCEPT !.nodes = [id \in NodeIDs |-> IF id \in ids THEN [@[id] EXCEPT !.parent = p] ELSE @[id]],
              !.unflagged = @ \ ids, !.marked = @ \cup ids]

SetLeft(t, id, l) == IF id = 0 THEN t ELSE Write(t, id, [t.nodes[id] EXCEPT !.left = l])

SetRight(t, id, r) == IF id = 0 THEN t ELSE Write(t, id, [t.nodes[id] EXCEPT !.right = r])

IsRoot(t, id) == t.nodes[id].parent = 0

\* Mutant: the node that takes the root's place keeps its parent.
SetRoot_KeepsParent(t, id) == [t EXCEPT !.root = id]

\* The root is the node without a parent.
SetRoot(t, id) == [SetParent(t, {id}, 0) EXCEPT !.root = id]

\* FirstFree of the map.
FreshID(t) == CHOOSE id \in Ids : BitOf(id) \notin t.bits /\ \A j \in 0 .. id - 1 : BitOf(j) \in t.bits

\* allocateBlock: the block FirstFree gave is marked as used.
Create(t, id, node) == Write([t EXCEPT !.used = @ \cup {id}, !.bits = @ \cup {BitOf(id)}], id, node)

\* Mutants: leaves stay in use; the bitmap is not told; it clears the next bit.
Free_OnlyBranches(t, id) ==
    IF t.nodes[id].leaf THEN t
    ELSE [t EXCEPT !.used = @ \ {id}, !.bits = @ \ {BitOf(id)}, !.unflagged = @ \ {id}]

Free_KeepsBit(t, id) == [t EXCEPT !.used = @ \ {id}, !.unflagged = @ \ {id}]

Free_NextBit(t, id) ==
    [t EXCEPT !.used = @ \ {id}, !.bits = @ \ {<<id \div 8, id % 8>>}, !.unflagged = @ \ {id}]

\* The content of a freed block stays.
Free(t, id) ==
    [t EXCEPT !.used = @ \ {id}, !.bits = @ \ {BitOf(id)}, !.unflagged = @ \ {id}]

ReplaceKeyAt(t, id, p, k) ==
    WriteUnmarked(t, id, [t.nodes[id] EXCEPT !.keys = Lib!ReplaceAt(@, p + 1, k)])

\* Unshift: a new key and child before the others.
Unshift(t, id, k, child) ==
    Write(t, id, [t.nodes[id] EXCEPT !.keys = <<k>> \o @, !.children = <<child>> \o @])

\* InsertAt: a key and the child to its right.
InsertEntry(node, p, k, child) ==
    [node EXCEPT !.keys = Lib!InsertAt(@, p + 1, k), !.children = Lib!InsertAt(@, p + 2, child)]

\* deleteFromBranch takes an entry out with Shift (the first one) or DeleteAt.
\* Both take the pointer to the right of the key if it is the first or the last
\* one, but DeleteAt in the middle takes the pointer to its left.
BranchDelete(t, id, p) ==
    LET node == t.nodes[id]
        middle == p > 0 /\ p < Len(node.keys) - 1
    IN [WriteUnmarked(t, id,
            [node EXCEPT !.keys = Lib!RemoveAt(@, p + 1),
                         !.children = Lib!RemoveAt(@, IF middle THEN p + 1 ELSE p + 2)])
        EXCEPT !.misdeleted = @ \/ middle]

-----------------------------------------------------------------------------
(* Search                                                                  *)

Range(s) == {s[i] : i \in DOMAIN s}

\* findOnNode: how many keys are smaller, and whether the key itself is there.
Position(node, k) == Cardinality({i \in DOMAIN node.keys : node.keys[i] < k})

HasKey(node, k) == k \in Range(node.keys)

\* The entry of a branch that leads to key k (deleteKeyFromBranch and the pipes):
\* its own, or the one before the place it would go to.
Separator(node, k) == Position(node, k) - (IF HasKey(node, k) THEN 0 ELSE 1)

\* findLeafForKey: a key equal to a separator is on the right.
RECURSIVE LeafForKey(_, _, _)
LeafForKey(t, id, k) ==
    LET node == t.nodes[id] IN
    IF node.leaf THEN id
    ELSE LeafForKey(t, node.children[1 + Cardinality({i \in DOMAIN node.keys : node.keys[i] <= k})], k)

RECURSIVE Minimum(_, _)
Minimum(t, id) ==
    LET node == t.nodes[id] IN
    IF node.leaf THEN node.keys[1] ELSE Minimum(t, node.children[1])

\* Find.
Contains(t, k) == t.root # 0 /\ HasKey(t.nodes[LeafForKey(t, t.root, k)], k)

\* Sibling with the same parent, or 0.
RightSibling(t, id) ==
    LET r == t.nodes[id].right IN IF r # 0 /\ t.nodes[r].parent = t.nodes[id].parent THEN r ELSE 0

LeftSibling(t, id) ==
    LET l == t.nodes[id].left IN IF l # 0 /\ t.nodes[l].parent = t.nodes[id].parent THEN l ELSE 0

-----------------------------------------------------------------------------
(* Insert                                                                  *)

Panic(t) == [t EXCEPT !.panicked = TRUE]

\* Mutants: the old right sibling is not linked; it does not learn its new left one.
SetSiblings_DropsRight(t, left, right) ==
    SetLeft(SetRight(t, left, right), right, left)

SetSiblings_OneWay(t, left, right) ==
    SetLeft(SetRight(SetRight(t, right, t.nodes[left].right), left, right), right, left)

\* setSiblings: `right` is new and goes between `left` and its right sibling.
SetSiblings(t, left, right) ==
    LET old == t.nodes[left].right
        linked == IF old = 0 THEN t ELSE SetRight(SetLeft(t, old, right), right, old)
    IN SetLeft(SetRight(linked, left, right), right, left)

\* allocateNewRoot.
AllocateNewRoot(t, k, lt, gte) ==
    LET id == FreshID(t)
        grown == Create(t, id, [NoNode EXCEPT !.leaf = FALSE, !.keys = <<k>>, !.children = <<lt, gte>>])
    IN SetRoot(SetParent(grown, {lt, gte}, id), id)

\* branchSplit, for a branch that is full: of its entries and the new one, the
\* first half stay, the one after them is dropped, the others go to a new branch.
BranchSplit(t, id, p, k, child) ==
    LET new == FreshID(t)
        all == InsertEntry(t.nodes[id], p, k, child)
        left == [all EXCEPT !.keys = SubSeq(@, 1, HalfBranch),
                            !.children = SubSeq(@, 1, HalfBranch + 1)]
        right == [NoNode EXCEPT !.leaf = FALSE,
                     !.keys = SubSeq(all.keys, HalfBranch + 2, BranchCapacity + 1),
                     !.children = SubSeq(all.children, HalfBranch + 2, BranchCapacity + 2)]
        split == SetSiblings(Create(Write(t, id, left), new, right), id, new)
    IN SetParent(split, Range(right.children), new)

RECURSIVE InsertOnBranch(_, _, _, _, _)
InsertOnBranch(t, id, p, k, child) ==
    IF Len(t.nodes[id].keys) < BranchCapacity
    THEN Write(t, id, InsertEntry(t.nodes[id], p, k, child))
    ELSE LET new == FreshID(t)
             split == BranchSplit(t, id, p, k, child)
             parentKey == Minimum(split, new)
             parent == split.nodes[id].parent
         IN IF parent = 0 THEN AllocateNewRoot(split, parentKey, id, new)
            ELSE IF HasKey(split.nodes[parent], parentKey) THEN Panic(split)
            ELSE InsertOnBranch(SetParent(split, {new}, parent), parent,
                                Position(split.nodes[parent], parentKey), parentKey, new)

\* leafSplit: the first half of the entries, the new one among them, stay.
LeafSplit(t, id, k) ==
    LET new == FreshID(t)
        all == Lib!InsertAt(t.nodes[id].keys, Position(t.nodes[id], k) + 1, k)
        right == [NoNode EXCEPT !.keys = SubSeq(all, HalfLeaf + 1, LeafCapacity + 1)]
    IN SetSiblings(Create(SetKeys(t, id, SubSeq(all, 1, HalfLeaf)), new, right), id, new)

InsertOnLeaf(t, id, k) ==
    LET node == t.nodes[id] IN
    IF Len(node.keys) < LeafCapacity
    THEN SetKeys(t, id, Lib!InsertAt(node.keys, Position(node, k) + 1, k))
    ELSE LET new == FreshID(t)
             split == LeafSplit(t, id, k)
             parentKey == split.nodes[new].keys[1]
         IN IF node.parent = 0 THEN AllocateNewRoot(split, parentKey, id, new)
            ELSE IF HasKey(split.nodes[node.parent], parentKey) THEN Panic(split)
            ELSE InsertOnBranch(SetParent(split, {new}, node.parent), node.parent,
                                Position(split.nodes[node.parent], parentKey), parentKey, new)

\* The first insert makes the root (Init of the adapter).
InsertKey(t, k) ==
    IF t.root # 0 THEN InsertOnLeaf(t, LeafForKey(t, t.root, k), k)
    ELSE LET id == FreshID(t)
             initial == [SetRoot(Create(t, id, NoNode), id) EXCEPT !.first = id]
         IN InsertOnLeaf(initial, id, k)

-----------------------------------------------------------------------------
(* Delete                                                                  *)

\* A node without a sibling to borrow from is merged with one; the parent is
\* freed when it was the root and had just these two.
Collapses(t, parent) == IsRoot(t, parent) /\ Len(t.nodes[parent].keys) = 1

PipeFromRightBranch(t, right, left) ==
    LET parent == t.nodes[right].parent
        p == Separator(t.nodes[parent], t.nodes[right].keys[1])
        child == t.nodes[right].children[1]
        taken == WriteUnmarked(t, right, [t.nodes[right] EXCEPT !.keys = Tail(@), !.children = Tail(@)])
        grown == Write(taken, left, InsertEntry(t.nodes[left], Len(t.nodes[left].keys),
                                                t.nodes[parent].keys[p + 1], child))
        moved == SetParent(grown, {child}, left)
    IN ReplaceKeyAt(moved, parent, p, Minimum(moved, right))

PipeFromLeftBranch(t, left, right) ==
    LET parent == t.nodes[right].parent
        p == Separator(t.nodes[parent], t.nodes[right].keys[1])
        key == Lib!Last(t.nodes[left].keys)
        child == Lib!Last(t.nodes[left].children)
        taken == WriteUnmarked(t, left, [t.nodes[left] EXCEPT !.keys = Lib!Front(@),
                                                              !.children = Lib!Front(@)])
        grown == Unshift(taken, right, t.nodes[parent].keys[p + 1], child)
    IN ReplaceKeyAt(SetParent(grown, {child}, right), parent, p, key)

\* Mutant: the children keep their parent.
JoinBranches_KeepsParent(t, left, right) ==
    LET from == t.nodes[right]
        joined == Write(t, left, [t.nodes[left] EXCEPT !.keys = @ \o <<Minimum(t, right)>> \o from.keys,
                                                       !.children = @ \o from.children])
        emptied == WriteUnmarked(joined, right, [from EXCEPT !.keys = <<>>, !.children = <<>>])
        linked == SetLeft(SetRight(emptied, left, from.right), RightSibling(t, right), left)
    IN Free(linked, right)

\* mergeBranches up to the freeing of `right`.  The branch after `right` learns
\* its new left sibling only if it has the same parent.
JoinBranches(t, left, right) ==
    LET from == t.nodes[right]
        joined == Write(t, left, [t.nodes[left] EXCEPT !.keys = @ \o <<Minimum(t, right)>> \o from.keys,
                                                       !.children = @ \o from.children])
        moved == SetParent(joined, Range(from.children), left)
        emptied == WriteUnmarked(moved, right, [from EXCEPT !.keys = <<>>, !.children = <<>>])
        linked == SetLeft(SetRight(emptied, left, from.right), RightSibling(t, right), left)
    IN Free(linked, right)

RECURSIVE DeleteFromBranch(_, _, _)
DeleteFromBranch(t, id, p) ==
    LET done == BranchDelete(t, id, p)
        size(b) == Len(done.nodes[b].keys)
        right == RightSibling(done, id)
        left == LeftSibling(done, id)
        Merge(l, r) ==
            LET joined == JoinBranches(done, l, r)
                parent == done.nodes[l].parent
            IN IF Collapses(joined, parent) THEN SetRoot(Free(joined, parent), l)
               ELSE DeleteFromBranch(joined, parent,
                                     Separator(joined.nodes[parent], Minimum(done, r)))
    IN IF size(id) >= HalfBranch \/ IsRoot(done, id) THEN done
       ELSE IF right # 0 /\ size(right) > HalfBranch THEN PipeFromRightBranch(done, right, id)
       ELSE IF left # 0 /\ size(left) > HalfBranch THEN PipeFromLeftBranch(done, left, id)
       ELSE IF right # 0 THEN Merge(id, right)
       ELSE IF left # 0 THEN Merge(left, id)
       ELSE Panic(done)

\* Mutant: the separator becomes the key that moved, not the one after it.
PipeFromRightLeaf_OldSeparator(t, right, left) ==
    LET from == t.nodes[right].keys
        parent == t.nodes[right].parent
        moved == SetKeys(SetKeys(t, right, Tail(from)), left, Append(t.nodes[left].keys, from[1]))
    IN ReplaceKeyAt(moved, parent, Separator(t.nodes[parent], from[1]), from[1])

PipeFromRightLeaf(t, right, left) ==
    LET from == t.nodes[right].keys
        parent == t.nodes[right].parent
        moved == SetKeys(SetKeys(t, right, Tail(from)), left, Append(t.nodes[left].keys, from[1]))
    IN ReplaceKeyAt(moved, parent, Separator(t.nodes[parent], from[1]), from[2])

PipeFromLeftLeaf(t, left, right) ==
    LET from == t.nodes[left].keys
        parent == t.nodes[right].parent
        moved == SetKeys(SetKeys(t, left, Lib!Front(from)), right, <<Lib!Last(from)>> \o t.nodes[right].keys)
    IN ReplaceKeyAt(moved, parent, Separator(t.nodes[parent], t.nodes[right].keys[1]), Lib!Last(from))

\* mergeLeaves: `right` keeps its keys when it is freed.
MergeLeaves(t, left, right) ==
    LET from == t.nodes[right]
        parent == t.nodes[left].parent
        joined == SetKeys(t, left, t.nodes[left].keys \o from.keys)
        linked == Free(SetRight(SetLeft(joined, from.right, left), left, from.right), right)
    IN IF Collapses(linked, parent) THEN SetRoot(Free(linked, parent), left)
       ELSE DeleteFromBranch(linked, parent, Separator(linked.nodes[parent], from.keys[1]))

DeleteKey(t, k) ==
    LET id == LeafForKey(t, t.root, k)
        done == SetKeys(t, id, Lib!RemoveAt(t.nodes[id].keys, Position(t.nodes[id], k) + 1))
        size(leaf) == Len(done.nodes[leaf].keys)
        right == RightSibling(done, id)
        left == LeftSibling(done, id)
    IN IF size(id) >= HalfLeaf \/ IsRoot(done, id) THEN done
       ELSE IF right # 0 /\ size(right) > HalfLeaf THEN PipeFromRightLeaf(done, right, id)
       ELSE IF left # 0 /\ size(left) > HalfLeaf THEN PipeFromLeftLeaf(done, left, id)
       ELSE IF right # 0 THEN MergeLeaves(done, id, right)
       ELSE IF left # 0 THEN MergeLeaves(done, left, id)
       ELSE Panic(done)

-----------------------------------------------------------------------------
(* The index                                                               *)

\* What a call reports about itself starts afresh; which nodes it marked is
\* forgotten when it returns.
Fresh == [tree EXCEPT !.unflagged = {}]

Returned(t) == [t EXCEPT !.marked = {}]

Init ==
    \E load \in Loads :
        /\ tree = Returned(Lib!FoldLeft(DeleteKey, Lib!FoldLeft(InsertKey, EmptyTree, load.insert),
                                        load.delete))
        /\ present = Range(load.insert) \ Range(load.delete)

\* A key that is present, or absent, is an error that changes nothing.
Insert(k) ==
    /\ ~tree.panicked
    /\ ~Contains(tree, k)
    /\ tree' = Returned(InsertKey(Fresh, k))
    /\ present' = present \cup {k}

Delete(k) ==
    /\ ~tree.panicked
    /\ Contains(tree, k)
    /\ tree' = Returned(DeleteKey(Fresh, k))
    /\ present' = present \ {k}

Next == \E k \in Touched : Insert(k) \/ Delete(k)

Spec == Init /\ [][Next]_vars

\* The wrong pointer of a branch is the one known way an index goes wrong: SafeSpec
\* has all calls but those that take one.
SafeSpec == Init /\ [][Next /\ ~tree'.misdeleted]_vars

-----------------------------------------------------------------------------
(* Properties                                                              *)

\* The nodes that can be reached from the root, level by level.
RECURSIVE Below(_)
Below(ids) ==
    LET next == UNION {Range(tree.nodes[id].children) : id \in {i \in ids : ~tree.nodes[i].leaf}} IN
    IF next = {} THEN ids ELSE ids \cup Below(next)

Reachable == IF tree.root = 0 THEN {} ELSE Below({tree.root})

\* All: the keys in the order in which the iterator sees them.
RECURSIVE AllFrom(_)
AllFrom(id) == IF id = 0 THEN <<>> ELSE tree.nodes[id].keys \o AllFrom(tree.nodes[id].right)

\* Type invariant; no call panics, and only changes of branches are left unmarked
\* (uint32_index_node_adapter.go:341-399).
TypeOK ==
    /\ tree.used \subseteq NodeIDs
    /\ \A id \in tree.unflagged : id \in tree.used /\ ~tree.nodes[id].leaf
    /\ {tree.root, tree.first} \subseteq tree.used \cup {0}
    /\ ~tree.panicked

\* Find finds exactly the keys that were inserted and not deleted since, however
\* they are spread over nodes (bplus_tree.go:38-80, 317-337).
FindsWhatIsPresent == \A k \in Keys : Contains(tree, k) <=> k \in present

\* All, which Search uses, visits every key that is present, once and in order
\* (bplus_tree.go:339-349): the chain of leaves and the tree above it agree.
AllVisitsInOrder ==
    LET all == AllFrom(tree.first) IN
    /\ Range(all) = present
    /\ \A i \in 1 .. Len(all) - 1 : all[i] < all[i + 1]

\* Nodes are at least half full but for the root, and know their parent
\* (bplus_tree.go:82-112, 122-156, 535-540).
WellFormed ==
    \A id \in Reachable :
        LET node == tree.nodes[id] IN
        /\ id # tree.root => Len(node.keys) >= IF node.leaf THEN HalfLeaf ELSE HalfBranch
        /\ ~node.leaf => /\ Len(node.children) = Len(node.keys) + 1
                         /\ \A c \in Range(node.children) : tree.nodes[c].parent = id
        /\ id = tree.root => node.parent = 0

\* Left and right sibling links agree (bplus_tree.go:173-178, 298-302, 511-520).
SiblingsAgree ==
    \A id \in Reachable :
        /\ tree.nodes[id].right # 0 => tree.nodes[tree.nodes[id].right].left = id
        /\ tree.nodes[id].left # 0 => tree.nodes[tree.nodes[id].left].right = id

\* Every block the index holds is part of the tree: merges give blocks back, and
\* no block in the tree is free for somebody else (bplus_tree.go:180-185, 305-310).
NoNodeLeaks == tree.used = Reachable

LOCAL Map == INSTANCE DataBlocksMap WITH bits <- tree.bits, held <- Formatted \cup tree.used

\* No node of the index is ever shown as free, although two blocks share a bit and
\* merges free one or two blocks at a time (bit_map.go:51-58,
\* uint32_index_node_adapter.go:111-112, 124-129).
HeldIsInUse == Map!HeldIsInUse

\* The map shows as used only the nodes, the formatted blocks and the partners with
\* which they share a bit: what merges free comes back (data_blocks_map.go:45-51).
NothingLeaks == Map!NothingLeaks
=============================================================================
