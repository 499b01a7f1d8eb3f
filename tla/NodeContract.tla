---------------------------- MODULE NodeContract ----------------------------
(***************************************************************************)
(* What the tree expects of a node (LeafNode and BranchNode in             *)
(* bplustree/exports.go): keys in order and, in a leaf, the item of each;  *)
(* in a branch, the children left and right of them, one more than keys.   *)
(* Positions count from 0.                                                 *)
(***************************************************************************)
EXTENDS Integers, Sequences

CONSTANTS
    Keys,       \* numbers
    Rows,       \* items of a leaf
    Children,   \* node ids in a branch
    Links,      \* node ids of parents and siblings, 0 for none
    Capacity

VARIABLE node

Lib == INSTANCE SequencesExt

Half == Capacity \div 2

NoNode == [kind |-> "none", parent |-> 0, left |-> 0, right |-> 0, keys |-> <<>>, items |-> <<>>]

Ascending(keys) == \A i \in 1 .. Len(keys) - 1 : keys[i] < keys[i + 1]

Total(n) == Len(n.keys)

\* Key k at position p; its item, or the child to its right.
With(n, p, k, item) ==
    [n EXCEPT !.keys = Lib!InsertAt(@, p + 1, k),
              !.items = Lib!InsertAt(@, IF n.kind = "leaf" THEN p + 1 ELSE p + 2, item)]

Items(n) == IF n.kind = "leaf" THEN Rows ELSE Children

\* Keys stay in order, and a branch has a child already.
Fits(n, p, k) ==
    /\ n.kind = "branch" => Total(n) > 0
    /\ p > 0 => n.keys[p] < k
    /\ p < Total(n) => k < n.keys[p + 1]

-----------------------------------------------------------------------------
(* The operations: node n becomes m                                        *)

CreateLeaf(n, m) == n.kind = "none" /\ m = [NoNode EXCEPT !.kind = "leaf"]

CreateBranch(n, m) ==
    /\ n.kind = "none"
    /\ \E k \in Keys, lt, gte \in Children :
          m = [NoNode EXCEPT !.kind = "branch", !.keys = <<k>>, !.items = <<lt, gte>>]

SetLink(n, m) ==
    /\ n.kind # "none"
    /\ \E id \in Links :
          \/ m = [n EXCEPT !.parent = id]
          \/ m = [n EXCEPT !.left = id]
          \/ m = [n EXCEPT !.right = id]

InsertAt(n, m) ==
    /\ Total(n) < Capacity /\ Total(m) = Total(n) + 1
    /\ \E p \in 0 .. Total(n), k \in Keys :
          Fits(n, p, k) /\ \E item \in Items(n) : m = With(n, p, k, item)

\* A full node and one more entry, cut in two: the node may be either half.  The
\* key between two branches goes to their parent.
Split(n, m) ==
    /\ Total(n) = Capacity /\ Total(m) < Capacity
    /\ \E p \in 0 .. Total(n), k \in Keys : Fits(n, p, k) /\ \E item \in Items(n) :
          LET all == With(n, p, k, item)
              up == IF n.kind = "leaf" THEN 0 ELSE 1 IN
          \/ m = [all EXCEPT !.keys = SubSeq(@, 1, Half), !.items = SubSeq(@, 1, Half + up)]
          \/ m = [NoNode EXCEPT !.kind = n.kind,
                     !.keys = SubSeq(all.keys, Half + 1 + up, Len(all.keys)),
                     !.items = SubSeq(all.items, Half + 1 + up, Len(all.items))]

\* An entry of a leaf.  Of a branch, the first key and the child to its left or
\* another one and the child to its right.
DeleteAt(n, m) ==
    /\ Total(m) = Total(n) - 1
    /\ \/ /\ n.kind = "leaf"
          /\ \E i \in 1 .. Total(n) :
                m = [n EXCEPT !.keys = Lib!RemoveAt(@, i), !.items = Lib!RemoveAt(@, i)]
       \/ /\ n.kind = "branch" /\ Total(n) > 1
          /\ \/ m = [n EXCEPT !.keys = Tail(@), !.items = Tail(@)]
             \/ \E i \in 2 .. Total(n) :
                   m = [n EXCEPT !.keys = Lib!RemoveAt(@, i), !.items = Lib!RemoveAt(@, i + 1)]
       \/ /\ n.kind = "branch" /\ Total(n) = 1
          /\ m = [n EXCEPT !.keys = <<>>, !.items = <<>>]

\* The first key of a branch, with the child to its right.
Shift(n, m) ==
    /\ n.kind = "branch" /\ Total(n) > 1
    /\ m = [n EXCEPT !.keys = Tail(@), !.items = Lib!RemoveAt(@, 2)]

\* A key and a child before the others.
Unshift(n, m) ==
    /\ n.kind = "branch" /\ Total(n) \in 1 .. Capacity - 1
    /\ \E k \in Keys, child \in Children :
          k < n.keys[1] /\ m = [n EXCEPT !.keys = <<k>> \o @, !.items = <<child>> \o @]

ReplaceKeyAt(n, m) ==
    /\ n.kind = "branch"
    /\ Ascending(m.keys)
    /\ \E i \in 1 .. Total(n), k \in Keys : m = [n EXCEPT !.keys[i] = k]

Free(n, m) == m = NoNode

Becomes(n, m) ==
    \/ CreateLeaf(n, m) \/ CreateBranch(n, m) \/ SetLink(n, m) \/ Free(n, m)
    \/ InsertAt(n, m) \/ Split(n, m) \/ DeleteAt(n, m)
    \/ Shift(n, m) \/ Unshift(n, m) \/ ReplaceKeyAt(n, m)

Init == node = NoNode

Next == Becomes(node, node')

Spec == Init /\ [][Next]_node
=============================================================================
