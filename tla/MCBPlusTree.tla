----------------------------- MODULE MCBPlusTree -----------------------------
(* Capacities are those of the repository's tests, 4 and 4.  Keys inserted in *)
(* order split nodes to the right; the loads differ in how many levels there *)
(* are and in which nodes have entries to spare.                             *)
EXTENDS BPlusTree

Ascending(n) == [i \in 1 .. n |-> i]

Loaded(keys) == [insert |-> keys, delete |-> <<>>]

\* One to three levels.  In the last one the keys that come late, 1 to 4 but for
\* the first, fill the nodes on the left, so that borrowing goes to the right too.
MCLoads ==
    {Loaded(<<>>), Loaded(Ascending(9)), Loaded(Ascending(17)),
     Loaded(<<1>> \o [i \in 1 .. 13 |-> i + 4] \o <<2, 3, 4>>)}

\* Two leaves short of the case that takes a wrong pointer.
MCLeafLoads == {Loaded(<<>>), Loaded(Ascending(9))}
=============================================================================
