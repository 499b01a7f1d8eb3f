----------------------------- MODULE IndexFile -----------------------------
(***************************************************************************)
(* The index over the data file: which of the nodes that a call changed    *)
(* are marked as dirty, and what a Close and New of the database find.     *)
(* Nodes stay in memory until then, the best case for what is not marked.  *)
(***************************************************************************)
EXTENDS BPlusTree

VARIABLES
    file,    \* the nodes in the data file
    dirty    \* nodes marked as dirty

fileVars == <<vars, file, dirty>>

FileInit ==
    /\ Init
    /\ file = tree.nodes
    /\ dirty = {}

FileInsert(k) ==
    /\ Insert(k)
    /\ dirty' = dirty \cup InsertKey(Fresh, k).marked
    /\ UNCHANGED file

FileDelete(k) ==
    /\ Delete(k)
    /\ dirty' = dirty \cup DeleteKey(Fresh, k).marked
    /\ UNCHANGED file

\* Close writes the dirty nodes; the control block and the map, which are marked
\* at every change, keep root, first leaf and used blocks.  Then the file is opened.
Reopen ==
    /\ file' = [id \in NodeIDs |-> IF id \in dirty THEN tree.nodes[id] ELSE file[id]]
    /\ tree' = [tree EXCEPT !.nodes = file', !.unflagged = {}]
    /\ dirty' = {}
    /\ UNCHANGED present

FileNext == (\E k \in Touched : FileInsert(k) \/ FileDelete(k)) \/ Reopen

\* Without the calls that take a wrong pointer (BPlusTree's SafeSpec).
FileSpec == FileInit /\ [][FileNext /\ ~tree'.misdeleted]_fileVars
=============================================================================
