------------------------------ MODULE Database ------------------------------
(***************************************************************************)
(* simple_json_db.go: the database object over its data file.  The calls   *)
(* are RecordAllocator's; below them every block has a copy in the file,   *)
(* which the buffer writes when it evicts the block and which is all that  *)
(* a close or a crash leaves.  The buffer is BlockStore's: a block marked  *)
(* as dirty reaches the file before it leaves memory, another one may be   *)
(* dropped.  It drops none while a call holds it (HeldBlocks has that).    *)
(*                                                                         *)
(* The index is one leaf, as it is up to 510 records: its block is taken   *)
(* by the first insert and never given back.                               *)
(***************************************************************************)
EXTENDS RecordAllocator

CONSTANT MaxCalls   \* bound on the calls made

ASSUME CallsAssumption == MaxCalls \in Nat

VARIABLES
    disk,     \* the data file: pages, control block, map and leaf
    synced,   \* history: records no call was made for since the last Close
    calls     \* calls made so far

dbVars == <<vars, disk, synced, calls>>

\* A new file is all zeros (data_file.go).
ZeroFile ==
    [pages |-> [b \in Blocks |-> EmptyPage], first |-> 0, avail |-> 0, index |-> {}, bits |-> {},
     rows |-> [id \in RecordIDs |-> NoRow]]

Closed == [pc |-> "closed"]
Formatting == [pc |-> "format"]
Crashed == [pc |-> "crashed"]

\* Memory becomes what the file holds.
LoadFile ==
    /\ pages' = disk.pages
    /\ first' = disk.first
    /\ avail' = disk.avail
    /\ index' = disk.index
    /\ bits' = disk.bits
    /\ rows' = disk.rows
    /\ dirty' = {}

DBInit ==
    /\ disk = ZeroFile
    /\ pages = disk.pages /\ first = 0 /\ avail = 0 /\ index = {} /\ bits = {} /\ rows = disk.rows
    /\ held = 0 .. 3
    /\ content = [id \in RecordIDs |-> Absent]
    /\ dirty = {}
    /\ synced = {}
    /\ calls = 0
    /\ op = Closed

-----------------------------------------------------------------------------
(* Opening and closing                                                     *)

\* FormatDataFileIfNeeded takes a file for formatted by one field of the control
\* block.
Open ==
    /\ op = Closed
    /\ disk.avail # 0
    /\ LoadFile
    /\ op' = Idle
    /\ UNCHANGED <<held, content, disk, synced, calls>>

\* The control block and the map are set up in memory; Sync writes them in any
\* order.
Format ==
    /\ op = Closed
    /\ disk.avail = 0
    /\ first' = 3 /\ avail' = 3 /\ index' = {}
    /\ bits' = disk.bits \cup {Map!BitOf(b) : b \in 0 .. 3}
    /\ dirty' = {ControlBlock, MapBlock}
    /\ op' = Formatting
    /\ UNCHANGED <<pages, held, rows, content, disk, synced, calls>>

\* Mutant: the map is not written.
Formatted_ControlOnly ==
    /\ op = Formatting
    /\ ControlBlock \notin dirty
    /\ LoadFile
    /\ op' = Idle
    /\ UNCHANGED <<held, content, disk, synced, calls>>

\* The formatter's buffer is thrown away and the database makes its own.
Formatted ==
    /\ op = Formatting
    /\ dirty = {}
    /\ LoadFile
    /\ op' = Idle
    /\ UNCHANGED <<held, content, disk, synced, calls>>

\* Mutant: Close returns before its blocks are written.
Close_Early ==
    /\ op = Idle
    /\ synced' = RecordIDs
    /\ UNCHANGED <<vars, disk, calls>>

\* Close, once Sync has written the dirty blocks; then the file is opened again.
\* What was changed and not marked is gone.
Close ==
    /\ op = Idle
    /\ dirty = {}
    /\ LoadFile
    /\ synced' = RecordIDs
    /\ UNCHANGED <<held, content, op, disk, calls>>

-----------------------------------------------------------------------------
(* The file                                                                *)

\* A dirty block is written, by an eviction or by Sync.
Flush(b) ==
    /\ b \in dirty
    /\ op # Crashed
    /\ disk' = CASE b = ControlBlock -> [disk EXCEPT !.first = first, !.avail = avail, !.index = index]
                 [] b = MapBlock -> [disk EXCEPT !.bits = bits]
                 [] b \in index -> [disk EXCEPT !.rows = rows]
                 [] OTHER -> [disk EXCEPT !.pages[b] = pages[b]]
    /\ dirty' = dirty \ {b}
    /\ UNCHANGED <<pages, list, rows, content, op, synced, calls>>

\* Between calls a block that is not dirty is evicted, and read again later.
Drop(b) ==
    /\ op = Idle
    /\ b \notin dirty \cup index
    /\ pages' = [pages EXCEPT ![b] = disk.pages[b]]
    /\ UNCHANGED <<list, rows, content, dirty, op, disk, synced, calls>>

\* The process dies, at any step.  A file that was being formatted is opened
\* again; of any other one we ask what can still be read.
Crash ==
    /\ op \notin {Closed, Crashed}
    /\ LoadFile
    /\ op' = IF op = Formatting THEN Closed ELSE Crashed
    /\ UNCHANGED <<held, content, disk, synced, calls>>

-----------------------------------------------------------------------------
(* The calls                                                               *)

DBCall ==
    \E id \in RecordIDs :
        /\ calls < MaxCalls
        /\ \/ \E n \in Sizes : Insert(id, n) \/ Update(id, n)
           \/ Delete(id)
        /\ calls' = calls + 1
        /\ synced' = synced \ {id}
        /\ UNCHANGED disk

\* Init of the node adapter makes the first leaf; later inserts find it.
TakesLeaf == index = {} /\ \E b \in Blocks : IndexTakes(b)

DBStep ==
    /\ \/ Place \/ MoveOn \/ Extend \/ Descend \/ RemoveChunk \/ Rewrite
       \/ TakesLeaf
       \/ index # {} /\ IndexInsert
       \/ IndexDelete
    /\ UNCHANGED <<disk, synced, calls>>

DBNext ==
    \/ Open \/ Format \/ Formatted \/ Close \/ Crash
    \/ \E b \in Blocks \cup {ControlBlock, MapBlock} : Flush(b)
    \/ \E b \in Blocks : Drop(b)
    \/ DBCall
    \/ DBStep

\* A crash while the formatter's Sync runs may leave the control block on file
\* and not the map: the next open takes the file for formatted, and the first
\* allocation returns the control block.
HalfFormatted == op = Closed /\ disk.avail # 0 /\ disk.bits = {}

DBSafeSpec == DBInit /\ [][~Defect /\ ~HalfFormatted /\ DBNext]_dbVars

-----------------------------------------------------------------------------
(* Properties                                                              *)

\* The record reads back as the calls that returned left it, through the index.
Reads(id) ==
    IF Present(id) THEN rows[id] # NoRow /\ Load(rows[id]).data = content[id]
    ELSE rows[id] = NoRow

\* Type invariant.
DBTypeOK ==
    /\ disk.first \in Blocks \cup {0} /\ disk.avail \in Blocks \cup {0}
    /\ dirty \subseteq {ControlBlock, MapBlock} \cup Blocks
    /\ index \subseteq Blocks /\ Cardinality(index) <= 1
    /\ \A b \in Blocks : pages[b].used \in 0 .. PageSize /\ disk.pages[b].used \in 0 .. PageSize

\* An open database answers as the calls before left it, however often blocks
\* were evicted and the file closed and opened in between, although Remove marks
\* nothing (record_allocator.go:151-179).
ReadsBack ==
    op.pc \notin {"closed", "format", "crashed"} =>
        \A id \in RecordIDs : op = Idle \/ op.id # id => Reads(id)

\* After a crash in the middle of any call or write back, a record that was there
\* (or deleted) at the last Close and was not named by a call since, is still
\* there (or not), although its blocks, its neighbours on them, the list and the
\* index leaf were changed and written in any order (data_buffer.go:100-113); and
\* the map on file shows its blocks as used.
SyncedSurvives ==
    op = Crashed =>
        \A id \in synced :
            /\ Reads(id)
            /\ \A row \in Load(rows[id]).from : Map!IsInUse(row.block)

\* In an open database every block somebody owns is in use in the map, also after
\* formatting was cut short before the control block was written, and after a
\* reopen (data_file_formatter.go:17-31).
OwnedIsInUse ==
    op.pc \notin {"closed", "format", "crashed"} => \A b \in held : Map!IsInUse(b)
=============================================================================
