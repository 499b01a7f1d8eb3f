----------------------------- MODULE DataBuffer -----------------------------
(***************************************************************************)
(* dbio/data_buffer.go: the block buffer every other layer reads and       *)
(* writes through.  Size frames hold the most recently fetched blocks; a   *)
(* clock over nextVictims picks the frame to recycle, and a dirty victim   *)
(* is written to the data file first.                                      *)
(*                                                                         *)
(* The four fields of bufferFrame are four functions on Frames.  The data  *)
(* file is `disk`; its calls may fail (data_file.go returns the errors of  *)
(* os.File).  FetchBlock hands out a slice of the frame, so a client       *)
(* changes data[f] directly (ClientWrite, data_block.go) and must call     *)
(* MarkAsDirty for the change to be kept.  Here a client only writes a     *)
(* block that is still resident.                                           *)
(***************************************************************************)
EXTENDS Naturals, Sequences, FiniteSets

CONSTANTS
    Size,     \* number of frames (NewDataBuffer's size)
    Blocks,   \* block ids
    Values,   \* contents a block can have
    Zero,     \* the content of a new frame
    None      \* no frame, no value

ASSUME SizeAssumption == Size \in Nat \ {0}
ASSUME ZeroAssumption == Zero \in Values
ASSUME NoneAssumption == None \notin Nat /\ None \notin Values

VARIABLES
    inUse, referenced, isDirty, data,   \* the frames
    idToFrame,     \* the frame of each resident block, or None
    nextVictims,   \* resident blocks in clock order, the hand at the head
    disk,          \* what the data file holds
    pc,            \* "idle", or "sync" inside the loop of Sync
    toSync,        \* dirty blocks the loop of Sync has still to write
    unmarked,      \* history: blocks written and not (yet) marked as dirty
    synced         \* history: content a Sync acknowledged, or None

frameVars == <<inUse, referenced, isDirty, data>>
tableVars == <<idToFrame, nextVictims>>
vars == <<frameVars, tableVars, disk, pc, toSync, unmarked, synced>>

Frames == 0 .. Size - 1

Resident(b) == idToFrame[b] # None
Dirty(b)    == Resident(b) /\ isDirty[idToFrame[b]]

\* What a fetch of b gives its caller.
Content(b) == IF Resident(b) THEN data[idToFrame[b]] ELSE disk[b]

NewDataBuffer ==
    /\ inUse = [f \in Frames |-> FALSE]
    /\ referenced = [f \in Frames |-> FALSE]
    /\ isDirty = [f \in Frames |-> FALSE]
    /\ data = [f \in Frames |-> Zero]
    /\ idToFrame = [b \in Blocks |-> None]
    /\ nextVictims = <<>>
    /\ pc = "idle"
    /\ toSync = {}
    /\ unmarked = {}

Init ==
    /\ NewDataBuffer
    /\ disk \in [Blocks -> Values]
    /\ synced = [b \in Blocks |-> None]

-----------------------------------------------------------------------------
(* The clock                                                               *)

VictimFrame(i) == idToFrame[nextVictims[i]]

AllReferenced == \A i \in 1 .. Size : referenced[VictimFrame(i)]

\* The sweep stops at the first unreferenced frame from the head; when there
\* is none it has cleared every bit and is back at the head.
VictimPosition(p) ==
    \/ ~referenced[VictimFrame(p)] /\ \A i \in 1 .. p - 1 : referenced[VictimFrame(i)]
    \/ AllReferenced /\ p = 1

\* The bits once the sweep has stopped at p.
ReferencedAfterSweep(p) ==
    LET swept == IF AllReferenced THEN 1 .. Size ELSE 1 .. p - 1 IN
    [f \in Frames |-> referenced[f] /\ \A i \in swept : VictimFrame(i) # f]

\* Mutant: the slice after the hand starts at the victim itself.
NextVictimsAfter_KeepsVictim(p) ==
    SubSeq(nextVictims, p, Len(nextVictims)) \o SubSeq(nextVictims, 1, p - 1)

NextVictimsAfter(p) ==
    SubSeq(nextVictims, p + 1, Len(nextVictims)) \o SubSeq(nextVictims, 1, p - 1)

-----------------------------------------------------------------------------
(* FetchBlock                                                              *)

FetchHit(b) ==
    /\ pc = "idle"
    /\ Resident(b)
    /\ referenced' = [referenced EXCEPT ![idToFrame[b]] = TRUE]
    /\ UNCHANGED <<inUse, isDirty, data, tableVars, disk, pc, toSync, unmarked, synced>>

\* The loop over the frames leaves with the first one not in use, or with the
\* last one when there is none.
FreeFrame(f) ==
    \/ ~inUse[f] /\ \A g \in 0 .. f - 1 : inUse[g]
    \/ f = Size - 1 /\ \A g \in Frames : inUse[g]

FetchFree(b, f) ==
    /\ pc = "idle"
    /\ ~Resident(b)
    /\ Len(nextVictims) # Size
    /\ FreeFrame(f)
    /\ data' = [data EXCEPT ![f] = disk[b]]
    /\ inUse' = [inUse EXCEPT ![f] = TRUE]
    /\ referenced' = [referenced EXCEPT ![f] = FALSE]
    /\ nextVictims' = Append(nextVictims, b)
    /\ idToFrame' = [idToFrame EXCEPT ![b] = f]
    /\ UNCHANGED <<isDirty, disk, pc, toSync, unmarked, synced>>

\* ReadBlock fails: the frame stays free, its bytes are anything.
FetchFreeFails(b, f, v) ==
    /\ pc = "idle"
    /\ ~Resident(b)
    /\ Len(nextVictims) # Size
    /\ FreeFrame(f)
    /\ data' = [data EXCEPT ![f] = v]
    /\ UNCHANGED <<inUse, referenced, isDirty, tableVars, disk, pc, toSync, unmarked, synced>>

\* Mutant: a dirty victim is not written.
Evict_DropsDirty(p) ==
    LET victim == nextVictims[p] IN
    /\ Len(nextVictims) = Size
    /\ VictimPosition(p)
    /\ disk' = disk
    /\ isDirty' = [isDirty EXCEPT ![VictimFrame(p)] = FALSE]
    /\ unmarked' = unmarked \ {victim}
    /\ UNCHANGED <<pc, toSync, synced>>

\* evictFrame up to a successful return: the victim at position p is written
\* when it is dirty, and leaves the table.
Evict(p) ==
    LET victim == nextVictims[p] IN
    /\ Len(nextVictims) = Size
    /\ VictimPosition(p)
    /\ disk' = IF isDirty[VictimFrame(p)]
                 THEN [disk EXCEPT ![victim] = data[VictimFrame(p)]] ELSE disk
    /\ isDirty' = [isDirty EXCEPT ![VictimFrame(p)] = FALSE]
    /\ unmarked' = unmarked \ {victim}
    /\ UNCHANGED <<pc, toSync, synced>>

FetchEvict(b, p) ==
    LET f == VictimFrame(p) IN
    /\ pc = "idle"
    /\ ~Resident(b)
    /\ Evict(p)
    /\ data' = [data EXCEPT ![f] = disk[b]]
    /\ inUse' = [inUse EXCEPT ![f] = TRUE]
    /\ referenced' = [ReferencedAfterSweep(p) EXCEPT ![f] = TRUE]
    /\ nextVictims' = Append(NextVictimsAfter(p), b)
    /\ idToFrame' = [idToFrame EXCEPT ![nextVictims[p]] = None, ![b] = f]

\* The victim is gone, then ReadBlock fails.
FetchEvictReadFails(b, p, v) ==
    LET f == VictimFrame(p) IN
    /\ pc = "idle"
    /\ ~Resident(b)
    /\ Evict(p)
    /\ data' = [data EXCEPT ![f] = v]
    /\ inUse' = [inUse EXCEPT ![f] = FALSE]
    /\ referenced' = ReferencedAfterSweep(p)
    /\ nextVictims' = NextVictimsAfter(p)
    /\ idToFrame' = [idToFrame EXCEPT ![nextVictims[p]] = None]

\* WriteBlock of the victim fails: the bits the sweep cleared stay cleared,
\* nothing else changed in memory; the block on file may be old, new or torn.
FetchEvictWriteFails(b, p, v) ==
    /\ pc = "idle"
    /\ ~Resident(b)
    /\ Len(nextVictims) = Size
    /\ VictimPosition(p)
    /\ isDirty[VictimFrame(p)]
    /\ referenced' = ReferencedAfterSweep(p)
    /\ disk' = [disk EXCEPT ![nextVictims[p]] = v]
    /\ UNCHANGED <<inUse, isDirty, data, tableVars, pc, toSync, unmarked, synced>>

-----------------------------------------------------------------------------
(* The client: DataBlock.Write and MarkAsDirty                             *)

ClientWrite(b, v) ==
    /\ pc = "idle"
    /\ Resident(b)
    /\ data' = [data EXCEPT ![idToFrame[b]] = v]
    /\ unmarked' = IF Dirty(b) THEN unmarked ELSE unmarked \cup {b}
    /\ synced' = [synced EXCEPT ![b] = None]
    /\ UNCHANGED <<inUse, referenced, isDirty, tableVars, disk, pc, toSync>>

\* Marking a block that is not resident panics.
MarkAsDirty(b) ==
    /\ pc = "idle"
    /\ Resident(b)
    /\ isDirty' = [isDirty EXCEPT ![idToFrame[b]] = TRUE]
    /\ referenced' = [referenced EXCEPT ![idToFrame[b]] = TRUE]
    /\ unmarked' = unmarked \ {b}
    /\ synced' = [synced EXCEPT ![b] = None]
    /\ UNCHANGED <<inUse, data, tableVars, disk, pc, toSync>>

-----------------------------------------------------------------------------
(* Sync: one step per block, because the process may die between two       *)
(* writes; the range over the map gives no order.                          *)

\* Mutant: the loop writes frame positions, not block ids.
SyncStart_Positions ==
    /\ pc = "idle"
    /\ pc' = "sync"
    /\ toSync' = {idToFrame[b] : b \in {c \in Blocks : Dirty(c)}}
    /\ UNCHANGED <<frameVars, tableVars, disk, unmarked, synced>>

\* Mutant: frames whose second chance is used up are taken for evicted.
SyncStart_SkipsUnreferenced ==
    /\ pc = "idle"
    /\ pc' = "sync"
    /\ toSync' = {b \in Blocks : Dirty(b) /\ referenced[idToFrame[b]]}
    /\ UNCHANGED <<frameVars, tableVars, disk, unmarked, synced>>

SyncStart ==
    /\ pc = "idle"
    /\ pc' = "sync"
    /\ toSync' = {b \in Blocks : Dirty(b)}
    /\ UNCHANGED <<frameVars, tableVars, disk, unmarked, synced>>

SyncBlock(b) ==
    /\ pc = "sync"
    /\ b \in toSync
    /\ disk' = [disk EXCEPT ![b] = data[idToFrame[b]]]
    /\ isDirty' = [isDirty EXCEPT ![idToFrame[b]] = FALSE]
    /\ toSync' = toSync \ {b}
    /\ UNCHANGED <<inUse, referenced, data, tableVars, pc, unmarked, synced>>

\* Mutant: the flag is cleared before the write that fails.
SyncFails_ClearsFirst(b, v) ==
    /\ pc = "sync"
    /\ b \in toSync
    /\ disk' = [disk EXCEPT ![b] = v]
    /\ isDirty' = [isDirty EXCEPT ![idToFrame[b]] = FALSE]
    /\ pc' = "idle"
    /\ toSync' = {}
    /\ UNCHANGED <<inUse, referenced, data, tableVars, unmarked, synced>>

\* WriteBlock fails: Sync returns its error and tries no other block.
SyncFails(b, v) ==
    /\ pc = "sync"
    /\ b \in toSync
    /\ disk' = [disk EXCEPT ![b] = v]
    /\ pc' = "idle"
    /\ toSync' = {}
    /\ UNCHANGED <<frameVars, tableVars, unmarked, synced>>

\* Sync returns nil.
SyncReturn ==
    /\ pc = "sync"
    /\ toSync = {}
    /\ pc' = "idle"
    /\ synced' = [b \in Blocks |-> IF b \in unmarked THEN synced[b] ELSE Content(b)]
    /\ UNCHANGED <<frameVars, tableVars, disk, toSync, unmarked>>

-----------------------------------------------------------------------------
\* The process dies at any point; the file is opened with a new buffer.  Dying
\* inside a write is a failed write followed by this.
Crash ==
    /\ inUse' = [f \in Frames |-> FALSE]
    /\ referenced' = [f \in Frames |-> FALSE]
    /\ isDirty' = [f \in Frames |-> FALSE]
    /\ data' = [f \in Frames |-> Zero]
    /\ idToFrame' = [b \in Blocks |-> None]
    /\ nextVictims' = <<>>
    /\ pc' = "idle"
    /\ toSync' = {}
    /\ unmarked' = {}
    /\ UNCHANGED <<disk, synced>>

FetchBlock(b) ==
    \/ FetchHit(b)
    \/ \E f \in Frames : FetchFree(b, f) \/ \E v \in Values : FetchFreeFails(b, f, v)
    \/ \E p \in 1 .. Size :
          \/ FetchEvict(b, p)
          \/ \E v \in Values : FetchEvictReadFails(b, p, v) \/ FetchEvictWriteFails(b, p, v)

Sync ==
    \/ SyncStart
    \/ \E b \in Blocks : SyncBlock(b) \/ \E v \in Values : SyncFails(b, v)
    \/ SyncReturn

Next ==
    \/ \E b \in Blocks :
          \/ FetchBlock(b)
          \/ \E v \in Values : ClientWrite(b, v)
          \/ MarkAsDirty(b)
    \/ Sync
    \/ Crash

Spec == Init /\ [][Next]_vars

-----------------------------------------------------------------------------
(* Properties                                                              *)

\* The type invariant of the buffer and its history variables.
TypeOK ==
    /\ inUse \in [Frames -> BOOLEAN]
    /\ referenced \in [Frames -> BOOLEAN]
    /\ isDirty \in [Frames -> BOOLEAN]
    /\ data \in [Frames -> Values]
    /\ idToFrame \in [Blocks -> Frames \cup {None}]
    /\ nextVictims \in Seq(Blocks)
    /\ disk \in [Blocks -> Values]
    /\ pc \in {"idle", "sync"}
    /\ toSync \subseteq Blocks
    /\ unmarked \subseteq Blocks
    /\ synced \in [Blocks -> Values \cup {None}]

\* frames, idToFrame and nextVictims describe the same set of blocks, through
\* hits, sweeps, evictions and fetches that fail half way (data_buffer.go:49-87,
\* 115-146): no two blocks share a frame, a frame is in use exactly when a block
\* has it, a free frame is clean, and the clock visits each resident block once.
FrameTable ==
    /\ \A a, b \in Blocks : Resident(a) /\ idToFrame[a] = idToFrame[b] => a = b
    /\ \A f \in Frames : inUse[f] <=> \E b \in Blocks : idToFrame[b] = f
    /\ \A f \in Frames : isDirty[f] => inUse[f]
    /\ \A b \in Blocks : Resident(b) <=> \E i \in 1 .. Len(nextVictims) : nextVictims[i] = b
    /\ \A i, j \in 1 .. Len(nextVictims) : nextVictims[i] = nextVictims[j] => i = j
    /\ Len(nextVictims) <= Size

\* A clean frame may be recycled without a write (data_buffer.go:134), so it
\* must hold what is on file, unless a client wrote it and never flagged it.
CleanMeansOnDisk ==
    \A b \in Blocks : Resident(b) /\ ~Dirty(b) /\ b \notin unmarked
                          => disk[b] = data[idToFrame[b]]

\* The loop of Sync (data_buffer.go:100-113) still has to visit exactly the
\* dirty blocks, so nil is returned only when nothing flagged is left.
SyncCoversDirty == pc = "sync" => toSync = {b \in Blocks : Dirty(b)}

\* What a Sync that returned nil acknowledged is what the file holds and what a
\* fetch gives, through any later eviction, failed call or crash, until a
\* client writes or flags the block again.
SyncedIsDurable ==
    \A b \in Blocks : synced[b] # None => disk[b] = synced[b] /\ Content(b) = synced[b]

\* The buffer implements the contract its clients rely on: a flagged block only
\* loses its flag by reaching the file, whatever the clock evicts and whichever
\* call fails; fetching never changes what a client reads of a flagged block.
Store == INSTANCE BlockStore WITH
            mem <- [b \in Blocks |-> Content(b)],
            dirty <- {b \in Blocks : Dirty(b)}

Implements == Store!Spec
=============================================================================
