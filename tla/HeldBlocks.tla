----------------------------- MODULE HeldBlocks -----------------------------
(***************************************************************************)
(* core/record_allocator.go on the frames of the buffer.  A block that was *)
(* fetched is a slice of a frame; Add, Update and Remove keep such slices  *)
(* while they fetch other blocks, and write through them afterwards.       *)
(* Nothing pins a block: its frame may have been given to another by then. *)
(*                                                                         *)
(* A call is the sequence of its fetches, writes and marks, in the order   *)
(* of the code.  What a block says (whether it has room, its links, the    *)
(* chunk that follows) is any answer, as it may be read through a handle   *)
(* that is stale.  Between calls the buffer is used in any way.            *)
(***************************************************************************)
EXTENDS DataBuffer

CONSTANTS
    ControlBlock, FirstMap, SecondMap,   \* blocks 0, 1 and 2
    MapOf,      \* the map block that has a block's flag
    MaxChain,   \* bound on the chunks of a record
    FileFails   \* whether a call may meet a fetch that fails

VARIABLES
    local,   \* the handles in the call's variables
    chain,   \* the handles on the stack of Remove's recursion
    todo,    \* the statements until the next decision of the call
    at,      \* which decision that is
    call,    \* the call that is running
    lost     \* a block that is not resident was marked: a panic

callVars == <<local, chain, todo, at, call>>
heldVars == <<vars, callVars, lost>>

\* recordBlock of Add, rb of Update (first); initialBlock, recordBlock and prevBlock
\* of allocateRecord (initial, chunk, prev); controlDataBlock of removeFromList; a
\* block that is fetched, changed, marked and left at once (it).
Names == {"first", "initial", "chunk", "prev", "control", "it"}

\* A record can be in the control block once a full file has handed that out.
RecordBlocks == Blocks \ {ControlBlock, FirstMap, SecondMap}
InsertBlocks == RecordBlocks \cup {ControlBlock}

NoHandle == [block |-> ControlBlock, frame |-> 0]

\* "top" is firstBlock of Remove's innermost call.
Handle(x) == IF x = "top" THEN chain[Len(chain)] ELSE local[x]

NoCall ==
    /\ local = [x \in Names |-> NoHandle]
    /\ chain = <<>> /\ todo = <<>> /\ at = "idle" /\ call = "none"

NoCallIsLeft ==
    /\ local' = [x \in Names |-> NoHandle]
    /\ chain' = <<>> /\ todo' = <<>> /\ at' = "idle" /\ call' = "none"

HeldInit == Init /\ NoCall /\ lost = FALSE

-----------------------------------------------------------------------------
(* Statements                                                              *)

Fetch(b, x) == <<[op |-> "fetch", block |-> b, of |-> x]>>
Write(x)    == <<[op |-> "write", block |-> ControlBlock, of |-> x]>>
Mark(x)     == <<[op |-> "mark", block |-> ControlBlock, of |-> x]>>
Use(x)      == Write(x) \o Mark(x)
Touch(b)    == Fetch(b, "it") \o Use("it")

\* FirstFree looks at the second map block when the first is full; a full file has
\* block 0 for an answer (data_blocks_map.go:25-45).
AllocateNewBlock(start, new) ==
    Fetch(FirstMap, "it") \o (IF MapOf[new] = FirstMap /\ new # ControlBlock THEN <<>>
                              ELSE Fetch(SecondMap, "it"))
    \o Touch(MapOf[new]) \o Touch(new) \o Touch(start) \o Touch(ControlBlock)

\* p is the control block for the first block of the list.
RemoveFromList(p, n) ==
    (IF p = ControlBlock THEN Fetch(ControlBlock, "control") \o Touch(ControlBlock) ELSE <<>>)
    \o Touch(p) \o Touch(n) \o Write("top") \o Touch(MapOf[Handle("top").block])

Begins(op) == todo # <<>> /\ todo[1].op = op

DoFetch(b) ==
    LET x == todo[1].of
        h == [block |-> b, frame |-> idToFrame'[b]] IN
    /\ Begins("fetch") /\ todo[1].block = b
    /\ \/ FetchHit(b)
       \/ \E f \in Frames : FetchFree(b, f)
       \/ \E p \in 1 .. Size : FetchEvict(b, p)
    /\ todo' = Tail(todo)
    /\ local' = IF x = "top" THEN local ELSE [local EXCEPT ![x] = h]
    /\ chain' = IF x = "top" THEN Append(chain, h) ELSE chain
    /\ UNCHANGED <<at, call, lost>>

\* The repository panics with the error; removeFromList returns that of its own fetch.
FetchFails(b) ==
    /\ FileFails
    /\ Begins("fetch") /\ todo[1].block = b
    /\ \E v \in Values :
          \/ \E f \in Frames : FetchFreeFails(b, f, v)
          \/ \E p \in 1 .. Size : FetchEvictReadFails(b, p, v) \/ FetchEvictWriteFails(b, p, v)
    /\ todo' = <<>>
    /\ at' = IF todo[1].of = "control" THEN "failed" ELSE "panicked"
    /\ UNCHANGED <<local, chain, call, lost>>

\* A write goes to the frame, whoever has it now.
DoWrite(v) ==
    LET f == Handle(todo[1].of).frame
        owners == {b \in Blocks : idToFrame[b] = f} IN
    /\ Begins("write")
    /\ data' = [data EXCEPT ![f] = v]
    /\ unmarked' = IF isDirty[f] THEN unmarked ELSE unmarked \cup owners
    /\ synced' = [b \in Blocks |-> IF b \in owners THEN None ELSE synced[b]]
    /\ todo' = Tail(todo)
    /\ UNCHANGED <<inUse, referenced, isDirty, tableVars, disk, pc, toSync>>
    /\ UNCHANGED <<local, chain, at, call, lost>>

\* MarkAsDirty goes by the block's id.
DoMark(b) ==
    /\ Begins("mark") /\ Handle(todo[1].of).block = b
    /\ IF Resident(b) THEN MarkAsDirty(b) /\ UNCHANGED lost
       ELSE lost' = TRUE /\ UNCHANGED vars
    /\ todo' = Tail(todo)
    /\ UNCHANGED <<local, chain, at, call>>

-----------------------------------------------------------------------------
(* Decisions                                                               *)

\* The call is at decision a and goes on with the statements s, then decision b.
Goes(a, s, b) == at = a /\ todo = <<>> /\ todo' = s /\ at' = b /\ UNCHANGED <<vars, lost>>

Begin(c, s, b) ==
    /\ pc = "idle"
    /\ Goes("idle", s, b)
    /\ call' = c
    /\ UNCHANGED <<local, chain>>

Add(b)    == Begin("add", Fetch(ControlBlock, "it") \o Fetch(b, "first"), "search")
Update(b) == Begin("update", Fetch(b, "first"), "update")
Remove(b) == Begin("remove", Fetch(b, "top"), "descend")

\* Add's loop over the list.
NextBlock(b) ==
    Goes("search", Fetch(b, "first"), "search") /\ UNCHANGED <<local, chain, call>>

NewBlock(new) ==
    /\ Goes("search", AllocateNewBlock(local["first"].block, new) \o Use("first") \o Fetch(new, "first"),
            "search")
    /\ UNCHANGED <<local, chain, call>>

\* allocateRecord: the first chunk goes to the block it is called with.
Allocate ==
    /\ Goes("search", Use("initial"), "chain")
    /\ local' = [local EXCEPT !["initial"] = local["first"], !["prev"] = local["first"]]
    /\ UNCHANGED <<chain, call>>

\* The record ends here.
Ends ==
    /\ Goes("chain", IF call = "add" THEN Mark("first") ELSE <<>>, "return")
    /\ UNCHANGED <<local, chain, call>>

\* allocateRecord's loops.  Until it fetches a block, recordBlock is prevBlock.
FromHere == IF at = "chain" THEN local["prev"] ELSE local["chunk"]

Seek(b) ==
    /\ \E a \in {"chain", "sought"} : Goes(a, Fetch(b, "chunk"), "sought")
    /\ UNCHANGED <<local, chain, call>>

SeekNew(new) ==
    /\ \E a \in {"chain", "sought"} :
          Goes(a, AllocateNewBlock(FromHere.block, new) \o Fetch(new, "chunk"), "sought")
    /\ UNCHANGED <<local, chain, call>>

PlaceHere == Goes("chain", Use("prev") \o Use("prev"), "chain") /\ UNCHANGED <<local, chain, call>>

Place == Goes("sought", Use("chunk") \o Use("prev"), "placed") /\ UNCHANGED <<local, chain, call>>

NextChunk ==
    /\ Goes("placed", <<>>, "chain")
    /\ local' = [local EXCEPT !["prev"] = local["chunk"]]
    /\ UNCHANGED <<chain, call>>

\* Another block's bytes may be what a handle shows.
Stale(h) == idToFrame[h.block] # h.frame

\* Update removes the chain first, whether that fails or not; SoftRemove marks nothing.
RemovesChain(c) == Goes("update", Fetch(c, "top"), "descend") /\ UNCHANGED <<local, chain, call>>

Rewrite ==
    /\ \E a \in {"update", "rewrite"} : Goes(a, Write("first") \o Use("first"), "chain")
    /\ local' = [local EXCEPT !["prev"] = local["first"]]
    /\ UNCHANGED <<chain, call>>

\* There is no such row, or it is not where the handle is.
UpdateFails ==
    /\ \/ Goes("update", <<>>, "return")
       \/ Goes("rewrite", <<>>, "return") /\ Stale(local["first"])
    /\ UNCHANGED <<local, chain, call>>

\* Remove goes down the chain, then removes its chunks from the last to the first; a
\* block left without records leaves the list.
Deeper(c) ==
    /\ Len(chain) < MaxChain
    /\ Goes("descend", Fetch(c, "top"), "descend")
    /\ UNCHANGED <<local, chain, call>>

RemoveChunk(s) ==
    /\ \E a \in {"descend", "unwind"} : Goes(a, Write("top") \o s, "pop")
    /\ UNCHANGED <<local, chain, call>>

AfterRemove == IF call = "update" THEN "rewrite" ELSE "return"

Pop ==
    /\ Goes("pop", <<>>, IF Len(chain) > 1 THEN "unwind" ELSE AfterRemove)
    /\ chain' = SubSeq(chain, 1, Len(chain) - 1)
    /\ UNCHANGED <<local, call>>

\* An error goes up the whole recursion: there is no such row, it is not where the
\* handle is, or a fetch failed.
RemoveFails ==
    /\ \/ call = "remove" /\ Len(chain) = 1 /\ Goes("descend", <<>>, AfterRemove)
       \/ Goes("unwind", <<>>, AfterRemove) /\ Stale(Handle("top"))
       \/ Goes("failed", <<>>, AfterRemove)
    /\ chain' = <<>>
    /\ UNCHANGED <<local, call>>

Return ==
    /\ at = "return" /\ todo = <<>>
    /\ NoCallIsLeft
    /\ UNCHANGED <<vars, lost>>

\* The process ends, at any point of a call, or at its end when Update finds another
\* local id than it asked for (record_allocator.go:245-247).
Dies == Crash /\ NoCallIsLeft /\ UNCHANGED lost

-----------------------------------------------------------------------------

Statement ==
    \/ \E b \in Blocks : DoFetch(b) \/ FetchFails(b) \/ DoMark(b)
    \/ \E v \in Values : DoWrite(v)

Adding ==
    \/ \E b \in InsertBlocks : Add(b) \/ NewBlock(b) \/ SeekNew(b)
    \/ \E b \in RecordBlocks : NextBlock(b) \/ Seek(b)
    \/ Allocate \/ Ends \/ PlaceHere \/ Place \/ NextChunk

Updating ==
    \/ \E b \in InsertBlocks : Update(b)
    \/ \E b \in RecordBlocks : RemovesChain(b)
    \/ Rewrite \/ UpdateFails

Removing ==
    \/ \E b \in InsertBlocks : Remove(b)
    \/ \E b \in RecordBlocks : Deeper(b)
    \/ RemoveChunk(<<>>)
    \/ \E p \in InsertBlocks, n \in RecordBlocks : RemoveChunk(RemoveFromList(p, n))
    \/ Pop \/ RemoveFails

HeldNext ==
    \/ Statement \/ Adding \/ Updating \/ Removing \/ Return \/ Dies
    \/ at = "idle" /\ Next /\ UNCHANGED <<callVars, lost>>

HeldSpec == HeldInit /\ [][~lost /\ HeldNext]_heldVars

-----------------------------------------------------------------------------
(* Properties                                                              *)

\* No call marks a block that is no longer on the buffer (data_buffer.go:93-96),
\* after it wrote to a frame that another block may have got.
MarksWhatIsResident == ~lost
=============================================================================
