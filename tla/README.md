# A verification development for simple-json-db

simple-json-db stores JSON records in one file of 4 KB blocks. A record has a
32-bit id chosen by the caller; its bytes lie in *record blocks*, cut into chunks
if they do not fit one, and a B+ tree from record ids to row ids, in *index
blocks* of the same file, finds the first chunk. All blocks are read and written
through a buffer of 256 frames. There is no log, and one thread executes one call
at a time.

This directory holds TLA+ specifications of the parts of that program, the TLC
configurations that check small instances of them, and TLAPS proofs of what holds
for every instance. Source paths below are relative to `src/src/`.

## Components

| component | source | state | operations | what makes it correct |
|---|---|---|---|---|
| data file | `simplejsondb/dbio/data_file.go` | the blocks on disk | read, write, both of which may fail | pure I/O; here a function from blocks to contents, zeros when new |
| block buffer | `dbio/data_buffer.go`, `data_block.go` | frames with in-use, reference and dirty bits, block-to-frame table, clock queue | `FetchBlock`, `MarkAsDirty`, `Sync` | table, queue and frames agree; a block that is recycled is on disk; what `Sync` acknowledged survives |
| blocks map | `core/data_blocks_map.go`, `dbio/bit_map.go` | a bitmap in blocks 1 and 2 | `FirstFree`, `MarkAsUsed`, `MarkAsFree`, `AllInUse` | no block has two owners, freed blocks come back |
| record block | `core/record_block.go` | a slotted page: bytes from the front, 12-byte headers from the back, utilization, header count, links | `Add`, `Remove`, `SoftRemove`, `Clear`, `ReadRecordData`, chained row ids, defragmentation | records never overlap, read back, and the space count is exact |
| record allocator, loader | `core/record_allocator.go`, `record_loader.go`, `data_block_repository.go` | a doubly linked list of record blocks, chains of chunks | `Add`, `Remove`, `Update`, `Load` | chains read back whole, the list stays linked, blocks and chunks come back, calls return |
| control block, formatter | `core/control_block.go`, `data_file_formatter.go` | first record block, next available block, index root, first leaf | `Format`, setters | a formatted file is what the other parts start from, also when formatting was cut short |
| B+ tree | `bplustree/bplus_tree.go` | a tree of nodes, leaves chained | `Insert`, `Delete`, `Find`, `All` | finds exactly what was inserted; nodes at least half full; links agree |
| index nodes | `core/uint32_index_node_adapter.go`, `uint32_index.go` | nodes in blocks, links as block ids | create, load, free, entries in, out and over to a new node | what the tree expects of a node; blocks given back; changes marked |
| in-memory nodes | `bplustree/in_memory_adapter.go` | nodes as slices of entries | the same | the tree is tested with these nodes: the ones in blocks must not differ from them |
| actions, database object | `actions/*.go`, `simple_json_db.go` | none of their own | open, insert, update, delete, find, search, close | index and record blocks agree; a reopen loses nothing, a crash nothing of other records |
| console, debugger, test support | `cmd/sjdb-cli`, `bplustree/debugger.go`, `test_utils` | | | pure I/O, not modelled |

An action (say, insert) asks the index whether the id is there, has the allocator
write the chunks, then inserts the row id into the index. Allocator and index both
take blocks from the blocks map; all of them change blocks in place in the frames
that `FetchBlock` hands out, and call `MarkAsDirty` afterwards, or forget to. There are
no threads, callbacks or messages: what is hard here is *long sequences of legal
calls*, state that is left over in recycled blocks, changes nobody marked, blocks
evicted in the middle of a call, failures and crashes in the middle of an eviction or
a sync, and the agreement of structures that describe the same blocks.

## Modules

| module | models | state ↔ code |
|---|---|---|
| `BlockStore` | what the buffer promises: contents that can be written, marked, flushed and dropped | `cache`, `disk` and which blocks are resident, dirty or not; no frames, no clock |
| `DataBuffer` | `data_buffer.go`, one action per path through `FetchBlock` (hit, free frame, eviction, each failing file call), `MarkAsDirty`, and the loop of `Sync` one block at a time; `Crash` throws the memory away | `inUse`, `referenced`, `isDirty`, `data` are the fields of `bufferFrame`; `idToFrame`, `nextVictims` those of `dataBuffer` |
| `HeldBlocks` | `Add`, `Update` and `Remove` with all they call, as the sequence of their fetches, writes and marks over `DataBuffer` | `local`, `chain`: the handles in the calls' variables and on the stack of `Remove`, each a block and the frame it was given; `todo`: the statements up to the next decision of the code, `at`: which one that is |
| `BitMap` | which bit of the bitmap stands for which block (`bit_map.go`) | operators only |
| `DataBlocksMap` | the bitmap, and clients that allocate and free | `bits`; `held` is who believes to own what |
| `RecordBlock` | the record block as operators on a page, one per function of `record_block.go`, including what `SoftRemove` writes past its header and the byte-by-byte copying of `defragment` | a page is a record: bytes, headers, `used`, `next`, `prev` |
| `RecordPage` | one record block under any sequence of the allocator's inserts, updates and deletes | `page`, and what it should hold: `chunk`, `local` |
| `RecordAllocator` | `Add`, `Update`, `Remove` as the rounds of their loops and the levels of their recursion, over `RecordBlock` and `DataBlocksMap`; the index as another client of the map | `pages`, `first`, `avail` (control block), `rows` (what the index maps ids to), `dirty` (blocks `MarkAsDirty` was called for), `op` (the call: program counter and locals) |
| `Database` | `simple_json_db.go` over its file: format, open, close, write back and eviction of any block at any time, a crash between any two steps; the calls are `RecordAllocator`'s | `disk`: the blocks in the file; `synced`: the records nobody named since the last close |
| `BPlusTree` | the tree on the nodes of the index node adapter; each function of `bplus_tree.go` is an operator on a whole tree, a call is one action | `tree` (nodes, blocks in use, bitmap, root, first leaf, nodes marked), `present`: the keys inserted and not deleted since |
| `IndexFile` | the tree across a close and an open: what was marked is in the file, what was not is as it was before | `file`, `dirty` |
| `NodeContract` | what the tree expects of one node (`exports.go`): keys in order, items or children, and what each operation does to them | `node`: keys and items as the tree sees them |
| `IndexNodes` | one node under every operation, side by side in its block (`uint32_index_node_adapter.go`) and in memory (`in_memory_adapter.go`) | `block`: the cells; `memory`: the slice of entries; `misdeleted`: whether a branch has lost an entry in its middle, where the adapters differ |
| `MC*` | the instances TLC checks | |
| `DataBufferProofs`, `HeldBlocksProofs`, `DataBlocksMapProofs`, `RecordPageProofs`, `RecordAllocatorProofs`, `IndexNodesProofs`, `DatabaseProofs` | theorems | |
| `RecordBlockProofs` | lemmas about the operators of `RecordBlock` | |

How they are put together: `DataBuffer` implements `BlockStore` (`Implements`), and
`HeldBlocks` EXTENDS it. `RecordAllocator` composes `RecordBlock` (EXTENDS) with
`DataBlocksMap` (INSTANCE) and uses the map as its specification allows (`UsesMap`);
`Database` EXTENDS `RecordAllocator` and adds the file. `BPlusTree` uses the same
bitmap (`BitMap`, and `DataBlocksMap`'s invariants) and `IndexFile` EXTENDS it.
`IndexNodes` implements `NodeContract` (`KeepsContract`).

Definitions named `X_Something` next to a definition `X` are wrong variants of it.
They are used by no specification; with `X` replaced by one of them the property
it is listed with in `PROJECT.json` fails, which shows that the property can fail.

## Abstractions

- Data of a record is a sequence of bytes `<<id, length, position>>`, so that a byte
  in a wrong place is seen; contents of buffer blocks are two values.
- Sizes are scaled: a page of 7 to 12 bytes with headers of 2 bytes and 1 byte of
  fixed fields has room for the same cases as one of 4096, 12 and 8: two or three
  records in a block, a record that ends exactly at its end, one that needs two
  blocks. A record id is a number; its low half, which `SoftRemove` keeps of the
  neighbour's id, is `id % LowIDs`.
- Bytes that belong to no record are set to `ZeroByte` after each step of a page.
- `sort.Sort` of headers is not stable: `Orders` has every order of headers with
  equal starts, and the model takes any.
- `HeldBlocks` has no contents but two values: whether a block has room, which block is
  next, whether the record goes on are any answer, since what a stale handle shows may be
  another block's bytes. A call's order of fetches, writes and marks is the code's.
- `BPlusTree` moves an entry (key and row id) as one thing. The block a node gets is the
  one `FirstFree` gives; the index is the only client of the bitmap there.
- One call is one step in `BPlusTree`, since nothing can come between, and several
  in `RecordAllocator`, so that a loop that does not end is a behaviour.
- `IndexNodes` cuts a block into one cell per field, whatever its width, and the block
  is no larger than a full branch needs. A new node's block holds zeros, one value
  everywhere, or what a full node left there.
- In `Database` the two blocks of the map are one, and the index is one leaf (up to 510
  records): its block is taken by the first insert and written like any other. The
  buffer is `BlockStore`'s, without frames: between calls it drops any block that is
  not dirty, and it writes a dirty one back at any step.

## Runs

Pass:

| run | instance | shows |
|---|---|---|
| `data_buffer` | 3 frames, 4 blocks, 2 contents, symmetric blocks | `FrameTable`: every in-use frame belongs to one resident block, every resident block is once in the clock queue. `CleanMeansOnDisk`, `SyncedIsDurable`: a clean block is on disk, and so is what a returned `Sync` covered, whatever evictions, failed reads and writes and crashes follow. `Implements`: the buffer is a `BlockStore`. Three frames are the least in which the clock clears bits, wraps and rotates past a victim in the middle; a fourth block makes it evict. |
| `record_allocator` | blocks 3 to 7 of 7 bytes, 2 records of 1 or 8 bytes, one of them with an id that has a high half, one index block | chains over two and three blocks read back also while another call is half way (`ReadBack`), chunks share no byte and the utilization is exact (`Layout`, `UtilizationIsExact`), the list is linked both ways (`ListIsLinked`), empty blocks and all chunks are given back (`NoEmptyBlock`, `NoOrphans`), the map is used as specified (`UsesMap`); liveness, `SafeCallsReturn`: every call returns, or comes to a state in which a known defect strikes. |
| `database` | the same blocks, 2 records of 1 or 5 bytes, 3 calls | `ReadsBack`: an open database answers as the calls left it, however often blocks are evicted and the file is closed and opened, although `Remove` marks nothing of what it changes. `SyncedSurvives`: a crash in the middle of any call and of any write back spares the records that no call named since the last `Close`. `OwnedIsInUse`: what somebody owns is in use in the map, also after formatting was cut short before the control block was written. `ListIsLinked`, now across reopens. Three calls are the least in which a removed header comes back and its space is used again; a record of 5 shares its second block with the other one. |
| `index` | nodes of 4 keys; trees of 1 to 3 levels made of up to 17 keys in different orders, then 6 of the keys in and out in any order; 24 blocks, 4 of them formatted | `FindsWhatIsPresent`, `AllVisitsInOrder`, `WellFormed`, `SiblingsAgree`, `NoNodeLeaks`. From an empty tree the keys split and merge leaves; from the loads with three levels, deletes borrow from the right and from the left branch, merge branches and take the root off. `HeldIsInUse`, `NothingLeaks`: the bitmap has the nodes in use and nothing else, although blocks 8k and 8k+1 share a bit; three bytes of it give pairs that the tree takes and gives back. |
| `index_nodes` | nodes of 4 keys in 14 cells, 5 keys, left-over cells of zeros, of one value or of a full node, six operations from creation to end | `AdaptersAgree`: block and memory show the tree the same node after every operation, splits included, until a branch loses an entry in its middle. `ChildrenShared`: entries in memory agree on the child between them, also after such a delete. `KeepsContract`: the node in memory is what `NodeContract` says under every operation; so is the one in its block as long as they agree. Five keys overfill a node of four, so that every insert position of a split occurs; six operations fill it, split it and go on with either half. |

Violations: what the code does against what its tests and comments say.

| run | property | what happens |
|---|---|---|
| `data_blocks_map` | `NextPositionIsFree` | with blocks 0 to 8 in use the first free one is 10: 9 has the bit of 8. The map's own test expects each time the block behind (`data_blocks_map_test.go:54-58`) |
| `record_page_empty_chunk` | `ReadBack` | an update on a full block leaves the record's first chunk with no bytes; `defragment` takes its header for the gap of a removed record and moves other records over each other |
| `record_page_wide_ids` | `LocalIDStays` | `SoftRemove` clears the high half of the id in the header above; that record's own update takes another header, and the assertion on its local id fails (`record_allocator.go:245-246`). `LowIDs = 2` makes every id from 2 on wide |
| `record_allocator_hang` | `CallsReturn` | a block that was on the list keeps its `next`; allocated again as the last one it closes a cycle, and the search for space never ends |
| `index_misdelete` | `FindsWhatIsPresent` | `DeleteAt` in the middle of a branch takes the pointer to the left of the key; after a leaf merge that is the leaf that has the keys |
| `index_reopen` | `FindsWhatIsPresent` | `ReplaceKeyAt` does not mark the branch: after a delete that borrows from the right, `Close` and `New`, the old separator leads a lookup to the wrong leaf. Five keys in nodes of 4 are enough |
| `held_blocks` | `MarksWhatIsResident` | with 2 frames, an update fetches the block of the next chunk, which evicts the block it rewrites; `SoftRemove` and `Add` go through the old handle into the frame of another block, and `MarkAsDirty` panics. Two frames keep the run small, and the sweep of 256 works the same; 3 frames take TLC beyond minutes. `FileFails` is `FALSE` here and free in the proofs |

`SafeSpec` (`RecordPage`, `RecordAllocator`, `BPlusTree`), `DBSafeSpec` and `FileSpec`
leave out the steps in which a known defect strikes, and nothing else, so that the
runs say what holds besides. They are: an update that writes no byte to its first
block (`NoEmptyChunk`, `EmptyChunk`), an update that cuts the id in the header above
(`IdCut`), a soft remove at local id 0 of a block that is not the first, which zeroes the
`prev` link (`PrevLost`), the allocation of a block with an old `next` (`Reuse`), a full
file, where `FirstFree` answers with the control block (`Exhausted`), a branch delete that
takes the left pointer (`misdeleted`), and a file whose control block is formatted and whose
map is not (`HalfFormatted`). `index` has at most three levels, where `SiblingsAgree`
holds. `IndexNodes` leaves no operation out: it has the delete in the middle of a branch,
and only what compares the block with memory (`AdaptersAgree`) is about nodes that have
not been through one.

`record_page` and `data_blocks_map` have runs for their violations only. What holds of them
is checked where they are used: pages in `record_allocator` (`Layout`, `UtilizationIsExact`,
`ReadBack`), the map in `index` and `record_allocator`; and proved of each alone.

Deadlock is checked for `data_buffer`, `data_blocks_map` and `held_blocks`. The others
may stop: in a state a defect has been reached or, in a `SafeSpec`, every next call
would reach one; bounds on calls are reached (`database`, `index_nodes`).

### Fairness

Only `record_allocator` (`SafeCallsReturn`) and `record_allocator_hang` need it: weak
fairness of `Step`, the next step of the call being executed. The database is
sequential and a call runs to its end in the caller's goroutine, so the step it is at
is taken. No fairness is assumed of calls, of the index, or of anything in the other
modules: the buffer writes and drops blocks when it likes, or never.

### Known defects

What the models show of the code, beside the runs that end in a violation:

- *Wide ids.* `SoftRemove` (`record_block.go:193`) writes 4 bytes to 2-byte fields. The
  second half falls on the neighbour header's id, whose high half becomes 0, so that
  ids of 2^16 and more take another header at their next update (run
  `record_page_wide_ids`); at local id 0 it falls on the `prev` link. `IdCut` and `PrevLost`
  are left out of the other runs: ids may be wide there too, only the update that cuts one
  is not taken.
- *Unmarked `Remove`.* `Remove` marks none of the blocks it changes. Within the bounds
  of `database` this does no harm: what comes back are headers of records that neither
  the index nor the list leads to, or whose chunk is emptied again.
- *Unmarked branches.* `DeleteAt`, `Shift` and `ReplaceKeyAt` of a branch mark nothing
  (run `index_reopen`).
- *Half-formatted file.* A crash in the formatter's `Sync` after the control block and
  before the map leaves a file that is taken for formatted and whose first allocation
  is the control block.
- *Stale siblings.* In a tree of four levels a branch keeps a left link to a freed
  branch, since `mergeBranches` tells only siblings under the same parent; later it is
  merged into the freed block. With nodes of 680 and 510 entries four levels take tens
  of millions of keys; users of the package with smaller nodes get there.
- *Footers.* A leaf of 510 entries reaches byte 4088, the first of a record block's
  `prev` link, and a branch of 680 entries byte 4090, the first of `next`. After a split,
  entries that were cut off stay behind the others and are moved on by later inserts and
  deletes, over these fields. `allocateNewBlock` sets only `prev`, so a freed node that
  becomes a record block may have any `next`, header count and utilization. This is read
  from the code; the models keep the blocks of nodes and of records apart.
- *Second blocks of a pair.* Blocks 9, 17, 25 and so on are never handed out (run
  `data_blocks_map`), which costs an eighth of the file and, since a block's partner is
  never held, nothing else (`PartnersAreNeverHeld`).
- *Evicted handles.* Run `held_blocks`; `HeldBlocksProofs` says which handles are concerned.
- *Record id 0* marks a removed header; `Insert` accepts it.

## Proofs

`DataBufferProofs`, for every `Size \in Nat \ {0}`, every set of blocks and of values
(the assumptions are the three of `DataBuffer`):

- `TypeCorrect`, `FrameTableHolds`, `CleanIsOnDisk`, `SyncIsDurable`: the invariants
  of run `data_buffer`.
- `ImplementsStore`: `Spec => Implements`.

The invariants are not inductive one by one. That an eviction finds a frame, and the
right one, needs the table to be consistent; that the loop of `Sync` does not write
garbage needs every block it still has to write to be resident; that
`SyncedIsDurable` survives an eviction needs clean blocks to be on disk. So `Inv`
is the conjunction of `TypeOK`, `FrameTable`, `SyncCoversDirty` (while `Sync` runs, the
dirty blocks are among those it has still to write) and `DiskInv` (both
durability claims, for each block), and each conjunct has a lemma that it is
preserved. `NextVictimsFacts` and `ListingAfterEviction` are about the sequence: taking out
position p and turning the rest keeps every other block once. `StoreStep` maps every
step to one of `BlockStore` or a stutter.

`HeldBlocksProofs`, for every number of frames, blocks and chunks, and fetches that fail,
says how far the defect of run `held_blocks` goes. Of the handles of `Add`, `Update`
and `Remove`, those in `Strict` are used before another block is fetched (a block that is
touched and left, a block that `allocateRecord` has just found, the one `Add` starts it on);
the insert block, the block `Update` rewrites, the previous chunk's and those on the
stack of `Remove` are kept over fetches.

- `FreshWritesStay`: a write through a handle of the first kind changes its block and no
  other.
- `OnlyKeptPanic`: `MarkAsDirty` panics in no other place than `record_allocator.go:60`, `:65`,
  `:82` when `Update` calls it, and `:118`.
- `StaleWritesKeepTheBuffer`: `FrameTable` and `SyncedIsDurable` hold all the same.

Its invariant `HeldInv` (`HandlesHold`) is the buffer's `Inv`, whose step lemmas it takes from
`DataBufferProofs`, with `CallInv`: in the statements a call has still to execute, each use
of a strict handle comes right behind the fetch of its block or another use (`Follows`), the
next one finds its block where the handle says (`HeadFresh`), and what a decision looks at
is what was fetched last (`Awaits`). That this survives a decision is about sequences:
`FetchIs` to `RemoveFromListIs` show it of each part of a call, `Joined` of one part behind
another, `Rest` of what is left after a statement. These three are no run's properties:
`held_blocks` is there for the violation.

`DataBlocksMapProofs`, for maps of every size (a multiple of 8): `TypeCorrect`,
`HeldBlocksAreInUse`, `NoBlockLeaks`, `PartnersAreNeverHeld` and `AllocationIsExclusive`. The key
is `SharedBit` (two positions share a bit only if they are 8k and 8k+1) and the
invariant that of such a pair only one is held, save the pair (0, 1) of the formatted
blocks, which are never freed; `FirstFreeIsFirstOfPair` gives it back at each
allocation.

`RecordPageProofs`, for blocks of every size, headers of every size, and records of every
length:

- `PageTypes`, `RecordsReadBack`, `RecordsDoNotOverlap`, `UtilizationStaysExact` and
  `UpdatesStayPut`: the properties of `RecordPage`.

They are about `SafeSpec`, which leaves out an update that writes no byte and one that cuts
the id of its neighbour, the two steps runs `record_page_empty_chunk` and
`record_page_wide_ids` show; ids themselves are any numbers. None of the properties is inductive. `Add` puts a record at
the address that utilization gives, so that it lands on nobody only if the records lie without a
gap from the start of the block once `defragment` has run; and `defragment`, which copies
byte by byte, finds the gaps by the sizes that removed headers still have. `PageInv` says therefore
(`Packed`) that the extents of *all* headers, removed ones too, fill an interval from
address 0 with no byte twice (`Fill`), that utilization counts the headers in use
(`Counted`), and that a header in use is its record's (`RecordsAre`). TLC checked it on a
small instance before it was proved.

`RecordBlockProofs` has the lemmas, one chain per function of `record_block.go`: what a
round of `defragment` does to the extents and to the bytes behind the gap (`CopyBytes`
never reads a byte it has overwritten, since it only copies downwards), that after the
last round no gap is left, that the record `Add` writes is behind all others, and what
`Remove`, `SoftRemove` and `Clear` leave. `Defragment` and `ShiftAll` are recursive
functions; what they compute is shown with least counterexamples (`LeastNatural`), since
the library's induction theorems are out of reach.

`RecordAllocatorProofs`, for files, blocks and records of every size and any number of
records with ids of any width, up to the states of `Defect`:

- `AllocatorTypes` (no call panics), `ListStaysLinked`, `EmptyBlocksLeave`,
  `ChunksDoNotOverlap`, `UtilizationsStayExact`: invariants of run `record_allocator`;
- `RecordsReadWhole` and `NothingOrphaned`: `ReadBack` and `NoOrphans` of the same run;
- `AllocatorUsesMap`: the refinement of `DataBlocksMap`, `SafeSpec => Map!Spec`.

A call is many steps, and between them a record is half written or half removed, its
chunks name rows on blocks that have left the list, and blocks are appended behind the
one a chunk is wired from. `AllocInv` therefore looks at the file in three layers. A
*page* is in order (`PageOK`, on the lemmas of `RecordBlockProofs`: `PlaceOnPage`,
`RewriteOnPage`, `RemoveOnPage`, `WireOnPage` say what each operation does to the function
`Entries` from headers to chunks). The *list* (`ListIs`) has a rank for each block, which
grows along `next`; ranks are an existential witness of the invariant, so that an appended
block gets a new one and a block that is cut out changes none. The *chunks* of all
blocks are one function, `Chunks`; those of a record have growing ranks and each is
chained to the next, with none in between (`Linked`, `ChainIs`), which needs no
induction over the chain. `OpIs` says for each place of a call how far it has come:
what is placed is a chain whose last chunk lies before the block to be tried
(`Placing`), and what is left to remove is on the stack or behind it, in order
(`Descending`, `Removing`). From the ranks it follows that a call never puts two chunks of a
record on one block, whose header the second would overwrite (`PlaceStep`). Each
action has a lemma (`InsertStep` to `RewriteStep`); the map's part is
`DataBlocksMapProofs` again. TLC checked the parts of `AllocInv` on the run's instance
before they were proved, with ranks computed from the list.

`AllocInv` says where the chunks of a record are, not what is in them. `TextInv`, a second
layer that is inductive on top of it (`TextInvariant`), does: of every record there is a
function that gives each chunk its offset in the content; the first chunk has offset 0, each
chunk holds the content from its offset on, and its successor begins right behind it
(`Spelled`, again an existential witness, so that nothing follows a chain by induction).
`CallTold` is the same for the record a call is busy with: what `Add` has placed spells the
first n bytes of the data and `rest` is the others, where n is 0 until an update has
removed the old chunks and rewritten the first. Records the call is not about keep
their chunks (`Others`), hence their text. `Load` is a recursive function over a chain:
after k rounds it has read the chunks whose blocks have lower ranks than the next one's, on
k different blocks (`LoadedBefore`), so that it ends before it runs out of rounds, with
the content and every row of the record. From that, and since every chunk belongs to
a record of the index or to the call (`AllocInv`), `NoOrphans` follows.

`IndexNodesProofs`, for nodes of every capacity from 4 on, every block that has room
for a full leaf and a full branch, and any left-over cells (`NodesAssumption`):

- `TypeCorrect`, `Agreement`, `SharedChild`: the invariants of run `index_nodes`, without its
  bound of six operations.

`AdaptersAgree` is not inductive: it looks at the block up to the last entry and at
keys and children only, while an operation moves the cells behind, and in memory
reads a child now from one entry and now from its neighbour. `Inv` says that memory has
what *some* block has (`NodeIs`): *every field of every entry* (`LeafHas`, `BranchHas`), so
that a child shared by two entries is one cell, and the links in the header cells. That
block is this one unless `misdeleted`, the history of a middle delete of a branch; of a
block that was misdeleted only the number of keys is still right (`Sized`), which is what
the tree decides splits and merges by. Each operation has a lemma that
says where its cells end up, against the sequence in memory: `LeafInsertIs`,
`LeafDeleteIs`, `LeafSplitIs`, `BranchInsertIs`, `BranchUnshiftIs`, `BranchShiftIs`,
`BranchDeleteIs`, `BranchReplaceIs`, `BranchSplitIs`; the steps of the invariant only cite
them. `SharedArray` is the one about slices: what an insert into the left half writes
over the entries that were cut off is the entry that goes to the parent, never one
of the new node.

Its second part has, for the same nodes, `ContractKept`: `Spec => KeepsContract`, middle
deletes included. With `Agreement`, what is in a block is what `NodeContract` promises the
tree until a branch in a block loses an entry in its middle; from then on only the node
in memory keeps the promise.

The contract speaks of keys and of items or children, one more than keys, the adapters of
entries that have both. `KeysPut`, `ItemsPut`, `BranchPut`, `BranchTake`,
`BranchShiftTakes`, `BranchUnshiftPuts` say what each operation on entries is on keys and
children; `LeafHalves` and `BranchHalves` that a split of a full node, wherever the new
entry goes, gives the two halves of all entries, less the key between two branches. A
branch needs `Shared` for that, from `Inv`: the child an operation takes out of one
entry is the one its neighbour has too. `ContractInv` adds that keys are in order, which a
replaced separator relies on; and `BlockIsFree` that the file has a block for a new
child, since a node and one more entry use at most `Capacity + 1` of them and
`NodesAssumption` gives the file more (tens of thousands against 681 in the code).

`DatabaseProofs`, for files, blocks and records of every size and any number of records
and calls, up to the states of `Defect` and `HalfFormatted`:

- `OwnedBlocksInUse`: `OwnedIsInUse` of run `database`.

Two positions of the map share a bit, so a block that is freed by mistake may take an owned
one with it, and nothing in the code forbids that: `Remove` frees the block a row id names,
the row id comes from a header, and the header from a page that may have been read again
from the file as it was before changes nobody marked. `DBInv` therefore does not say what
is on the pages (which `AllocInv` does, and which is not so after an eviction) but what
follows from any mixture of old and new ones: a row id or a next link, in any copy of any
page, in memory or in the file, names a block the map hands out, which is never the second
of a pair (`FineBlocks`, `FinePage`). Every operation of the page keeps that, `Add`
with its defragmentation and `SoftRemove` with what it writes behind its header included
(`AddFine` to `ChainedFine`), and so does every way pages change (`WroteOnFine`,
`AppendedFine`, `CutOutFine`). With it a block that is freed, owned or not, is the first of
its pair, and nobody owns the second (`MapFreed`).

`InFile` ties the file to memory: the map, the control block and the leaf are in the file as
they are in memory unless they are marked, so that `Close` changes none of them. `NewFile`
and `FormattingInv` are the phases before the first opening: the map in the file is
either not there or the formatted one, and the control block likewise, in any
combination; `~HalfFormatted` excludes the one that is opened with no map. `OpFine` says
what a call goes by half way: among others that an update returns to the row the index
has, and that a record can only be deleted if the index has a leaf, whose mark keeps the
rows in the file behind those in memory. TLC checked `DBInv` on the run's instance
before it was proved.

Only model-checked: liveness (fairness and ENABLED are outside the prover's reach);
`DBTypeOK`, `ReadsBack` and `SyncedSurvives` of `Database`; and everything about `BPlusTree`.
The tree's search and rebalancing are recursive operators, and what they compute for all
trees is an induction over data, which is out of reach as well. The three invariants of
`Database` are about what is on pages of which some copies are old: they need `AllocInv` and
`TextInv` for a file and a memory that differ in what `Remove` did not mark.

## Not modelled

- A tree of several nodes inside `Database`: there the index is one leaf, and splits and
  merges of nodes over the file are in `IndexFile` (no crash: a node that is written
  late and its neighbours' links would take the tree's calls apart into steps).
- Failing file calls in the middle of the allocator's calls, but for `HeldBlocks`, whose proofs
  let any fetch fail: the repository panics on them, and what the buffer leaves is in
  `DataBuffer`.
- Evictions in the middle of the tree's calls: it holds the nodes of a split or a merge as
  the allocator holds its blocks in `HeldBlocks`.
- The map of nodes, the root and the first leaf of the in-memory adapter: the program
  has them in the control block.
- Record id 0, which marks a removed header.
- Search beyond `All` and `Load`: it compares a field of each record's JSON. JSON parsing,
  the console, the debugger, finding, opening and seeking the file.
- Node capacities below 4 (`TreeAssumption`, `NodesAssumption`): half a node would be one
  key or none. Bitmaps whose size is no multiple of 8 (`bit_map.go:39`), which the program
  never makes.

## Plan

Done: `DataBuffer` over `BlockStore`, `DataBlocksMap`, with proofs; `RecordBlock`,
`RecordPage`, with proofs; `RecordAllocator`, with proofs; `BPlusTree`; persistence and crashes
(`Database`, with a proof, and `IndexFile`); handles (`HeldBlocks`), with proofs; layouts of nodes
(`IndexNodes`) and what the tree expects of them (`NodeContract`), with proofs.

Left:

1. Proofs of `ReadsBack` and `SyncedSurvives`: `AllocInv` and `TextInv` up to chunks that were
   removed and came back from the file, on top of `DBInv`.
2. The tree's calls as steps over nodes on file, for crashes in the middle of a split.
3. The number of frames each call needs at least, tree calls included, over `DataBuffer`.

## Reproducing

    tlc -workers 2 -config MCDataBuffer.cfg MCDataBuffer.tla
    tlapm DataBufferProofs.tla

and likewise for the other pairs in `PROJECT.json`, which lists every run, the
source lines of every definition, the wrong variants and the property each breaks,
the findings and the hazards.
