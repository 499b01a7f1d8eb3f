-------------------------- MODULE HeldBlocksProofs --------------------------
(***************************************************************************)
(* What is safe about the handles of HeldBlocks, for every number of       *)
(* frames, blocks and chunks: whatever is written through stale handles,   *)
(* the buffer's table stays consistent and what a Sync acknowledged stays  *)
(* on file; and of all the writes and marks of Add, Update and Remove,     *)
(* those through the handle fetched just before always reach their block.  *)
(* The buffer's own steps are DataBufferProofs'.                           *)
(***************************************************************************)
EXTENDS HeldBlocks, DataBufferProofs

\* The handles no call keeps over a fetch of another block: those of a block that is
\* touched and left, of allocateRecord's initial block when Add calls it, and of the
\* block that its loop has just found.
Strict == {"it", "control", "initial", "chunk"}

\* A write through one of these changes its block and no other
\* (record_allocator.go:81, 112, 134-145, 198, 209, 214, 222).
ChangesItsBlock ==
    [][\A v \in Values : DoWrite(v) /\ todo[1].of \in Strict =>
          \A b \in Blocks : b # local[todo[1].of].block => Content(b)' = Content(b)]_heldVars

\* MarkAsDirty (data_buffer.go:93-96) panics in no other place than those that go by
\* the insert block, by the block Update rewrites, or by the previous chunk's
\* (record_allocator.go:60, 65, 82 called from 244, 118).
PanicsOnKept ==
    [][lost' # lost => todo[1].op = "mark" /\ todo[1].of \in {"first", "prev"}]_heldVars

-----------------------------------------------------------------------------
(* The invariant                                                           *)

Handles == [block : Blocks \cup {ControlBlock}, frame : Frames]

Named ==
    Blocks \cup {ControlBlock, FirstMap, SecondMap}
           \cup {MapOf[b] : b \in Blocks \cup {ControlBlock, FirstMap, SecondMap}}

\* Remove marks nothing.
Statements ==
    {s \in [op : {"fetch", "write", "mark"}, block : Named, of : Names \cup {"top"}] :
        s.op = "mark" => s.of # "top"}

UsesStrict(s) == s.op # "fetch" /\ s.of \in Strict

\* A block is used through a strict handle right behind its fetch or another use.
Follows(t) ==
    \A i \in 1 .. Len(t) - 1 :
        UsesStrict(t[i + 1]) => t[i].of = t[i + 1].of /\ t[i].op # "mark"

NotTop(t) == \A i \in 1 .. Len(t) : t[i].of = "top" => t[i].op = "fetch"

EndsWith(t, x) == t # <<>> /\ t[Len(t)].op = "fetch" /\ t[Len(t)].of = x

Fresh(h) == h.block \in Blocks /\ idToFrame[h.block] = h.frame

\* What decisions look at, fetched by the statement before.
Awaited == [a \in {"search", "sought", "descend"} |->
               IF a = "search" THEN "first" ELSE IF a = "sought" THEN "chunk" ELSE "top"]

Got(x) == (x = "top" => chain # <<>>) /\ Fresh(Handle(x))

Typed == local \in [Names -> Handles] /\ chain \in Seq(Handles) /\ todo \in Seq(Statements)

HeadFresh == todo # <<>> /\ UsesStrict(todo[1]) => Fresh(local[todo[1].of])

ChainHeld == (at \in {"unwind", "pop"} \/ ~NotTop(todo)) => chain # <<>>

Awaits ==
    at \in DOMAIN Awaited => IF todo = <<>> THEN Got(Awaited[at]) ELSE EndsWith(todo, Awaited[at])

CallInv == Typed /\ Follows(todo) /\ HeadFresh /\ ChainHeld /\ Awaits /\ (at = "idle" => todo = <<>>)

HeldInv == Inv /\ CallInv

\* Frames are numbers.
LEMMA FramesAreNotNone == None \notin Frames
BY NoneAssumption, SizeAssumption DEF Frames

-----------------------------------------------------------------------------
(* Sequences of statements                                                 *)

Sound(t) == t \in Seq(Statements) /\ Follows(t) /\ (t # <<>> => ~UsesStrict(t[1]))

\* One part of a call behind another.
LEMMA Joined == ASSUME NEW s, NEW t, Sound(s), Sound(t) PROVE Sound(s \o t)
<1> DEFINE st == s \o t
<1>1. s \in Seq(Statements) /\ t \in Seq(Statements) /\ Len(s) \in Nat /\ Len(t) \in Nat
  BY DEF Sound
<1>2. st \in Seq(Statements) /\ Len(st) = Len(s) + Len(t)
      /\ \A i \in 1 .. Len(s) + Len(t) : st[i] = IF i <= Len(s) THEN s[i] ELSE t[i - Len(s)]
  BY <1>1, ConcatProperties
<1> HIDE DEF st
<1>3. ASSUME NEW i \in 1 .. Len(st) - 1, UsesStrict(st[i + 1])
      PROVE  st[i].of = st[i + 1].of /\ st[i].op # "mark"
  <2>1. CASE i < Len(s)
    <3>1. st[i] = s[i] /\ st[i + 1] = s[i + 1] /\ i \in 1 .. Len(s) - 1
      BY <1>1, <1>2, <2>1
    <3> QED BY <1>3, <3>1 DEF Sound, Follows
  <2>2. CASE i = Len(s)
    <3>1. st[i + 1] = t[1] /\ t # <<>>
      BY <1>1, <1>2, <2>2
    <3> QED BY <1>3, <3>1 DEF Sound
  <2>3. CASE i > Len(s)
    <3> DEFINE j == i - Len(s)
    <3>1. j \in 1 .. Len(t) - 1 /\ st[i] = t[j] /\ st[i + 1] = t[j + 1]
      BY <1>1, <1>2, <2>3
    <3> QED BY <1>3, <3>1 DEF Sound, Follows
  <2> QED BY <1>1, <1>2, <2>1, <2>2, <2>3
<1>4. st # <<>> => ~UsesStrict(st[1])
  <2>1. CASE s = <<>>
    <3>1. st = t
      BY <1>1, <2>1 DEF st
    <3> QED BY <3>1 DEF Sound
  <2>2. CASE s # <<>>
    <3>1. st[1] = s[1]
      BY <1>1, <1>2, <2>2
    <3> QED BY <2>2, <3>1 DEF Sound
  <2> QED BY <2>1, <2>2
<1> QED
  BY <1>2, <1>3, <1>4 DEF Sound, Follows, st

\* What comes last stays last, and a part without the stack's handle joined to another
\* without it has none.
LEMMA JoinedEnds ==
    ASSUME NEW s \in Seq(Statements), NEW t \in Seq(Statements), NEW x, EndsWith(t, x)
    PROVE  EndsWith(s \o t, x)
<1> DEFINE st == s \o t
<1>1. Len(s) \in Nat /\ Len(t) \in Nat /\ Len(t) > 0
  BY DEF EndsWith
<1>2. Len(st) = Len(s) + Len(t) /\ st[Len(s) + Len(t)] = t[Len(t)]
  BY <1>1, ConcatProperties
<1>3. st # <<>>
  BY <1>1, <1>2
<1> HIDE DEF st
<1> QED
  BY <1>2, <1>3 DEF EndsWith, st

LEMMA JoinedNotTop ==
    ASSUME NEW s \in Seq(Statements), NEW t \in Seq(Statements), NotTop(s), NotTop(t)
    PROVE  NotTop(s \o t)
<1> DEFINE st == s \o t
<1>1. Len(s) \in Nat /\ Len(t) \in Nat
  OBVIOUS
<1>2. Len(st) = Len(s) + Len(t)
      /\ \A i \in 1 .. Len(s) + Len(t) : st[i] = IF i <= Len(s) THEN s[i] ELSE t[i - Len(s)]
  BY <1>1, ConcatProperties
<1> HIDE DEF st
<1>3. ASSUME NEW i \in 1 .. Len(st), st[i].of = "top" PROVE st[i].op = "fetch"
  <2>1. CASE i <= Len(s)
    BY <1>1, <1>2, <1>3, <2>1 DEF NotTop
  <2>2. CASE i > Len(s)
    <3>1. i - Len(s) \in 1 .. Len(t) /\ st[i] = t[i - Len(s)]
      BY <1>1, <1>2, <2>2
    <3> QED BY <1>3, <3>1 DEF NotTop
  <2> QED BY <1>1, <1>2, <2>1, <2>2
<1> QED
  BY <1>3 DEF NotTop, st

\* One statement.
LEMMA Single ==
    ASSUME NEW s \in Statements
    PROVE  /\ <<s>> \in Seq(Statements) /\ Follows(<<s>>)
           /\ ~UsesStrict(s) => Sound(<<s>>)
           /\ s.of # "top" => NotTop(<<s>>)
           /\ s.op = "fetch" => EndsWith(<<s>>, s.of)
<1>1. <<s>> \in Seq(Statements) /\ Len(<<s>>) = 1 /\ <<s>>[1] = s
  OBVIOUS
<1>2. Follows(<<s>>)
  BY <1>1 DEF Follows
<1> QED
  BY <1>1, <1>2 DEF Sound, NotTop, EndsWith

\* No statement.
LEMMA Nothing == Sound(<<>>) /\ NotTop(<<>>)
<1>1. <<>> \in Seq(Statements) /\ Len(<<>>) = 0
  OBVIOUS
<1> QED
  BY <1>1 DEF Sound, Follows, NotTop

\* A fetch.
LEMMA FetchIs ==
    ASSUME NEW b \in Named, NEW x \in Names \cup {"top"}
    PROVE  Sound(Fetch(b, x)) /\ EndsWith(Fetch(b, x), x) /\ (x # "top" => NotTop(Fetch(b, x)))
<1> DEFINE s == [op |-> "fetch", block |-> b, of |-> x]
<1>1. s \in Statements /\ s.op = "fetch" /\ s.of = x
  BY DEF Statements
<1>2. Fetch(b, x) = <<s>>
  BY DEF Fetch
<1> HIDE DEF s
<1>3. ~UsesStrict(s)
  BY <1>1 DEF UsesStrict
<1> QED
  BY <1>1, <1>2, <1>3, Single

\* A write or a mark.
LEMMA WriteIs ==
    ASSUME NEW x \in Names \cup {"top"}
    PROVE  /\ Write(x) \in Seq(Statements) /\ Len(Write(x)) = 1 /\ Follows(Write(x))
           /\ Write(x)[1].op = "write" /\ Write(x)[1].of = x
           /\ x \notin Strict => Sound(Write(x))
           /\ x # "top" => NotTop(Write(x))
<1> DEFINE s == [op |-> "write", block |-> ControlBlock, of |-> x]
<1>1. s \in Statements /\ s.op = "write" /\ s.of = x
  BY DEF Statements, Named
<1>2. Write(x) = <<s>>
  BY DEF Write
<1> HIDE DEF s
<1>3. x \notin Strict => ~UsesStrict(s)
  BY <1>1 DEF UsesStrict
<1>4. Len(<<s>>) = 1 /\ <<s>>[1] = s
  OBVIOUS
<1> QED
  BY <1>1, <1>2, <1>3, <1>4, Single

LEMMA MarkIs ==
    ASSUME NEW x \in Names, "top" \notin Names
    PROVE  /\ Mark(x) \in Seq(Statements) /\ Len(Mark(x)) = 1 /\ Follows(Mark(x))
           /\ Mark(x)[1].op = "mark" /\ Mark(x)[1].of = x
           /\ x \notin Strict => Sound(Mark(x))
           /\ NotTop(Mark(x))
<1> DEFINE s == [op |-> "mark", block |-> ControlBlock, of |-> x]
<1>1. s \in Statements /\ s.op = "mark" /\ s.of = x /\ x # "top"
  BY DEF Statements, Named
<1>2. Mark(x) = <<s>>
  BY DEF Mark
<1> HIDE DEF s
<1>3. x \notin Strict => ~UsesStrict(s)
  BY <1>1 DEF UsesStrict
<1>4. Len(<<s>>) = 1 /\ <<s>>[1] = s
  OBVIOUS
<1> QED
  BY <1>1, <1>2, <1>3, <1>4, Single

\* The names of handles.
LEMMA NamesAre ==
    /\ Names = {"first", "initial", "chunk", "prev", "control", "it"}
    /\ Strict = {"it", "control", "initial", "chunk"}
    /\ "top" \notin Names /\ "top" \notin Strict /\ "first" \notin Strict /\ "prev" \notin Strict
BY DEF Names, Strict

\* A use behind what it may follow.
LEMMA JoinedUse ==
    ASSUME NEW s \in Seq(Statements), s # <<>>, Follows(s), NEW t \in Seq(Statements), Len(t) = 1,
           s[Len(s)].of = t[1].of, s[Len(s)].op # "mark"
    PROVE  /\ s \o t \in Seq(Statements) /\ Follows(s \o t) /\ s \o t # <<>> /\ (s \o t)[1] = s[1]
           /\ Len(s \o t) = Len(s) + 1 /\ (s \o t)[Len(s) + 1] = t[1]
<1> DEFINE st == s \o t
<1>1. Len(s) \in Nat /\ Len(s) > 0
  OBVIOUS
<1>2. st \in Seq(Statements) /\ Len(st) = Len(s) + 1
      /\ \A i \in 1 .. Len(s) + 1 : st[i] = IF i <= Len(s) THEN s[i] ELSE t[i - Len(s)]
  <2>1. st \in Seq(Statements) /\ Len(st) = Len(s) + Len(t)
        /\ \A i \in 1 .. Len(s) + Len(t) : st[i] = IF i <= Len(s) THEN s[i] ELSE t[i - Len(s)]
    BY <1>1, ConcatProperties
  <2> HIDE DEF st
  <2> QED BY <2>1
<1>3. st[Len(s) + 1] = t[1] /\ st[1] = s[1] /\ st # <<>>
  BY <1>1, <1>2
<1> HIDE DEF st
<1>4. ASSUME NEW i \in 1 .. Len(st) - 1, UsesStrict(st[i + 1])
      PROVE  st[i].of = st[i + 1].of /\ st[i].op # "mark"
  <2>1. CASE i < Len(s)
    <3>1. st[i] = s[i] /\ st[i + 1] = s[i + 1] /\ i \in 1 .. Len(s) - 1
      BY <1>1, <1>2, <2>1
    <3> QED BY <1>4, <3>1 DEF Follows
  <2>2. CASE i = Len(s)
    <3>1. st[i] = s[Len(s)] /\ st[i + 1] = t[1]
      BY <1>1, <1>2, <1>3, <2>2
    <3> QED BY <3>1
  <2> QED BY <1>1, <1>2, <2>1, <2>2
<1> QED
  BY <1>2, <1>3, <1>4 DEF Follows, st

\* A write and its mark.
LEMMA UseIs ==
    ASSUME NEW x \in Names
    PROVE  /\ Use(x) \in Seq(Statements) /\ Follows(Use(x)) /\ NotTop(Use(x))
           /\ Use(x) # <<>> /\ Use(x)[1].op = "write" /\ Use(x)[1].of = x
           /\ x \notin Strict => Sound(Use(x))
<1>0. "top" \notin Names /\ x # "top"
  BY NamesAre
<1>1. /\ Write(x) \in Seq(Statements) /\ Len(Write(x)) = 1 /\ Follows(Write(x)) /\ Write(x) # <<>>
      /\ Write(x)[1].op = "write" /\ Write(x)[1].of = x /\ NotTop(Write(x))
      /\ x \notin Strict => Sound(Write(x))
  BY <1>0, WriteIs
<1>2. /\ Mark(x) \in Seq(Statements) /\ Len(Mark(x)) = 1 /\ Follows(Mark(x))
      /\ Mark(x)[1].op = "mark" /\ Mark(x)[1].of = x /\ NotTop(Mark(x))
  BY <1>0, MarkIs
<1>3. /\ Use(x) \in Seq(Statements) /\ Follows(Use(x)) /\ Use(x) # <<>>
      /\ Use(x)[1] = Write(x)[1]
  <2> DEFINE w == Write(x)
             m == Mark(x)
  <2>1. Use(x) = w \o m
    BY DEF Use
  <2>2. w[Len(w)].of = m[1].of /\ w[Len(w)].op # "mark"
    BY <1>1, <1>2
  <2> QED BY <1>1, <1>2, <2>1, <2>2, JoinedUse
<1>4. NotTop(Use(x))
  BY <1>1, <1>2, JoinedNotTop DEF Use
<1>5. x \notin Strict => Sound(Use(x))
  <2>1. x \notin Strict => ~UsesStrict(Use(x)[1])
    BY <1>1, <1>3 DEF UsesStrict
  <2> QED BY <1>3, <2>1 DEF Sound
<1> QED
  BY <1>1, <1>3, <1>4, <1>5

LEMMA Associative ==
    ASSUME NEW s \in Seq(Statements), NEW t \in Seq(Statements), NEW u \in Seq(Statements)
    PROVE  s \o (t \o u) = (s \o t) \o u
BY SMTT(30), ConcatAssociative

\* A fetch, a write and a mark of the same block.
LEMMA TouchIs ==
    ASSUME NEW b \in Named
    PROVE  Sound(Touch(b)) /\ NotTop(Touch(b))
<1> DEFINE f == Fetch(b, "it")
           w == Write("it")
           m == Mark("it")
<1>0. "it" \in Names /\ "top" \notin Names /\ "it" # "top"
  BY NamesAre
<1>1. Sound(f) /\ EndsWith(f, "it") /\ NotTop(f)
  BY <1>0, FetchIs
<1>2. /\ w \in Seq(Statements) /\ Len(w) = 1 /\ w[1].op = "write" /\ w[1].of = "it" /\ NotTop(w)
  BY <1>0, WriteIs
<1>3. /\ m \in Seq(Statements) /\ Len(m) = 1 /\ m[1].op = "mark" /\ m[1].of = "it" /\ NotTop(m)
  BY <1>0, MarkIs
<1>4. f # <<>> /\ f[Len(f)].op = "fetch" /\ f[Len(f)].of = "it"
  BY <1>1 DEF EndsWith
<1>4a. f \in Seq(Statements) /\ Follows(f) /\ ~UsesStrict(f[1])
  BY <1>1, <1>4 DEF Sound
<1>5. Touch(b) = (f \o w) \o m
  <2>1. Touch(b) = f \o (w \o m)
    BY DEF Touch, Use
  <2>2. f \o (w \o m) = (f \o w) \o m
    BY <1>2, <1>3, <1>4a, Associative
  <2> QED BY <2>1, <2>2
<1> HIDE DEF f, w, m
<1>6. /\ f \o w \in Seq(Statements) /\ Follows(f \o w) /\ f \o w # <<>> /\ (f \o w)[1] = f[1]
      /\ Len(f \o w) = Len(f) + 1 /\ (f \o w)[Len(f) + 1] = w[1]
  BY <1>2, <1>4, <1>4a, JoinedUse
<1> DEFINE fw == f \o w
<1>6a. fw \in Seq(Statements) /\ Follows(fw) /\ fw # <<>> /\ fw[1] = f[1]
       /\ fw[Len(fw)].of = "it" /\ fw[Len(fw)].op = "write" /\ NotTop(fw)
  BY <1>1, <1>2, <1>4a, <1>6, JoinedNotTop
<1> HIDE DEF fw
<1>7. /\ fw \o m \in Seq(Statements) /\ Follows(fw \o m) /\ fw \o m # <<>> /\ (fw \o m)[1] = fw[1]
  BY <1>3, <1>6a, JoinedUse
<1>8. NotTop(fw \o m)
  BY <1>3, <1>6a, JoinedNotTop
<1> QED
  BY <1>4a, <1>5, <1>6a, <1>7, <1>8 DEF Sound, fw

-----------------------------------------------------------------------------
(* Handles on the buffer                                                   *)

WriteThrough(h, v) ==
    LET owners == {b \in Blocks : idToFrame[b] = h.frame} IN
    /\ data' = [data EXCEPT ![h.frame] = v]
    /\ unmarked' = IF isDirty[h.frame] THEN unmarked ELSE unmarked \cup owners
    /\ synced' = [b \in Blocks |-> IF b \in owners THEN None ELSE synced[b]]
    /\ UNCHANGED <<inUse, referenced, isDirty, tableVars, disk, pc, toSync>>

\* A write through a handle, stale or not, leaves the table alone, and what it
\* changes counts as changed and not marked (data_block.go, data_buffer.go:89-98).
LEMMA WriteStep ==
    ASSUME Inv, NEW h, h.frame \in Frames, NEW v \in Values, WriteThrough(h, v)
    PROVE  Inv' /\ UNCHANGED tableVars
<1> DEFINE owners == {b \in Blocks : idToFrame[b] = h.frame}
<1>1. /\ data' = [data EXCEPT ![h.frame] = v]
      /\ unmarked' = IF isDirty[h.frame] THEN unmarked ELSE unmarked \cup owners
      /\ synced' = [b \in Blocks |-> IF b \in owners THEN None ELSE synced[b]]
      /\ UNCHANGED <<inUse, referenced, isDirty, tableVars, disk, pc, toSync>>
  BY DEF WriteThrough
<1>2. TypeOK'
  BY <1>1, NoneAssumption DEF Inv, TypeOK, tableVars
<1>3. FrameTable'
  BY <1>1 DEF Inv, FrameTable, Resident, tableVars
<1>4. SyncCoversDirty'
  BY <1>1 DEF Inv, SyncCoversDirty, Dirty, Resident, tableVars
<1>5. DiskInv'
  BY <1>1, FramesAreNotNone DEF Inv, TypeOK, DiskInv, Content, Dirty, Resident, tableVars
<1> QED
  BY <1>1, <1>2, <1>3, <1>4, <1>5 DEF Inv

\* A fetch that returns leaves the block in the frame it gives out
\* (data_buffer.go:49-87).
LEMMA FetchStep ==
    ASSUME Inv, NEW b \in Blocks,
           \/ FetchHit(b)
           \/ \E f \in Frames : FetchFree(b, f)
           \/ \E p \in 1 .. Size : FetchEvict(b, p)
    PROVE  Inv' /\ idToFrame'[b] \in Frames
<1>1. TypeOK /\ FrameTable
  BY DEF Inv
<1>2. Next /\ idToFrame'[b] \in Frames
  <2>1. CASE FetchHit(b)
    <3>1. idToFrame[b] \in Frames
      BY <1>1, <2>1 DEF FetchHit, TypeOK, Resident
    <3>2. idToFrame' = idToFrame
      BY <2>1 DEF FetchHit, tableVars
    <3> QED BY <2>1, <3>1, <3>2 DEF Next, FetchBlock
  <2>2. ASSUME NEW f \in Frames, FetchFree(b, f) PROVE Next /\ idToFrame'[b] \in Frames
    <3>1. idToFrame'[b] = f
      BY <1>1, <2>2 DEF FetchFree, TypeOK
    <3> QED BY <2>2, <3>1 DEF Next, FetchBlock
  <2>3. ASSUME NEW p \in 1 .. Size, FetchEvict(b, p) PROVE Next /\ idToFrame'[b] \in Frames
    <3>1. VictimFrame(p) \in Frames
      BY <1>1, <2>3, VictimFacts DEF FetchEvict, Evict
    <3>2. idToFrame'[b] = VictimFrame(p)
      BY <1>1, <2>3 DEF FetchEvict, TypeOK
    <3> QED BY <2>3, <3>1, <3>2 DEF Next, FetchBlock
  <2> QED BY <2>1, <2>2, <2>3
<1>3. Inv'
  BY <1>2, TypeStep, FrameTableStep, SyncCoversStep, DiskStep DEF Inv
<1> QED
  BY <1>2, <1>3

\* The buffer's invariant is kept by its own steps.
LEMMA BufferStep == Inv /\ (Next \/ UNCHANGED vars) => Inv'
BY TypeStep, FrameTableStep, SyncCoversStep, DiskStep DEF Inv

-----------------------------------------------------------------------------
(* Parts of calls                                                          *)

\* allocateNewBlock keeps no handle (record_allocator.go:131-149).
LEMMA AllocateIs ==
    ASSUME NEW start \in Blocks \cup {ControlBlock}, NEW new \in Blocks \cup {ControlBlock}
    PROVE  Sound(AllocateNewBlock(start, new)) /\ NotTop(AllocateNewBlock(start, new))
<1> DEFINE Good(t) == Sound(t) /\ NotTop(t)
           scan == IF MapOf[new] = FirstMap /\ new # ControlBlock THEN <<>> ELSE Fetch(SecondMap, "it")
           a == Fetch(FirstMap, "it")
           c == Touch(MapOf[new])
           d == Touch(new)
           e == Touch(start)
           f == Touch(ControlBlock)
<1>0. "it" \in Names \cup {"top"} /\ "it" # "top"
  BY NamesAre
<1>1. FirstMap \in Named /\ SecondMap \in Named /\ MapOf[new] \in Named /\ new \in Named
      /\ start \in Named /\ ControlBlock \in Named
  BY DEF Named
<1>2. Good(a) /\ Good(Fetch(SecondMap, "it"))
  BY <1>0, <1>1, FetchIs
<1>3. Good(scan)
  BY <1>2, Nothing
<1>4. Good(c) /\ Good(d) /\ Good(e) /\ Good(f)
  BY <1>1, TouchIs
<1>5. AllocateNewBlock(start, new) = a \o scan \o c \o d \o e \o f
  BY DEF AllocateNewBlock
<1> HIDE DEF a, scan, c, d, e, f
<1>6. ASSUME NEW s, NEW t, Good(s), Good(t) PROVE Good(s \o t)
  BY <1>6, Joined, JoinedNotTop DEF Sound
<1> HIDE DEF Good
<1>7. Good(a \o scan)
  BY <1>2, <1>3, <1>6
<1>8. Good(a \o scan \o c)
  BY <1>4, <1>6, <1>7
<1>9. Good(a \o scan \o c \o d)
  BY <1>4, <1>6, <1>8
<1>10. Good(a \o scan \o c \o d \o e)
  BY <1>4, <1>6, <1>9
<1>11. Good(a \o scan \o c \o d \o e \o f)
  BY <1>4, <1>6, <1>10
<1> QED
  BY <1>5, <1>11 DEF Good

\* removeFromList (record_allocator.go:181-225).
LEMMA RemoveFromListIs ==
    ASSUME NEW p \in InsertBlocks, NEW n \in RecordBlocks, Handle("top") \in Handles
    PROVE  Sound(RemoveFromList(p, n))
<1> DEFINE first == IF p = ControlBlock THEN Fetch(ControlBlock, "control") \o Touch(ControlBlock) ELSE <<>>
           c == Touch(p)
           d == Touch(n)
           e == Write("top")
           f == Touch(MapOf[Handle("top").block])
<1>0. "control" \in Names \cup {"top"} /\ "top" \notin Strict /\ "top" \in Names \cup {"top"}
  BY NamesAre
<1>1. p \in Named /\ n \in Named /\ ControlBlock \in Named /\ MapOf[Handle("top").block] \in Named
  BY DEF Named, InsertBlocks, RecordBlocks, Handles
<1>2. Sound(first)
  <2>1. Sound(Fetch(ControlBlock, "control"))
    BY <1>0, <1>1, FetchIs
  <2>2. Sound(Touch(ControlBlock))
    BY <1>1, TouchIs
  <2>3. Sound(Fetch(ControlBlock, "control") \o Touch(ControlBlock))
    BY <2>1, <2>2, Joined
  <2> QED BY <2>3, Nothing
<1>3. Sound(c) /\ Sound(d) /\ Sound(f)
  BY <1>1, TouchIs
<1>4. Sound(e)
  BY <1>0, WriteIs
<1>5. RemoveFromList(p, n) = first \o c \o d \o e \o f
  BY DEF RemoveFromList
<1> HIDE DEF first, c, d, e, f
<1>6. Sound(first \o c)
  BY <1>2, <1>3, Joined
<1>7. Sound(first \o c \o d)
  BY <1>3, <1>6, Joined
<1>8. Sound(first \o c \o d \o e)
  BY <1>4, <1>7, Joined
<1>9. Sound(first \o c \o d \o e \o f)
  BY <1>3, <1>8, Joined
<1> QED
  BY <1>5, <1>9

-----------------------------------------------------------------------------
(* Statements                                                              *)

\* What is left of a call after a statement.
LEMMA Rest ==
    ASSUME NEW t \in Seq(Statements), t # <<>>, Follows(t)
    PROVE  /\ Tail(t) \in Seq(Statements) /\ Follows(Tail(t)) /\ t[1] \in Statements
           /\ Tail(t) # <<>> /\ UsesStrict(Tail(t)[1]) =>
                 t[1].of = Tail(t)[1].of /\ t[1].op # "mark" /\ t[1].of \in Strict
           /\ NotTop(t) => NotTop(Tail(t))
           /\ \A x : EndsWith(t, x) =>
                 IF Tail(t) = <<>> THEN t[1].op = "fetch" /\ t[1].of = x ELSE EndsWith(Tail(t), x)
<1> DEFINE r == Tail(t)
<1>1. Len(t) \in Nat /\ Len(t) > 0
  OBVIOUS
<1>2. r \in Seq(Statements) /\ Len(r) = Len(t) - 1 /\ \A i \in 1 .. Len(t) - 1 : r[i] = t[i + 1]
  BY <1>1, HeadTailProperties
<1>3. t[1] \in Statements
  BY <1>1
<1> HIDE DEF r
<1>4. (r = <<>>) <=> (Len(t) = 1)
  <2>1. Len(r) \in Nat /\ (r = <<>> <=> Len(r) = 0)
    BY <1>2, EmptySeq
  <2> QED BY <1>1, <1>2, <2>1
<1>5. Follows(r)
  <2> SUFFICES ASSUME NEW i \in 1 .. Len(r) - 1, UsesStrict(r[i + 1])
               PROVE  r[i].of = r[i + 1].of /\ r[i].op # "mark"
    BY DEF Follows
  <2>1. i + 1 \in 1 .. Len(t) - 1 /\ r[i] = t[i + 1] /\ r[i + 1] = t[(i + 1) + 1]
    BY <1>1, <1>2
  <2> QED BY <2>1 DEF Follows
<1>6. r # <<>> /\ UsesStrict(r[1]) => t[1].of = r[1].of /\ t[1].op # "mark" /\ t[1].of \in Strict
  <2> SUFFICES ASSUME r # <<>>, UsesStrict(r[1])
               PROVE  t[1].of = r[1].of /\ t[1].op # "mark" /\ t[1].of \in Strict
    OBVIOUS
  <2>1. 1 \in 1 .. Len(t) - 1 /\ r[1] = t[1 + 1]
    BY <1>1, <1>2, <1>4
  <2>2. t[1].of = r[1].of /\ t[1].op # "mark"
    BY <2>1 DEF Follows
  <2> QED BY <2>2 DEF UsesStrict
<1>7. NotTop(t) => NotTop(r)
  <2> SUFFICES ASSUME NotTop(t), NEW i \in 1 .. Len(r), r[i].of = "top" PROVE r[i].op = "fetch"
    BY DEF NotTop
  <2>1. i + 1 \in 1 .. Len(t) /\ r[i] = t[i + 1]
    BY <1>1, <1>2
  <2> QED BY <2>1 DEF NotTop
<1>8. ASSUME NEW x, EndsWith(t, x)
      PROVE  IF r = <<>> THEN t[1].op = "fetch" /\ t[1].of = x ELSE EndsWith(r, x)
  <2>1. CASE r = <<>>
    BY <1>4, <1>8, <2>1 DEF EndsWith
  <2>2. CASE r # <<>>
    <3>1. r[Len(r)] = t[Len(t)]
      BY <1>1, <1>2, <1>4, <2>2
    <3> QED BY <1>8, <2>2, <3>1 DEF EndsWith
  <2> QED BY <2>1, <2>2
<1> QED
  BY <1>2, <1>3, <1>5, <1>6, <1>7, <1>8 DEF r

\* Where the handles are.
LEMMA HandlesAre ==
    ASSUME Typed, NEW x \in Names \cup {"top"}, x = "top" => chain # <<>>
    PROVE  Handle(x) \in Handles /\ Handle(x).frame \in Frames
           /\ (x \in Names => Handle(x) = local[x])
<1>1. "top" \notin Names
  BY NamesAre
<1>2. CASE x = "top"
  <2>1. Len(chain) \in 1 .. Len(chain)
    BY <1>2, EmptySeq DEF Typed
  <2>2. chain[Len(chain)] \in Handles
    BY <2>1 DEF Typed
  <2> QED BY <1>1, <1>2, <2>2 DEF Handle, Handles
<1>3. CASE x \in Names
  BY <1>1, <1>3 DEF Handle, Handles, Typed
<1> QED
  BY <1>2, <1>3

\* A statement of a call that waits, unless it is the last, is not what the next
\* decision waits for.
LEMMA FetchKeeps ==
    ASSUME HeldInv, NEW b \in Blocks, DoFetch(b)
    PROVE  HeldInv'
<1> DEFINE x == todo[1].of
           h == [block |-> b, frame |-> idToFrame'[b]]
<1>1. todo # <<>> /\ todo[1].op = "fetch" /\ todo' = Tail(todo) /\ at' = at
  BY DEF DoFetch, Begins
<1>2. Inv' /\ idToFrame'[b] \in Frames
  BY FetchStep DEF HeldInv, DoFetch
<1>3. Typed /\ Follows(todo) /\ ChainHeld /\ Awaits /\ (at = "idle" => todo = <<>>)
  BY DEF HeldInv, CallInv
<1>4. /\ todo' \in Seq(Statements) /\ Follows(todo') /\ todo[1] \in Statements
      /\ todo' # <<>> /\ UsesStrict(todo'[1]) =>
                 todo[1].of = todo'[1].of /\ todo[1].op # "mark" /\ todo[1].of \in Strict
      /\ NotTop(todo) => NotTop(todo')
      /\ \A y : EndsWith(todo, y) =>
           IF todo' = <<>> THEN todo[1].op = "fetch" /\ todo[1].of = y ELSE EndsWith(todo', y)
  BY <1>1, <1>3, Rest DEF Typed
<1>5. x \in Names \cup {"top"} /\ "top" \notin Names /\ "top" \notin Strict
  BY <1>4, NamesAre DEF Statements
<1>6. h \in Handles /\ h.block = b /\ h.frame = idToFrame'[b]
  BY <1>2 DEF Handles
<1>7. /\ local' = IF x = "top" THEN local ELSE [local EXCEPT ![x] = h]
      /\ chain' = IF x = "top" THEN Append(chain, h) ELSE chain
  BY DEF DoFetch
<1> HIDE DEF h, x
<1>8. local' \in [Names -> Handles] /\ (x # "top" => local'[x] = h)
  BY <1>3, <1>5, <1>6, <1>7 DEF Typed
<1>9. /\ chain' \in Seq(Handles) /\ (chain # <<>> => chain' # <<>>)
      /\ x = "top" => chain' # <<>> /\ chain'[Len(chain')] = h
  <2>1. chain \in Seq(Handles)
    BY <1>3 DEF Typed
  <2>2. /\ Append(chain, h) \in Seq(Handles) /\ Append(chain, h) # <<>>
        /\ Append(chain, h)[Len(Append(chain, h))] = h
    BY <1>6, <2>1
  <2> QED BY <1>7, <2>1, <2>2
<1>10. Typed'
  BY <1>4, <1>8, <1>9 DEF Typed
<1>11. HeadFresh'
  <2> SUFFICES ASSUME todo' # <<>>, UsesStrict(todo'[1]) PROVE Fresh(local[todo[1].of])'
    BY DEF HeadFresh
  <2>1. x = todo'[1].of /\ x \in Strict
    BY <1>4 DEF x
  <2>2. local'[todo'[1].of] = h
    BY <1>5, <1>8, <2>1
  <2> QED BY <1>6, <2>2 DEF Fresh
<1>12. ChainHeld'
  BY <1>1, <1>3, <1>4, <1>9 DEF ChainHeld
<1>13. Awaits'
  <2> SUFFICES ASSUME at \in DOMAIN Awaited
               PROVE  IF todo' = <<>> THEN Got(Awaited[at])' ELSE EndsWith(todo', Awaited[at])
    BY <1>1 DEF Awaits
  <2>1. EndsWith(todo, Awaited[at])
    BY <1>1, <1>3 DEF Awaits
  <2>2. CASE todo' = <<>>
    <3>1. x = Awaited[at]
      BY <1>4, <2>1, <2>2 DEF x
    <3>2. PICK y : y = x
      OBVIOUS
    <3>3. PICK g : g = h
      OBVIOUS
    <3>4. (y = "top" => chain' # <<>>) /\ Handle(y)' = g
      BY <1>5, <1>8, <1>9, <3>2, <3>3 DEF Handle
    <3>5. g.block \in Blocks /\ idToFrame'[g.block] = g.frame
      BY <1>6, <3>3
    <3>6. Fresh(Handle(y))'
      BY <3>4, <3>5 DEF Fresh
    <3>8. Awaited[at'] = y
      BY <1>1, <3>1, <3>2
    <3>9. Got(Awaited[at])'
      BY <3>4, <3>6, <3>8 DEF Got
    <3> QED BY <2>2, <3>9
  <2>3. CASE todo' # <<>>
    BY <1>4, <2>1, <2>3
  <2> QED BY <2>2, <2>3
<1>14. at' = "idle" => todo' = <<>>
  BY <1>1, <1>3
<1> QED
  BY <1>2, <1>4, <1>10, <1>11, <1>12, <1>13, <1>14 DEF HeldInv, CallInv

\* A write or a mark moves no block.
LEMMA UseKeeps ==
    ASSUME HeldInv, todo # <<>>, todo[1].op # "fetch", todo' = Tail(todo), Inv',
           UNCHANGED <<local, chain, at>>, idToFrame' = idToFrame
    PROVE  HeldInv'
<1>1. Typed /\ Follows(todo) /\ HeadFresh /\ ChainHeld /\ Awaits /\ (at = "idle" => todo = <<>>)
  BY DEF HeldInv, CallInv
<1>2. /\ todo' \in Seq(Statements) /\ Follows(todo') /\ todo[1] \in Statements
      /\ todo' # <<>> /\ UsesStrict(todo'[1]) =>
                 todo[1].of = todo'[1].of /\ todo[1].op # "mark" /\ todo[1].of \in Strict
      /\ NotTop(todo) => NotTop(todo')
      /\ \A y : EndsWith(todo, y) =>
           IF todo' = <<>> THEN todo[1].op = "fetch" /\ todo[1].of = y ELSE EndsWith(todo', y)
  BY <1>1, Rest DEF Typed
<1>3. Typed'
  BY <1>1, <1>2 DEF Typed
<1>4. HeadFresh'
  <2> SUFFICES ASSUME todo' # <<>>, UsesStrict(todo'[1]) PROVE Fresh(local[todo[1].of])'
    BY DEF HeadFresh
  <2>1. todo[1].of = todo'[1].of /\ UsesStrict(todo[1])
    BY <1>2 DEF UsesStrict
  <2>2. Fresh(local[todo[1].of])
    BY <1>1, <2>1 DEF HeadFresh
  <2> QED BY <2>1, <2>2 DEF Fresh
<1>5. ChainHeld'
  BY <1>1, <1>2 DEF ChainHeld
<1>6. Awaits'
  <2> SUFFICES ASSUME at \in DOMAIN Awaited
               PROVE  todo' # <<>> /\ EndsWith(todo', Awaited[at])
    BY DEF Awaits
  <2>1. EndsWith(todo, Awaited[at])
    BY <1>1 DEF Awaits
  <2> QED BY <1>2, <2>1
<1> QED
  BY <1>1, <1>2, <1>3, <1>4, <1>5, <1>6 DEF HeldInv, CallInv

\* A write through a handle.
LEMMA WriteKeeps == ASSUME HeldInv, NEW v \in Values, DoWrite(v) PROVE HeldInv'
<1> DEFINE h == Handle(todo[1].of)
<1>1. todo # <<>> /\ todo[1].op = "write" /\ todo' = Tail(todo) /\ UNCHANGED <<local, chain, at>>
  BY DEF DoWrite, Begins
<1>2. Typed /\ Inv /\ ChainHeld
  BY DEF HeldInv, CallInv
<1>3. 1 \in 1 .. Len(todo) /\ todo[1] \in Statements
  BY <1>1, <1>2 DEF Typed
<1>4. todo[1].of \in Names \cup {"top"}
  BY <1>3 DEF Statements
<1>5. todo[1].of = "top" => chain # <<>>
  BY <1>1, <1>2, <1>3 DEF ChainHeld, NotTop
<1>6. h.frame \in Frames
  BY <1>2, <1>4, <1>5, HandlesAre
<1>7. WriteThrough(h, v)
  BY Zenon DEF DoWrite, WriteThrough
<1> HIDE DEF h
<1>8. Inv' /\ UNCHANGED tableVars
  BY <1>2, <1>6, <1>7, WriteStep
<1>9. idToFrame' = idToFrame
  BY <1>8 DEF tableVars
<1> QED
  BY <1>1, <1>8, <1>9, UseKeeps

\* A mark, by the block a handle names.
LEMMA MarkKeeps == ASSUME HeldInv, NEW b \in Blocks, DoMark(b) PROVE HeldInv'
<1>1. todo # <<>> /\ todo[1].op = "mark" /\ todo' = Tail(todo) /\ UNCHANGED <<local, chain, at>>
  BY DEF DoMark, Begins
<1>2. Inv' /\ idToFrame' = idToFrame
  <2>1. CASE Resident(b)
    <3>1. MarkAsDirty(b)
      BY <2>1 DEF DoMark
    <3>2. Next
      BY <3>1 DEF Next
    <3>3. Inv'
      BY <3>2, BufferStep DEF HeldInv
    <3> QED BY <3>1, <3>3 DEF MarkAsDirty, tableVars
  <2>2. CASE ~Resident(b)
    <3>1. UNCHANGED vars
      BY <2>2 DEF DoMark
    <3> QED BY <3>1, BufferStep DEF HeldInv, vars, tableVars
  <2> QED BY <2>1, <2>2
<1> QED
  BY <1>1, <1>2, UseKeeps

\* A call that is over, or is about to return an error, has nothing left to do.
LEMMA OverKeeps ==
    ASSUME Inv', todo' = <<>>, at' \in {"idle", "failed", "panicked"},
           local' \in [Names -> Handles], chain' \in Seq(Handles)
    PROVE  HeldInv'
<1>1. <<>> \in Seq(Statements) /\ Sound(<<>>) /\ NotTop(<<>>)
  BY Nothing DEF Sound
<1>2. at' \notin DOMAIN Awaited /\ at' \notin {"unwind", "pop"}
  BY DEF Awaited
<1>3. Typed' /\ Follows(todo)' /\ HeadFresh'
  BY <1>1 DEF Typed, Sound, HeadFresh
<1>4. ChainHeld' /\ Awaits'
  BY <1>1, <1>2 DEF ChainHeld, Awaits
<1> QED
  BY <1>3, <1>4 DEF HeldInv, CallInv

LEMMA FailKeeps == ASSUME HeldInv, NEW b \in Blocks, FetchFails(b) PROVE HeldInv'
<1>1. todo' = <<>> /\ at' \in {"failed", "panicked"} /\ UNCHANGED <<local, chain>>
  BY DEF FetchFails
<1>2. Next
  BY DEF FetchFails, Next, FetchBlock
<1>3. Inv'
  BY <1>2, BufferStep DEF HeldInv
<1> QED
  BY <1>1, <1>3, OverKeeps DEF HeldInv, CallInv, Typed

\* A part behind another one, of which only the second starts with a fetch.
LEMMA JoinedFollows ==
    ASSUME NEW s \in Seq(Statements), s # <<>>, Follows(s), NEW t, Sound(t)
    PROVE  s \o t \in Seq(Statements) /\ Follows(s \o t) /\ (s \o t)[1] = s[1]
<1> DEFINE st == s \o t
<1>1. t \in Seq(Statements) /\ Len(s) \in Nat /\ Len(t) \in Nat /\ Len(s) > 0
  BY DEF Sound
<1>2. st \in Seq(Statements) /\ Len(st) = Len(s) + Len(t)
      /\ \A i \in 1 .. Len(s) + Len(t) : st[i] = IF i <= Len(s) THEN s[i] ELSE t[i - Len(s)]
  BY <1>1, ConcatProperties
<1>3. st[1] = s[1]
  BY <1>1, <1>2
<1> HIDE DEF st
<1>4. ASSUME NEW i \in 1 .. Len(st) - 1, UsesStrict(st[i + 1])
      PROVE  st[i].of = st[i + 1].of /\ st[i].op # "mark"
  <2>1. CASE i < Len(s)
    <3>1. st[i] = s[i] /\ st[i + 1] = s[i + 1] /\ i \in 1 .. Len(s) - 1
      BY <1>1, <1>2, <2>1
    <3> QED BY <1>4, <3>1 DEF Follows
  <2>2. CASE i = Len(s)
    <3>1. st[i + 1] = t[1] /\ t # <<>>
      BY <1>1, <1>2, <2>2
    <3> QED BY <1>4, <3>1 DEF Sound
  <2>3. CASE i > Len(s)
    <3> DEFINE j == i - Len(s)
    <3>1. j \in 1 .. Len(t) - 1 /\ st[i] = t[j] /\ st[i + 1] = t[j + 1]
      BY <1>1, <1>2, <2>3
    <3> QED BY <1>4, <3>1 DEF Sound, Follows
  <2> QED BY <1>1, <1>2, <2>1, <2>2, <2>3
<1> QED
  BY <1>2, <1>3, <1>4 DEF Follows, st

\* A fetch onto the stack is no use of it.
LEMMA FetchTop == ASSUME NEW b PROVE NotTop(Fetch(b, "top"))
<1> DEFINE s == [op |-> "fetch", block |-> b, of |-> "top"]
<1>1. s.op = "fetch"
  OBVIOUS
<1>2. Fetch(b, "top") = <<s>>
  BY DEF Fetch
<1> HIDE DEF s
<1>3. Len(<<s>>) = 1 /\ <<s>>[1] = s
  OBVIOUS
<1> QED
  BY <1>1, <1>2, <1>3 DEF NotTop

\* Before a chunk is removed, its block is on the stack.
LEMMA TopIsHeld ==
    ASSUME HeldInv, at \in {"descend", "unwind"}, todo = <<>> PROVE chain # <<>>
<1>1. CASE at = "unwind"
  BY <1>1 DEF HeldInv, CallInv, ChainHeld
<1>2. CASE at = "descend"
  <2>1. at \in DOMAIN Awaited /\ Awaited[at] = "top"
    BY <1>2 DEF Awaited
  <2> QED BY <2>1 DEF HeldInv, CallInv, Awaits, Got
<1> QED
  BY <1>1, <1>2

\* The stack without its top.
LEMMA FrontOfChain ==
    ASSUME NEW S, NEW s \in Seq(S), s # <<>>
    PROVE  SubSeq(s, 1, Len(s) - 1) \in Seq(S)
           /\ (Len(s) > 1 => SubSeq(s, 1, Len(s) - 1) # <<>>)
<1> DEFINE r == SubSeq(s, 1, Len(s) - 1)
<1>1. Len(s) \in Nat /\ Len(s) > 0 /\ \A i \in 1 .. Len(s) - 1 : s[i] \in S
  OBVIOUS
<1>2. r \in Seq(S) /\ Len(r) = IF 1 <= Len(s) - 1 THEN Len(s) - 1 - 1 + 1 ELSE 0
  BY <1>1, SubSeqProperties
<1> HIDE DEF r
<1>3. Len(s) > 1 => r # <<>>
  BY <1>1, <1>2
<1> QED
  BY <1>2, <1>3 DEF r

\* No call has no handles.
LEMMA NoCallIs == [x \in Names |-> NoHandle] \in [Names -> Handles] /\ <<>> \in Seq(Handles)
<1>1. 0 \in Frames
  BY SizeAssumption DEF Frames
<1>2. NoHandle \in Handles
  BY <1>1 DEF NoHandle, Handles
<1> QED
  BY <1>2

-----------------------------------------------------------------------------
(* Decisions                                                               *)

\* What a decision must see to.
LEMMA GoesStep ==
    ASSUME HeldInv, NEW a, NEW s, NEW b, Goes(a, s, b),
           local' \in [Names -> Handles], chain' \in Seq(Handles),
           s \in Seq(Statements), Follows(s),
           s # <<>> /\ UsesStrict(s[1]) => Fresh(local'[s[1].of]),
           (b \in {"unwind", "pop"} \/ ~NotTop(s)) => chain' # <<>>,
           b \in DOMAIN Awaited => EndsWith(s, Awaited[b]),
           b # "idle"
    PROVE  HeldInv'
<1>1. todo' = s /\ at' = b /\ UNCHANGED vars
  BY DEF Goes
<1>2. Inv' /\ idToFrame' = idToFrame
  BY <1>1, BufferStep DEF HeldInv, vars, tableVars
<1>3. Typed'
  BY <1>1 DEF Typed
<1>4. HeadFresh'
  BY <1>1, <1>2 DEF HeadFresh, Fresh
<1>5. ChainHeld'
  BY <1>1 DEF ChainHeld
<1>6. Awaits'
  <2> SUFFICES ASSUME b \in DOMAIN Awaited PROVE s # <<>> /\ EndsWith(s, Awaited[b])
    BY <1>1 DEF Awaits
  <2> QED BY DEF EndsWith
<1> QED
  BY <1>1, <1>2, <1>3, <1>4, <1>5, <1>6 DEF HeldInv, CallInv

\* A decision that only needs the statements to be sound.
LEMMA GoesSoundly ==
    ASSUME HeldInv, NEW a, NEW s, NEW b, Goes(a, s, b),
           local' \in [Names -> Handles], chain' \in Seq(Handles), Sound(s),
           (b \in {"unwind", "pop"} \/ ~NotTop(s)) => chain' # <<>>,
           b \in DOMAIN Awaited => EndsWith(s, Awaited[b]),
           b # "idle"
    PROVE  HeldInv'
BY GoesStep DEF Sound

\* The block a decision looks at was fetched just before.
LEMMA Arrived ==
    ASSUME HeldInv, NEW a \in DOMAIN Awaited, at = a, todo = <<>> PROVE Got(Awaited[a])
BY DEF HeldInv, CallInv, Awaits

LEMMA AwaitedAre ==
    /\ DOMAIN Awaited = {"search", "sought", "descend"}
    /\ Awaited["search"] = "first" /\ Awaited["sought"] = "chunk" /\ Awaited["descend"] = "top"
BY DEF Awaited

LEMMA BlocksAre ==
    /\ InsertBlocks \subseteq Blocks \cup {ControlBlock} /\ InsertBlocks \subseteq Named
    /\ RecordBlocks \subseteq Blocks /\ RecordBlocks \subseteq Named /\ ControlBlock \in Named
BY DEF InsertBlocks, RecordBlocks, Named

LEMMA AddKeeps ==
    ASSUME HeldInv, Adding PROVE HeldInv'
<1>0. local \in [Names -> Handles] /\ chain \in Seq(Handles)
  BY DEF HeldInv, CallInv, Typed
<1>n. /\ "it" \in Names /\ "first" \in Names /\ "chunk" \in Names /\ "prev" \in Names
      /\ "initial" \in Names /\ "first" # "top" /\ "chunk" # "top" /\ "it" # "top"
      /\ "first" \notin Strict /\ "prev" \notin Strict /\ "top" \notin Names
  BY NamesAre
<1>1. ASSUME NEW b \in InsertBlocks, Add(b) PROVE HeldInv'
  <2> DEFINE c == Fetch(ControlBlock, "it")
             d == Fetch(b, "first")
  <2>1. Sound(c) /\ NotTop(c) /\ Sound(d) /\ NotTop(d) /\ EndsWith(d, "first")
    BY <1>n, BlocksAre, FetchIs
  <2>2. Goes("idle", c \o d, "search") /\ UNCHANGED <<local, chain>>
    BY <1>1 DEF Add, Begin
  <2> HIDE DEF c, d
  <2>3. Sound(c \o d) /\ NotTop(c \o d) /\ EndsWith(c \o d, "first")
    BY <2>1, Joined, JoinedNotTop, JoinedEnds DEF Sound
  <2> QED BY <1>0, <2>2, <2>3, AwaitedAre, GoesSoundly
<1>2. ASSUME NEW new \in InsertBlocks, NewBlock(new) PROVE HeldInv'
  <2> DEFINE c == AllocateNewBlock(local["first"].block, new)
             d == Use("first")
             e == Fetch(new, "first")
  <2>1. local["first"].block \in Blocks \cup {ControlBlock}
    BY <1>0, <1>n DEF Handles
  <2>2. Sound(c) /\ NotTop(c)
    BY <2>1, BlocksAre, AllocateIs
  <2>3. Sound(d) /\ NotTop(d)
    BY <1>n, UseIs
  <2>4. Sound(e) /\ NotTop(e) /\ EndsWith(e, "first")
    BY <1>n, BlocksAre, FetchIs
  <2>5. Goes("search", c \o d \o e, "search") /\ UNCHANGED <<local, chain>>
    BY <1>2 DEF NewBlock
  <2> HIDE DEF c, d, e
  <2>6. Sound(c \o d) /\ NotTop(c \o d)
    BY <2>2, <2>3, Joined, JoinedNotTop DEF Sound
  <2> DEFINE cd == c \o d
  <2>7. Sound(cd \o e) /\ NotTop(cd \o e) /\ EndsWith(cd \o e, "first")
    <3> HIDE DEF cd
    <3> QED BY <2>4, <2>6, Joined, JoinedNotTop, JoinedEnds DEF Sound, cd
  <2> QED BY <1>0, <2>5, <2>7, AwaitedAre, GoesSoundly
<1>3. ASSUME NEW b \in RecordBlocks, NextBlock(b) PROVE HeldInv'
  <2>1. Sound(Fetch(b, "first")) /\ NotTop(Fetch(b, "first")) /\ EndsWith(Fetch(b, "first"), "first")
    BY <1>n, BlocksAre, FetchIs
  <2>2. Goes("search", Fetch(b, "first"), "search") /\ UNCHANGED <<local, chain>>
    BY <1>3 DEF NextBlock
  <2> QED BY <1>0, <2>1, <2>2, AwaitedAre, GoesSoundly
<1>4. ASSUME Allocate PROVE HeldInv'
  <2>1. Goes("search", Use("initial"), "chain") /\ chain' = chain
        /\ local' = [local EXCEPT !["initial"] = local["first"], !["prev"] = local["first"]]
    BY <1>4 DEF Allocate
  <2>2. Got("first")
    BY <2>1, AwaitedAre, Arrived DEF Goes
  <2>3. Fresh(local["first"])
    BY <1>n, <2>2 DEF Got, Handle
  <2>4. local' \in [Names -> Handles] /\ local'["initial"] = local["first"]
    BY <1>0, <1>n, <2>1
  <2>5. /\ Use("initial") \in Seq(Statements) /\ Follows(Use("initial")) /\ NotTop(Use("initial"))
        /\ Use("initial")[1].of = "initial"
    BY <1>n, UseIs
  <2> DEFINE u == Use("initial")
  <2>6. u # <<>> /\ UsesStrict(u[1]) => Fresh(local'[u[1].of])
    BY <2>3, <2>4, <2>5
  <2>7. "chain" \notin DOMAIN Awaited
    BY AwaitedAre
  <2> HIDE DEF u
  <2> QED BY <1>0, <2>1, <2>4, <2>5, <2>6, <2>7, GoesStep DEF u
<1>5. ASSUME Ends PROVE HeldInv'
  <2> DEFINE m == IF call = "add" THEN Mark("first") ELSE <<>>
  <2>1. Goes("chain", m, "return") /\ UNCHANGED <<local, chain>>
    BY <1>5 DEF Ends
  <2>2. Sound(m) /\ NotTop(m)
    BY <1>n, MarkIs, Nothing
  <2> HIDE DEF m
  <2>3. "return" \notin DOMAIN Awaited
    BY AwaitedAre
  <2> QED BY <1>0, <2>1, <2>2, <2>3, GoesSoundly
<1>6. ASSUME NEW b \in RecordBlocks, Seek(b) PROVE HeldInv'
  <2>1. Sound(Fetch(b, "chunk")) /\ NotTop(Fetch(b, "chunk")) /\ EndsWith(Fetch(b, "chunk"), "chunk")
    BY <1>n, BlocksAre, FetchIs
  <2>2. PICK a : Goes(a, Fetch(b, "chunk"), "sought")
    BY <1>6 DEF Seek
  <2>3. UNCHANGED <<local, chain>>
    BY <1>6 DEF Seek
  <2> QED BY <1>0, <2>1, <2>2, <2>3, AwaitedAre, GoesSoundly
<1>7. ASSUME NEW new \in InsertBlocks, SeekNew(new) PROVE HeldInv'
  <2> DEFINE c == AllocateNewBlock(FromHere.block, new)
             e == Fetch(new, "chunk")
  <2>1. FromHere.block \in Blocks \cup {ControlBlock}
    BY <1>0, <1>n DEF Handles, FromHere
  <2>2. Sound(c) /\ NotTop(c)
    BY <2>1, BlocksAre, AllocateIs
  <2>3. Sound(e) /\ NotTop(e) /\ EndsWith(e, "chunk")
    BY <1>n, BlocksAre, FetchIs
  <2>4. (\E a : Goes(a, c \o e, "sought")) /\ UNCHANGED <<local, chain>>
    BY <1>7 DEF SeekNew
  <2> HIDE DEF c, e
  <2>5. PICK a : Goes(a, c \o e, "sought")
    BY <2>4
  <2>6. Sound(c \o e) /\ NotTop(c \o e) /\ EndsWith(c \o e, "chunk")
    BY <2>2, <2>3, Joined, JoinedNotTop, JoinedEnds DEF Sound
  <2> QED BY <1>0, <2>4, <2>5, <2>6, AwaitedAre, GoesSoundly
<1>8. ASSUME PlaceHere PROVE HeldInv'
  <2> DEFINE u == Use("prev")
  <2>1. Sound(u) /\ NotTop(u)
    BY <1>n, UseIs
  <2>2. Goes("chain", u \o u, "chain") /\ UNCHANGED <<local, chain>>
    BY <1>8 DEF PlaceHere
  <2> HIDE DEF u
  <2>3. Sound(u \o u) /\ NotTop(u \o u)
    BY <2>1, Joined, JoinedNotTop DEF Sound
  <2>4. "chain" \notin DOMAIN Awaited
    BY AwaitedAre
  <2> QED BY <1>0, <2>2, <2>3, <2>4, GoesSoundly
<1>9. ASSUME Place PROVE HeldInv'
  <2> DEFINE c == Write("chunk")
             m == Mark("chunk")
             u == Use("prev")
             s == Use("chunk") \o u
  <2>1. Goes("sought", s, "placed") /\ UNCHANGED <<local, chain>>
    BY <1>9 DEF Place
  <2>2. Got("chunk")
    BY <2>1, AwaitedAre, Arrived DEF Goes
  <2>3. Fresh(local["chunk"])
    BY <1>n, <2>2 DEF Got, Handle
  <2>4. /\ Use("chunk") \in Seq(Statements) /\ Follows(Use("chunk")) /\ NotTop(Use("chunk"))
        /\ Use("chunk") # <<>> /\ Use("chunk")[1].of = "chunk"
    BY <1>n, UseIs
  <2>5. Sound(u) /\ NotTop(u)
    BY <1>n, UseIs
  <2> DEFINE w == Use("chunk")
  <2> HIDE DEF u, w
  <2>6. /\ w \o u \in Seq(Statements) /\ Follows(w \o u) /\ (w \o u)[1] = w[1]
    BY <2>4, <2>5, JoinedFollows DEF Sound, w
  <2>7. NotTop(w \o u)
    BY <2>4, <2>5, JoinedNotTop DEF Sound, w
  <2>8. s = w \o u
    BY DEF w
  <2> HIDE DEF s
  <2>9. s # <<>> /\ UsesStrict(s[1]) => Fresh(local'[s[1].of])
    BY <2>1, <2>3, <2>4, <2>6, <2>8 DEF w
  <2>10. "placed" \notin DOMAIN Awaited
    BY AwaitedAre
  <2> QED BY <1>0, <2>1, <2>6, <2>7, <2>8, <2>9, <2>10, GoesStep
<1>10. ASSUME NextChunk PROVE HeldInv'
  <2>1. Goes("placed", <<>>, "chain") /\ chain' = chain
        /\ local' = [local EXCEPT !["prev"] = local["chunk"]]
    BY <1>10 DEF NextChunk
  <2>2. local' \in [Names -> Handles]
    BY <1>0, <1>n, <2>1
  <2>3. Sound(<<>>) /\ NotTop(<<>>) /\ "chain" \notin DOMAIN Awaited
    BY AwaitedAre, Nothing
  <2> QED BY <1>0, <2>1, <2>2, <2>3, GoesSoundly
<1> QED
  BY <1>1, <1>2, <1>3, <1>4, <1>5, <1>6, <1>7, <1>8, <1>9, <1>10 DEF Adding

LEMMA UpdateKeeps ==
    ASSUME HeldInv, Updating PROVE HeldInv'
<1>0. local \in [Names -> Handles] /\ chain \in Seq(Handles)
  BY DEF HeldInv, CallInv, Typed
<1>n. "first" \in Names /\ "prev" \in Names /\ "first" # "top" /\ "first" \notin Strict
  BY NamesAre
<1>1. ASSUME NEW b \in InsertBlocks, Update(b) PROVE HeldInv'
  <2>1. Sound(Fetch(b, "first")) /\ NotTop(Fetch(b, "first"))
    BY <1>n, BlocksAre, FetchIs
  <2>2. Goes("idle", Fetch(b, "first"), "update") /\ UNCHANGED <<local, chain>>
    BY <1>1 DEF Update, Begin
  <2>3. "update" \notin DOMAIN Awaited
    BY AwaitedAre
  <2> QED BY <1>0, <2>1, <2>2, <2>3, GoesSoundly
<1>2. ASSUME NEW c \in RecordBlocks, RemovesChain(c) PROVE HeldInv'
  <2>1. Sound(Fetch(c, "top")) /\ EndsWith(Fetch(c, "top"), "top") /\ NotTop(Fetch(c, "top"))
    BY BlocksAre, FetchIs, FetchTop
  <2>2. Goes("update", Fetch(c, "top"), "descend") /\ UNCHANGED <<local, chain>>
    BY <1>2 DEF RemovesChain
  <2> QED BY <1>0, <2>1, <2>2, AwaitedAre, GoesSoundly
<1>3. ASSUME Rewrite PROVE HeldInv'
  <2> DEFINE w == Write("first")
             u == Use("first")
  <2>1. (\E a : Goes(a, w \o u, "chain")) /\ chain' = chain
        /\ local' = [local EXCEPT !["prev"] = local["first"]]
    BY <1>3 DEF Rewrite
  <2>2. Sound(w) /\ NotTop(w)
    BY <1>n, WriteIs
  <2>3. Sound(u) /\ NotTop(u)
    BY <1>n, UseIs
  <2> HIDE DEF w, u
  <2>4. Sound(w \o u) /\ NotTop(w \o u)
    BY <2>2, <2>3, Joined, JoinedNotTop DEF Sound
  <2>5. local' \in [Names -> Handles]
    BY <1>0, <1>n, <2>1
  <2>6. PICK a : Goes(a, w \o u, "chain")
    BY <2>1
  <2>7. "chain" \notin DOMAIN Awaited
    BY AwaitedAre
  <2> QED BY <1>0, <2>1, <2>4, <2>5, <2>6, <2>7, GoesSoundly
<1>4. ASSUME UpdateFails PROVE HeldInv'
  <2>1. PICK a : Goes(a, <<>>, "return")
    BY <1>4 DEF UpdateFails
  <2>2. UNCHANGED <<local, chain>>
    BY <1>4 DEF UpdateFails
  <2>3. Sound(<<>>) /\ NotTop(<<>>) /\ "return" \notin DOMAIN Awaited
    BY AwaitedAre, Nothing
  <2> QED BY <1>0, <2>1, <2>2, <2>3, GoesSoundly
<1> QED
  BY <1>1, <1>2, <1>3, <1>4 DEF Updating

LEMMA RemoveKeeps ==
    ASSUME HeldInv, Removing PROVE HeldInv'
<1>0. local \in [Names -> Handles] /\ chain \in Seq(Handles)
  BY DEF HeldInv, CallInv, Typed
<1>n. AfterRemove \in {"rewrite", "return"} /\ "pop" \notin DOMAIN Awaited /\ "unwind" \notin DOMAIN Awaited
      /\ AfterRemove \notin DOMAIN Awaited
  BY AwaitedAre DEF AfterRemove
<1>e. Sound(<<>>) /\ NotTop(<<>>)
  BY Nothing
<1>1. ASSUME NEW b \in InsertBlocks, Remove(b) PROVE HeldInv'
  <2>1. Sound(Fetch(b, "top")) /\ EndsWith(Fetch(b, "top"), "top") /\ NotTop(Fetch(b, "top"))
    BY BlocksAre, FetchIs, FetchTop
  <2>2. Goes("idle", Fetch(b, "top"), "descend") /\ UNCHANGED <<local, chain>>
    BY <1>1 DEF Remove, Begin
  <2> QED BY <1>0, <2>1, <2>2, AwaitedAre, GoesSoundly
<1>2. ASSUME NEW b \in RecordBlocks, Deeper(b) PROVE HeldInv'
  <2>1. Sound(Fetch(b, "top")) /\ EndsWith(Fetch(b, "top"), "top") /\ NotTop(Fetch(b, "top"))
    BY BlocksAre, FetchIs, FetchTop
  <2>2. Goes("descend", Fetch(b, "top"), "descend") /\ UNCHANGED <<local, chain>>
    BY <1>2 DEF Deeper
  <2> QED BY <1>0, <2>1, <2>2, AwaitedAre, GoesSoundly
<1>3. ASSUME NEW s, (at \in {"descend", "unwind"} /\ todo = <<>> => Sound(s)), RemoveChunk(s) PROVE HeldInv'
  <2> DEFINE w == Write("top")
  <2>1. PICK a \in {"descend", "unwind"} : Goes(a, w \o s, "pop")
    BY <1>3 DEF RemoveChunk
  <2>2. UNCHANGED <<local, chain>>
    BY <1>3 DEF RemoveChunk
  <2>3. at = a /\ todo = <<>>
    BY <2>1 DEF Goes
  <2>4. chain # <<>>
    BY <2>3, TopIsHeld
  <2>5. Sound(w)
    BY NamesAre, WriteIs
  <2>6. Sound(s)
    BY <1>3, <2>1, <2>3
  <2> HIDE DEF w
  <2>7. Sound(w \o s)
    BY <2>5, <2>6, Joined
  <2> QED BY <1>0, <1>n, <2>1, <2>2, <2>4, <2>7, GoesSoundly
<1>4. ASSUME RemoveChunk(<<>>) PROVE HeldInv'
  BY <1>3, <1>4, <1>e
<1>5. ASSUME NEW p \in InsertBlocks, NEW n \in RecordBlocks, RemoveChunk(RemoveFromList(p, n))
      PROVE  HeldInv'
  <2>1. at \in {"descend", "unwind"} /\ todo = <<>> => Sound(RemoveFromList(p, n))
    <3> SUFFICES ASSUME at \in {"descend", "unwind"}, todo = <<>> PROVE Sound(RemoveFromList(p, n))
      OBVIOUS
    <3>1. chain # <<>>
      BY TopIsHeld
    <3>2. Handle("top") \in Handles
      BY <3>1, HandlesAre DEF HeldInv, CallInv
    <3> QED BY <3>2, RemoveFromListIs
  <2> QED BY <1>3, <1>5, <2>1
<1>6. ASSUME Pop PROVE HeldInv'
  <2> DEFINE b == IF Len(chain) > 1 THEN "unwind" ELSE AfterRemove
  <2>1. Goes("pop", <<>>, b) /\ chain' = SubSeq(chain, 1, Len(chain) - 1) /\ local' = local
    BY <1>6 DEF Pop
  <2>2. Len(chain) \in Nat /\ chain # <<>>
    <3>1. at = "pop"
      BY <2>1 DEF Goes
    <3> QED BY <1>0, <3>1 DEF HeldInv, CallInv, ChainHeld
  <2>3. chain' \in Seq(Handles) /\ (Len(chain) > 1 => chain' # <<>>)
    BY <1>0, <2>1, <2>2, FrontOfChain
  <2>4. b \notin DOMAIN Awaited /\ b # "idle" /\ (b \in {"unwind", "pop"} => chain' # <<>>)
    BY <1>n, <2>3
  <2> HIDE DEF b
  <2> QED BY <1>0, <1>e, <2>1, <2>3, <2>4, GoesSoundly
<1>7. ASSUME RemoveFails PROVE HeldInv'
  <2>1. PICK a : Goes(a, <<>>, AfterRemove)
    BY <1>7 DEF RemoveFails
  <2>2. chain' = <<>> /\ local' = local
    BY <1>7 DEF RemoveFails
  <2>3. <<>> \in Seq(Handles)
    OBVIOUS
  <2>4. AfterRemove \notin {"unwind", "pop", "idle"}
    BY <1>n
  <2> QED BY <1>0, <1>n, <1>e, <2>1, <2>2, <2>3, <2>4, GoesSoundly
<1> QED
  BY <1>1, <1>2, <1>4, <1>5, <1>6, <1>7 DEF Removing

\* Handles that are kept over fetches may be stale; the others never are.
LEMMA HeldStep == HeldInv /\ [~lost /\ HeldNext]_heldVars => HeldInv'
<1> SUFFICES ASSUME HeldInv, [~lost /\ HeldNext]_heldVars PROVE HeldInv'
  OBVIOUS
<1>1. CASE Statement
  BY <1>1, FetchKeeps, FailKeeps, MarkKeeps, WriteKeeps DEF Statement
<1>2. CASE Adding
  BY <1>2, AddKeeps
<1>3. CASE Updating
  BY <1>3, UpdateKeeps
<1>4. CASE Removing
  BY <1>4, RemoveKeeps
<1>5. CASE Return
  <2>1. Inv'
    BY <1>5, BufferStep DEF HeldInv, Return
  <2> QED BY <1>5, <2>1, NoCallIs, OverKeeps DEF Return, NoCallIsLeft
<1>6. CASE Dies
  <2>1. Next
    BY <1>6 DEF Dies, Next
  <2>2. Inv'
    BY <2>1, BufferStep DEF HeldInv
  <2> QED BY <1>6, <2>2, NoCallIs, OverKeeps DEF Dies, NoCallIsLeft
<1>7. CASE at = "idle" /\ Next /\ UNCHANGED <<callVars, lost>>
  <2>1. Inv'
    BY <1>7, BufferStep DEF HeldInv
  <2>2. todo = <<>> /\ Typed /\ UNCHANGED <<local, chain, todo, at>>
    BY <1>7 DEF HeldInv, CallInv, callVars
  <2> QED BY <1>7, <2>1, <2>2, OverKeeps DEF Typed
<1>8. CASE UNCHANGED heldVars
  <2>1. Inv' /\ idToFrame' = idToFrame /\ UNCHANGED <<local, chain, todo, at>>
    BY <1>8, BufferStep DEF HeldInv, heldVars, callVars, vars, tableVars
  <2> QED BY <2>1 DEF HeldInv, CallInv, Typed, HeadFresh, ChainHeld, Awaits, Got, Fresh, Handle
<1> QED
  BY <1>1, <1>2, <1>3, <1>4, <1>5, <1>6, <1>7, <1>8 DEF HeldNext

-----------------------------------------------------------------------------
(* The theorems                                                            *)

\* The inductive invariant: a block is in the frame of its handle whenever the call
\* uses it through a handle that it does not keep over a fetch
\* (record_allocator.go:27-250).
THEOREM HandlesHold == HeldSpec => []HeldInv
<1>1. HeldInit => HeldInv
  <2> SUFFICES ASSUME HeldInit PROVE HeldInv
    OBVIOUS
  <2>1. Inv
    BY InvInit DEF HeldInit
  <2>2. todo = <<>> /\ at = "idle" /\ chain = <<>> /\ local = [x \in Names |-> NoHandle]
    BY DEF HeldInit, NoCall
  <2>3. local \in [Names -> Handles] /\ chain \in Seq(Handles)
    BY <2>2, NoCallIs
  <2>4. <<>> \in Seq(Statements) /\ Follows(<<>>) /\ NotTop(<<>>)
    BY Nothing DEF Sound
  <2>5. at \notin DOMAIN Awaited /\ at \notin {"unwind", "pop"}
    BY <2>2, AwaitedAre
  <2> QED BY <2>1, <2>2, <2>3, <2>4, <2>5 DEF HeldInv, CallInv, Typed, HeadFresh, ChainHeld, Awaits
<1>2. HeldInv /\ [~lost /\ HeldNext]_heldVars => HeldInv'
  BY HeldStep
<1> QED
  BY <1>1, <1>2, PTL DEF HeldSpec

\* A write into another block's frame breaks neither the table nor what a Sync has
\* acknowledged of the blocks nobody wrote to (data_buffer.go:49-146).
THEOREM StaleWritesKeepTheBuffer == HeldSpec => [](FrameTable /\ SyncedIsDurable)
<1>1. HeldInv => FrameTable /\ SyncedIsDurable
  BY DEF HeldInv, Inv, DiskInv, SyncedIsDurable
<1> QED
  BY <1>1, HandlesHold, PTL

\* Of the blocks Add, Update and Remove write to, only the insert block, the block
\* Update rewrites, the previous chunk's and those on the stack of Remove can be
\* mistaken for another (record_allocator.go:59, 239, 81 called from 244, 117, 167, 218).
THEOREM FreshWritesStay == HeldSpec => ChangesItsBlock
<1> DEFINE Stays == \A v \in Values : DoWrite(v) /\ todo[1].of \in Strict =>
                       \A b \in Blocks : b # local[todo[1].of].block => Content(b)' = Content(b)
<1>1. HeldInv => Stays
  <2> SUFFICES ASSUME HeldInv, NEW v \in Values, DoWrite(v), todo[1].of \in Strict,
                      NEW b \in Blocks, b # local[todo[1].of].block
               PROVE  Content(b)' = Content(b)
    OBVIOUS
  <2> DEFINE h == local[todo[1].of]
  <2>1. todo # <<>> /\ UsesStrict(todo[1])
    BY DEF DoWrite, Begins, UsesStrict
  <2>2. Fresh(h)
    BY <2>1 DEF HeldInv, CallInv, HeadFresh
  <2>3. todo[1].of \in Names /\ "top" \notin Strict
    BY NamesAre
  <2>4. Handle(todo[1].of) = h
    BY <2>3 DEF Handle
  <2>5. h.frame \in Frames
    BY <2>3 DEF HeldInv, CallInv, Typed, Handles
  <2>6. data' = [data EXCEPT ![h.frame] = v] /\ idToFrame' = idToFrame /\ disk' = disk
    BY <2>4 DEF DoWrite, tableVars
  <2> HIDE DEF h
  <2>7. Resident(b) => idToFrame[b] # h.frame
    BY <2>2, <2>5, FramesAreNotNone DEF HeldInv, Inv, FrameTable, Resident, Fresh, h
  <2>8. Resident(b) => idToFrame[b] \in Frames
    BY DEF HeldInv, Inv, TypeOK, Resident
  <2> QED BY <2>6, <2>7, <2>8 DEF HeldInv, Inv, TypeOK, Content, Resident
<1> QED
  BY <1>1, HandlesHold, PTL DEF ChangesItsBlock

\* With any number of frames, the panic of MarkAsDirty (data_buffer.go:93-96) takes a
\* block that the call kept while it fetched others: the insert block, the block
\* Update rewrites, or the previous chunk's (record_allocator.go:60, 65, 82, 118).
THEOREM OnlyKeptPanic == HeldSpec => PanicsOnKept
<1>1. HeldInv /\ [~lost /\ HeldNext]_heldVars /\ lost' # lost =>
          todo[1].op = "mark" /\ todo[1].of \in {"first", "prev"}
  <2> SUFFICES ASSUME HeldInv, [~lost /\ HeldNext]_heldVars, lost' # lost
               PROVE  todo[1].op = "mark" /\ todo[1].of \in {"first", "prev"}
    OBVIOUS
  <2>1. PICK b \in Blocks : DoMark(b)
    <3>1. CASE Statement
      BY <3>1 DEF Statement, DoFetch, FetchFails, DoWrite
    <3>2. ~Adding
      BY DEF Adding, Add, NewBlock, SeekNew, NextBlock, Seek, Allocate, Ends, PlaceHere, Place,
        NextChunk, Begin, Goes
    <3>3. ~Updating
      BY DEF Updating, Update, RemovesChain, Rewrite, UpdateFails, Begin, Goes
    <3>4. ~Removing
      BY DEF Removing, Remove, Deeper, RemoveChunk, Pop, RemoveFails, Begin, Goes
    <3>5. ~Return /\ ~Dies /\ ~(UNCHANGED lost)
      BY DEF Return, Dies
    <3> QED BY <3>1, <3>2, <3>3, <3>4, <3>5 DEF HeldNext, heldVars
  <2>2. todo # <<>> /\ todo[1].op = "mark" /\ Handle(todo[1].of).block = b /\ ~Resident(b)
    BY <2>1 DEF DoMark, Begins
  <2>3. todo[1] \in Statements
    BY <2>2 DEF HeldInv, CallInv, Typed
  <2>4. todo[1].of \in Names
    BY <2>2, <2>3 DEF Statements
  <2>5. todo[1].of \notin Strict
    <3> SUFFICES ASSUME todo[1].of \in Strict PROVE FALSE
      OBVIOUS
    <3>1. Fresh(local[todo[1].of])
      BY <2>2 DEF HeldInv, CallInv, HeadFresh, UsesStrict
    <3>2. Handle(todo[1].of) = local[todo[1].of]
      BY NamesAre DEF Handle
    <3>3. local[todo[1].of].frame \in Frames
      BY <2>4 DEF HeldInv, CallInv, Typed, Handles
    <3> QED BY <2>2, <3>1, <3>2, <3>3, FramesAreNotNone DEF Fresh, Resident
  <2> QED BY <2>2, <2>4, <2>5, NamesAre
<1> QED
  BY <1>1, HandlesHold, PTL DEF HeldSpec, PanicsOnKept

=============================================================================
